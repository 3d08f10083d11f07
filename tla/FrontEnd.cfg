SPECIFICATION MCSpec
CONSTANTS
    u1 = u1
    u2 = u2
    Users <- MCUsers
    Word <- MCWord
    Hosts <- MCHosts
    Rules <- MCRules
    ConnectLen = 2
INVARIANTS
    TypeOK
    AnswerOwned
    HandshakeExact
    TargetAsked
PROPERTIES
    PlainAnswered
