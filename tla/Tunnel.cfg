CONSTANTS
    Host <- ShortHost
    Said <- TwoSaid
    Reply <- OneReplied
    MaxPartial = 1
SPECIFICATION FairSpec
INVARIANTS TypeOK HeadIntact EndsHearEachOther EndsComeLast
PROPERTIES TunnelEnds
