----------------------------- MODULE MCFrontEnd -----------------------------
EXTENDS FrontEnd, TLC

CONSTANTS u1, u2

MCUsers == {u1, u2}

\* A name without a port, an address literal with and without one.
Name == <<"a">>
Literal == <<"[", ":", "1]">>
MCHosts ==
    {[name |-> Name, port |-> "none"], [name |-> Literal, port |-> "8080"],
     [name |-> Literal, port |-> "none"]}

MCWord == {"a", "b", "[", "1]", ":", "80", "8080"}

\* The literal is rewritten and direct, the name has no rule.
MCRules == Literal :> [rewrite |-> <<"b">>, direct |-> TRUE]

\* The first user asks for something other than a tunnel.
MCInit == Init /\ kind[u1] = "other"

MCSpec == MCInit /\ [][Next]_vars /\ WF_vars(Tasks)

=============================================================================
