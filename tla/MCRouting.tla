------------------------------ MODULE MCRouting ------------------------------
(***************************************************************************)
(* Instances of Routing for TLC.                                           *)
(***************************************************************************)
EXTENDS Routing, TLC

CONSTANTS c1, c2, plain, pinned, lost, open, vague

OneConn == {c1}
TwoConns == {c1, c2}

PlainHost == {plain}
AllHosts == {plain, pinned, lost, open, vague}

NoSections == [h \in {} |-> [rewrite |-> FALSE, backend |-> NoKey, direct |-> FALSE]]

\* A backend of its own, an unknown backend, a direct host that also names a
\* backend, and a section that says nothing.
EverySection ==
    (pinned :> [rewrite |-> TRUE, backend |-> 1, direct |-> FALSE])
    @@ (lost :> [rewrite |-> FALSE, backend |-> N + 1, direct |-> FALSE])
    @@ (open :> [rewrite |-> FALSE, backend |-> 1, direct |-> TRUE])
    @@ (vague :> [rewrite |-> FALSE, backend |-> NoKey, direct |-> FALSE])

LastInRing == [h \in Hosts |-> N - 1]

Symmetry == Permutations(Conns)

=============================================================================
