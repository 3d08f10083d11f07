------------------------------ MODULE MCBackend ------------------------------
(***************************************************************************)
(* Instances of Backend for TLC.                                           *)
(***************************************************************************)
EXTENDS Backend, TLC

CONSTANTS c1, c2, r1, r2, r3, o1, o2

OneConn == {c1}
TwoConns == {c1, c2}
OneRetrier == {r1}
TwoRetriers == {r1, r2}
ThreeRetriers == {r1, r2, r3}
NoOperator == {}
OneOperator == {o1}
TwoOperators == {o1, o2}

\* Slots of a kind are interchangeable.
Symmetry == Permutations(Conns) \cup Permutations(Retriers)
                \cup Permutations(Operators)

=============================================================================
