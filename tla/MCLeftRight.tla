---------------------------- MODULE MCLeftRight ----------------------------
(***************************************************************************)
(* An instance of LeftRight for TLC: two of the three tunnels come from    *)
(* one user.                                                               *)
(***************************************************************************)
EXTENDS LeftRight, TLC

CONSTANTS t1, t2, t3, p1, p2

ThreeTunnels == {t1, t2, t3}
TwoPeers == {p1, p2}
\* A value halves with every unit.
Halving == [u \in 0..MaxTime |-> 2^u]

PeerOfTunnel == [t \in ThreeTunnels |-> IF t = t3 THEN p2 ELSE p1]

Symmetry == Permutations({t1, t2})

=============================================================================
