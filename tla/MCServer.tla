------------------------------ MODULE MCServer ------------------------------
(***************************************************************************)
(* An instance of Server for TLC: three TCP connections and one permit, so *)
(* that one is handled, one in hand and one in the backlog.                *)
(***************************************************************************)
EXTENDS Server

CONSTANTS k1, k2, k3, q1, q2

ThreeH2Conns == {k1, k2, k3}
TwoQuicConns == {q1, q2}

=============================================================================
