------------------------------ MODULE MCTunnel ------------------------------
(***************************************************************************)
(* An instance of Tunnel for TLC: a host of three bytes, so that it can be *)
(* cut in more than one place, two bytes said and one in reply.            *)
(***************************************************************************)
EXTENDS Tunnel

ShortHost == <<97, 98, 99>>
TwoSaid == <<33, 34>>
OneReplied == <<43>>

=============================================================================
