------------------------------- MODULE Metric -------------------------------
(***************************************************************************)
(* What the metric of a backend promises: one copy of its data, which      *)
(* every batch of changes reaches in one step and every reader sees.       *)
(* LeftRight.tla, in which the code's two copies take turns, implements    *)
(* this.                                                                   *)
(***************************************************************************)
EXTENDS MetricOps

VARIABLE data

vars == <<data, callerVars>>

TypeOK == data \in MetricData /\ CallersOK

Init ==
    /\ \E s \in Statuses : data = EmptyData(s)
    /\ CallersInit

Publish(b) == data' = Absorb(data, b)

Transfer(t) == Begin(t) /\ UNCHANGED data

IncrConnection(t) ==
    CountIn(t) /\ Publish([kind |-> "incr", peer |-> PeerOf[t]])

Summary(t) ==
    /\ End(t, "ok")
    /\ \E n \in Bytes, x \in Times :
         Publish([kind |-> "summary", peer |-> PeerOf[t], bytes |-> n, time |-> x])

AddFailures(t) ==
    End(t, "failed") /\ Publish([kind |-> "failures", peer |-> PeerOf[t]])

Reset == Wipe /\ Publish([kind |-> "reset"])

SetStatus(s) ==
    Publish([kind |-> "status", status |-> s]) /\ UNCHANGED callerVars

Next ==
    \/ \E t \in Tunnels :
         Transfer(t) \/ IncrConnection(t) \/ Summary(t) \/ AddFailures(t)
    \/ Reset
    \/ \E s \in Statuses : SetStatus(s)

Spec == Init /\ [][Next]_vars

=============================================================================
