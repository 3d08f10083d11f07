----------------------------- MODULE MetricOps -----------------------------
(***************************************************************************)
(* The data of one backend's metric and what each MetricOp makes of it     *)
(* (MetricData::absorb_first in src/client/src/metric.rs), and the callers *)
(* that change it: the tunnels of the backend (the end of                  *)
(* handle_connection in src/client/src/proxy.rs), the task each tunnel     *)
(* spawns only to count itself in, and the operators' resets.  Metric.tla  *)
(* and LeftRight.tla say how the changes reach the readers.                *)
(*                                                                         *)
(* u32 counters wrap around, as the release build's arithmetic does.       *)
(***************************************************************************)
EXTENDS Integers, FiniteSets

CONSTANTS
    Tunnels,     \* the tunnels of a behaviour; each runs once
    Peers,       \* addresses of proxy users
    PeerOf,      \* the address each tunnel comes from
    Modulus,     \* 2^32 in the code: the counters are u32
    MaxTotal,    \* 2^64 - 1 in the code: the byte totals are u64
    Bytes,       \* byte counts a tunnel may report
    Times,       \* connection times a tunnel may report
    Statuses,    \* values of BackendStatus
    MaxResets    \* bound: resets in a behaviour

ASSUME MetricAssumption ==
    /\ IsFiniteSet(Tunnels)
    /\ PeerOf \in [Tunnels -> Peers]
    /\ Modulus \in Nat \ {0}
    /\ MaxTotal \in Nat
    /\ Bytes \subseteq Nat
    /\ Times \subseteq Nat
    /\ MaxResets \in Nat

VARIABLES
    phase,       \* where each tunnel is
    incr,        \* whether its spawned incr_connection has run
    resets,      \* resets so far
    wiped        \* history: counted minus ended tunnels at the last reset

callerVars == <<phase, incr, resets, wiped>>

CallersOK ==
    /\ phase \in [Tunnels -> {"new", "run", "ok", "failed"}]
    /\ incr \in [Tunnels -> {"none", "pending", "done"}]
    /\ resets \in 0..MaxResets
    /\ wiped \in Int

CallersInit ==
    /\ phase = [t \in Tunnels |-> "new"]
    /\ incr = [t \in Tunnels |-> "none"]
    /\ resets = 0
    /\ wiped = 0

(***************************************************************************)
(* MetricData, with 0 for an absent key of active_peers, and one of the    *)
(* two byte totals, which are alike.  The peak EWMA is in LeftRight.tla.   *)
(***************************************************************************)
MetricData ==
    [active : 0..Modulus - 1, peers : [Peers -> Nat], failures : 0..Modulus - 1,
     total : 0..MaxTotal, status : Statuses]

EmptyData(s) ==
    [active |-> 0, peers |-> [p \in Peers |-> 0], failures |-> 0, total |-> 0,
     status |-> s]

(***************************************************************************)
(* absorb_first: one MetricOp each                                         *)
(***************************************************************************)
IncrActiveConnection(d) == [d EXCEPT !.active = (@ + 1) % Modulus]

\* Mutant: no wrap-around at zero.
DecrBelowZero(d) == [d EXCEPT !.active = @ - 1]

DecrActiveConnection(d) == [d EXCEPT !.active = (@ - 1) % Modulus]

AddPeer(d, p) == [d EXCEPT !.peers[p] = @ + 1]

\* A counter at 1 is removed; a key that is absent stays absent.
SubPeer(d, p) == [d EXCEPT !.peers[p] = IF @ = 0 THEN 0 ELSE @ - 1]

\* checked_add: a sum that does not fit is not taken.
AddBytes(d, n) == [d EXCEPT !.total = IF @ + n <= MaxTotal THEN @ + n ELSE @]

AddFailure(d) == [d EXCEPT !.failures = (@ + 1) % Modulus]

\* MetricOp::Reset leaves the totals and the status alone.
ResetCounters(d) ==
    [d EXCEPT !.failures = 0, !.active = 0, !.peers = [p \in Peers |-> 0]]

ChangeStatus(d, s) == [d EXCEPT !.status = s]

(***************************************************************************)
(* The batches of MetricOps that MetricWriter appends and publishes at     *)
(* once.  set_protocol is like set_status.                                 *)
(***************************************************************************)
Batches ==
    [kind : {"incr", "failures"}, peer : Peers]
      \cup [kind : {"summary"}, peer : Peers, bytes : Bytes, time : Times]
      \cup [kind : {"reset"}]
      \cup [kind : {"status"}, status : Statuses]

\* Mutant: a failed tunnel is not counted out.
AbsorbForgets(d, b) ==
    CASE b.kind = "incr"     -> AddPeer(IncrActiveConnection(d), b.peer)
      [] b.kind = "summary"  -> AddBytes(SubPeer(DecrActiveConnection(d), b.peer), b.bytes)
      [] b.kind = "failures" -> SubPeer(AddFailure(d), b.peer)
      [] b.kind = "reset"    -> ResetCounters(d)
      [] b.kind = "status"   -> ChangeStatus(d, b.status)

Absorb(d, b) ==
    CASE b.kind = "incr"     -> AddPeer(IncrActiveConnection(d), b.peer)
      [] b.kind = "summary"  -> AddBytes(SubPeer(DecrActiveConnection(d), b.peer), b.bytes)
      [] b.kind = "failures" -> DecrActiveConnection(SubPeer(AddFailure(d), b.peer))
      [] b.kind = "reset"    -> ResetCounters(d)
      [] b.kind = "status"   -> ChangeStatus(d, b.status)

(***************************************************************************)
(* The callers' own part of each change                                    *)
(***************************************************************************)
Counted == {t \in Tunnels : incr[t] = "done"}
Pending == {t \in Tunnels : incr[t] = "pending"}
Running == {t \in Tunnels : phase[t] = "run"}
Ended == {t \in Tunnels : phase[t] \in {"ok", "failed"}}

Balance == Cardinality(Counted) - Cardinality(Ended)

\* handle_connection has its second guard: it spawns the increment and goes on
\* to transfer.
Begin(t) ==
    /\ phase[t] = "new"
    /\ phase' = [phase EXCEPT ![t] = "run"]
    /\ incr' = [incr EXCEPT ![t] = "pending"]
    /\ UNCHANGED <<resets, wiped>>

\* The spawned task, which may run at any time after that.
CountIn(t) ==
    /\ incr[t] = "pending"
    /\ incr' = [incr EXCEPT ![t] = "done"]
    /\ UNCHANGED <<phase, resets, wiped>>

\* transfer ends well ("ok"), or it fails or is cancelled ("failed").
End(t, how) ==
    /\ phase[t] = "run"
    /\ phase' = [phase EXCEPT ![t] = how]
    /\ UNCHANGED <<incr, resets, wiped>>

\* reset_backend resets under a read guard, while tunnels may be running;
\* switch_protocol under the write guard, when none is.
Wipe ==
    /\ resets < MaxResets
    /\ resets' = resets + 1
    /\ wiped' = Balance
    /\ UNCHANGED <<phase, incr>>

(***************************************************************************)
(* What is expected of the data d that a reader sees                       *)
(***************************************************************************)
ActiveLawOf(d) == d.active = (Balance - wiped) % Modulus

RunningFrom(p) == {t \in Running : PeerOf[t] = p}

PeersListedIn(d) ==
    resets = 0 /\ Pending = {} =>
        \A p \in Peers : d.peers[p] >= Cardinality(RunningFrom(p))

=============================================================================
