----------------------------- MODULE LeftRight -----------------------------
(***************************************************************************)
(* The metric of a backend as the code keeps it (Metric, MetricWriter and  *)
(* MetricData in src/client/src/metric.rs): in the two copies of the       *)
(* left_right crate.  Readers see the live copy.  A publication brings the *)
(* other copy up to date, absorbing first what the live copy has already   *)
(* absorbed and then the new batch, and makes it the live one.  The writer *)
(* is behind a mutex, so a publication is one step.                        *)
(*                                                                         *)
(* Every batch is thus absorbed twice, at two times.  That is harmless for *)
(* the counters, which depend on the batches only, but PeakEWMA::observe   *)
(* (src/lib/src/metric.rs) asks for the time: the copies differ in it, and *)
(* the cost that balancing reads moves with each swap.                     *)
(*                                                                         *)
(* Times are whole units, and exp(-elapsed/decay) is 1/Divisor[elapsed].   *)
(***************************************************************************)
EXTENDS MetricOps

CONSTANTS
    InitRtt,     \* the estimate of a new PeakEWMA (50 ms)
    MaxTime,     \* bound: the last point of time
    Divisor      \* by how much a value has decayed after some units

ASSUME ClockAssumption ==
    /\ InitRtt \in Nat /\ MaxTime \in Nat
    /\ Divisor \in [0..MaxTime -> Nat \ {0}]
    /\ \A u, v \in 0..MaxTime : u <= v => Divisor[u] <= Divisor[v]

VARIABLES
    copy,        \* the two copies of MetricData without the EWMA
    ewma,        \* the two copies of PeakEWMA
    live,        \* the copy that readers see
    log,         \* the batch that only the live copy has absorbed
    now,         \* the clock
    report       \* history: the last connection time reported, and when

vars == <<copy, ewma, live, log, now, report, callerVars>>

PeakEWMA == [rtt : Nat, last_event : 0..MaxTime]

TypeOK ==
    /\ copy \in [1..2 -> MetricData]
    /\ ewma \in [1..2 -> PeakEWMA]
    /\ live \in 1..2
    /\ log \in Batches
    /\ now \in 0..MaxTime
    /\ report \in [time : Times \cup {0}, at : 0..MaxTime]
    /\ CallersOK

\* Metric::new has published the status, which the second copy took over as a
\* whole (sync_with), and the protocol, which it has yet to absorb; that
\* changes as little as absorbing the status once more.
Init ==
    /\ \E s \in Statuses :
         /\ copy = [i \in 1..2 |-> EmptyData(s)]
         /\ log = [kind |-> "status", status |-> s]
    /\ ewma = [i \in 1..2 |-> [rtt |-> InitRtt, last_event |-> 0]]
    /\ live = 1
    /\ now = 0
    /\ report = [time |-> 0, at |-> 0]
    /\ CallersInit

(***************************************************************************)
(* PeakEWMA                                                                *)
(***************************************************************************)
Decayed(v, units) == v \div Divisor[units]

\* Mutant: a rising latency is averaged like a falling one.
ObserveAverages(e, x) ==
    [rtt |-> IF x > e.rtt THEN (e.rtt + x) \div 2
                          ELSE x + Decayed(e.rtt - x, now - e.last_event),
     last_event |-> now]

\* A rising latency counts at once; to a lower one the estimate falls with time.
Observe(e, x) ==
    [rtt |-> IF x > e.rtt THEN x ELSE x + Decayed(e.rtt - x, now - e.last_event),
     last_event |-> now]

\* get_peak_ewma: (active_requests + 1) is a u32.
GetPeakEwma(i) ==
    ((copy[i].active + 1) % Modulus)
        * Decayed(ewma[i].rtt, now - ewma[i].last_event)

(***************************************************************************)
(* Publication                                                             *)
(***************************************************************************)
AbsorbTime(e, b) == IF b.kind = "summary" THEN Observe(e, b.time) ELSE e

\* Mutant: a reset is applied to one copy only.
AbsorbSecondSkipsReset(d, b) == IF b.kind = "reset" THEN d ELSE Absorb(d, b)

\* absorb_second is left at its default.
AbsorbSecond(d, b) == Absorb(d, b)

Publish(b) ==
    LET stale == 3 - live IN
    /\ copy' = [copy EXCEPT ![stale] = Absorb(AbsorbSecond(@, log), b)]
    /\ ewma' = [ewma EXCEPT ![stale] = AbsorbTime(AbsorbTime(@, log), b)]
    /\ live' = stale
    /\ log' = b
    /\ UNCHANGED now

(***************************************************************************)
(* The callers                                                             *)
(***************************************************************************)
Transfer(t) == Begin(t) /\ UNCHANGED <<copy, ewma, live, log, now, report>>

IncrConnection(t) ==
    /\ CountIn(t)
    /\ Publish([kind |-> "incr", peer |-> PeerOf[t]])
    /\ UNCHANGED report

Summary(t) ==
    /\ End(t, "ok")
    /\ \E n \in Bytes, x \in Times :
         /\ Publish([kind |-> "summary", peer |-> PeerOf[t], bytes |-> n, time |-> x])
         /\ report' = [time |-> x, at |-> now]

AddFailures(t) ==
    /\ End(t, "failed")
    /\ Publish([kind |-> "failures", peer |-> PeerOf[t]])
    /\ UNCHANGED report

Reset ==
    /\ Wipe
    /\ Publish([kind |-> "reset"])
    /\ UNCHANGED report

SetStatus(s) ==
    /\ Publish([kind |-> "status", status |-> s])
    /\ UNCHANGED <<callerVars, report>>

Tick ==
    /\ now < MaxTime
    /\ now' = now + 1
    /\ UNCHANGED <<copy, ewma, live, log, report, callerVars>>

Next ==
    \/ \E t \in Tunnels :
         Transfer(t) \/ IncrConnection(t) \/ Summary(t) \/ AddFailures(t)
    \/ Reset
    \/ \E s \in Statuses : SetStatus(s)
    \/ Tick

Spec == Init /\ [][Next]_vars

(***************************************************************************)
(* Properties                                                              *)
(***************************************************************************)

\* Although two copies take turns, readers see one: each publication has its
\* effect on what they see at once and nothing else has, so that, say, a status
\* that set_status has published is not taken back by the next publication.
Atomic == INSTANCE Metric WITH data <- copy[live]

AtomicMetric == Atomic!Spec

\* active_connections, as a reader sees it, is, modulo 2^32, what was counted
\* in less what was counted out since the last reset, in whatever order a
\* tunnel's end and its spawned increment come, and whatever a reset wiped in
\* between.  And while no operator resets, a metric whose increments have all
\* run misses no user who has a tunnel, even after an end overtook its
\* increment.
CountsLaw == ActiveLawOf(copy[live]) /\ PeersListedIn(copy[live])

\* "if latency is rising, we will immediately raise the cost" (PeakEWMA in
\* src/lib/src/metric.rs): whichever copy is live, and although the copies
\* observed it at different times, the cost that least_loaded_time reads is at
\* least the last reported connection time, decayed since then, for every
\* tunnel that runs and one more.  Only a wrapped counter can make it less.
CostCoversLoad ==
    resets = 0 /\ Pending = {} =>
        GetPeakEwma(live) >=
            (Cardinality(Running) + 1) * Decayed(report.time, now - report.at)

=============================================================================
