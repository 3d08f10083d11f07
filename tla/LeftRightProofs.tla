-------------------------- MODULE LeftRightProofs --------------------------
(***************************************************************************)
(* Proofs about LeftRight, for any tunnels and users, any widths of the    *)
(* counters, any number of resets and any decay.                           *)
(***************************************************************************)
EXTENDS LeftRight, FiniteSetTheorems, TLAPS

\* The live copy is the other one with the last batch absorbed: left_right's
\* promise, which the next publication relies on.
CopiesAgree == copy[live] = Absorb(copy[3 - live], log)

(***************************************************************************)
(* Publication                                                             *)
(***************************************************************************)

\* Whatever is published, readers see its effect on what they saw, and the
\* copies go on agreeing.
LEMMA PublishAtomic ==
    ASSUME copy \in [1..2 -> MetricData], live \in 1..2, CopiesAgree, NEW b, Publish(b)
    PROVE  /\ copy'[live'] = Absorb(copy[live], b)
           /\ CopiesAgree'
           /\ live' \in 1..2
<1>1. live' = 3 - live /\ 3 - live \in 1..2 /\ 3 - live # live /\ 3 - live' = live /\ log' = b
  BY DEF Publish
<1>2. copy' = [copy EXCEPT ![3 - live] = Absorb(Absorb(@, log), b)]
  BY DEF Publish, AbsorbSecond
<1>3. copy'[live'] = Absorb(copy[live], b)
  BY <1>1, <1>2 DEF CopiesAgree
<1>4. copy'[3 - live'] = copy[live]
  BY <1>1, <1>2
<1> QED
  BY <1>1, <1>3, <1>4 DEF CopiesAgree

\* Metric's operators on the data are LeftRight's.
LEMMA SameAbsorb == \A d, b : Atomic!Absorb(d, b) = Absorb(d, b)
BY DEF Atomic!Absorb, Absorb, Atomic!AddPeer, AddPeer, Atomic!SubPeer, SubPeer,
       Atomic!IncrActiveConnection, IncrActiveConnection,
       Atomic!DecrActiveConnection, DecrActiveConnection, Atomic!AddBytes, AddBytes,
       Atomic!AddFailure, AddFailure, Atomic!ResetCounters, ResetCounters,
       Atomic!ChangeStatus, ChangeStatus

(***************************************************************************)
(* Types                                                                   *)
(***************************************************************************)

\* A remainder is a u32.
LEMMA ModType ==
    ASSUME NEW x \in Int
    PROVE  x % Modulus \in 0..Modulus - 1
BY MetricAssumption

\* A batch makes data of data.
LEMMA AbsorbType ==
    ASSUME NEW d \in MetricData, NEW b \in Batches
    PROVE  Absorb(d, b) \in MetricData
<1>1. IncrActiveConnection(d) \in MetricData /\ DecrActiveConnection(d) \in MetricData
  <2>1. (d.active + 1) % Modulus \in 0..Modulus - 1 /\ (d.active - 1) % Modulus \in 0..Modulus - 1
    BY ModType, MetricAssumption DEF MetricData
  <2> QED
    BY <2>1 DEF MetricData, IncrActiveConnection, DecrActiveConnection
<1>2. \A e \in MetricData, p \in Peers : AddPeer(e, p) \in MetricData /\ SubPeer(e, p) \in MetricData
  BY DEF MetricData, AddPeer, SubPeer
<1>3. \A e \in MetricData, n \in Bytes : AddBytes(e, n) \in MetricData
  BY MetricAssumption DEF MetricData, AddBytes
<1>4. AddFailure(d) \in MetricData
  BY ModType, MetricAssumption DEF MetricData, AddFailure
<1>5. DecrActiveConnection(SubPeer(AddFailure(d), b.peer)) \in MetricData
      \/ b.kind # "failures"
  <2> SUFFICES ASSUME b.kind = "failures"
               PROVE  DecrActiveConnection(SubPeer(AddFailure(d), b.peer)) \in MetricData
    OBVIOUS
  <2> DEFINE e == SubPeer(AddFailure(d), b.peer)
  <2>1. e \in MetricData
    BY <1>2, <1>4 DEF Batches
  <2> HIDE DEF e
  <2>2. (e.active - 1) % Modulus \in 0..Modulus - 1
    BY <2>1, ModType, MetricAssumption DEF MetricData
  <2>3. DecrActiveConnection(e) \in MetricData
    BY <2>1, <2>2 DEF MetricData, DecrActiveConnection
  <2> QED
    BY <2>3 DEF e
<1>6. CASE b.kind = "incr"
  <2>1. b.peer \in Peers
    BY <1>6 DEF Batches
  <2>2. Absorb(d, b) = AddPeer(IncrActiveConnection(d), b.peer)
    BY <1>6 DEF Absorb
  <2> QED
    BY <1>1, <1>2, <2>1, <2>2
<1>7. CASE b.kind = "summary"
  <2>1. b.peer \in Peers /\ b.bytes \in Bytes
    BY <1>7 DEF Batches
  <2>2. Absorb(d, b) = AddBytes(SubPeer(DecrActiveConnection(d), b.peer), b.bytes)
    BY <1>7 DEF Absorb
  <2> QED
    BY <1>1, <1>2, <1>3, <2>1, <2>2
<1>8. CASE b.kind = "failures"
  BY <1>5, <1>8 DEF Absorb
<1>9. CASE b.kind = "reset"
  <2>1. Absorb(d, b) = ResetCounters(d)
    BY <1>9 DEF Absorb
  <2>2. [p \in Peers |-> 0] \in [Peers -> Nat] /\ 0 \in 0..Modulus - 1
    BY MetricAssumption
  <2>3. \A e \in MetricData : [e EXCEPT !.failures = 0] \in MetricData
    BY <2>2 DEF MetricData
  <2>4. \A e \in MetricData : [e EXCEPT !.active = 0] \in MetricData
    BY <2>2 DEF MetricData
  <2>5. \A e \in MetricData : [e EXCEPT !.peers = [p \in Peers |-> 0]] \in MetricData
    BY <2>2 DEF MetricData
  <2> QED
    BY <2>1, <2>3, <2>4, <2>5 DEF ResetCounters
<1>10. CASE b.kind = "status"
  <2>1. Absorb(d, b) = ChangeStatus(d, b.status) /\ b.status \in Statuses
    BY <1>10 DEF Absorb, Batches
  <2> QED
    BY <2>1 DEF ChangeStatus, MetricData
<1> QED
  BY <1>6, <1>7, <1>8, <1>9, <1>10 DEF Batches

\* The batches that the callers publish are batches.
LEMMA BatchTypes ==
    /\ \A t \in Tunnels, k \in {"incr", "failures"} :
         [kind |-> k, peer |-> PeerOf[t]] \in Batches
    /\ \A t \in Tunnels, n \in Bytes, x \in Times :
         [kind |-> "summary", peer |-> PeerOf[t], bytes |-> n, time |-> x] \in Batches
    /\ [kind |-> "reset"] \in Batches
    /\ \A s \in Statuses : [kind |-> "status", status |-> s] \in Batches
BY MetricAssumption DEF Batches

\* What decays is a number, and no larger the smaller it was or the longer it
\* takes.
LEMMA DecayedMonotone ==
    ASSUME NEW v \in Nat, NEW w \in Nat, w <= v,
           NEW i \in 0..MaxTime, NEW j \in 0..MaxTime, i <= j
    PROVE  Decayed(v, i) \in Nat /\ Decayed(w, j) \in Nat /\ Decayed(w, j) <= Decayed(v, i)
<1> DEFINE d == Divisor[i]  e == Divisor[j]
<1>1. d \in Nat \ {0} /\ e \in Nat \ {0} /\ d <= e
  BY ClockAssumption
<1> HIDE DEF d, e
<1> DEFINE q == w \div e  r == v \div d
<1>2. q \in Nat /\ e * q <= w
  BY <1>1
<1>3. r \in Nat /\ v < d * (r + 1)
  BY <1>1
<1> HIDE DEF q, r
<1>4. d * q <= e * q
  BY <1>1, <1>2
<1>5. d * q < d * (r + 1)
  BY <1>1, <1>2, <1>3, <1>4
<1>6. q < r + 1
  <2> SUFFICES ASSUME r + 1 <= q PROVE FALSE
    BY <1>2, <1>3
  <2>1. d * (r + 1) <= d * q
    BY <1>1, <1>2, <1>3
  <2> QED
    BY <1>1, <1>2, <1>3, <1>5, <2>1
<1> QED
  BY <1>2, <1>3, <1>6 DEF q, r, d, e, Decayed

\* Nothing was observed or reported later than now.
Timely ==
    /\ \A i \in 1..2 : ewma[i].last_event <= now
    /\ report.at <= now

\* Observing makes an estimate of an estimate, no smaller than what was observed.
LEMMA ObserveType ==
    ASSUME NEW e \in PeakEWMA, now \in 0..MaxTime, e.last_event <= now, NEW x \in Times
    PROVE  /\ Observe(e, x) \in PeakEWMA
           /\ Observe(e, x).last_event = now
           /\ Observe(e, x).rtt >= x
<1>1. e.rtt \in Nat /\ x \in Nat /\ now - e.last_event \in 0..MaxTime
  BY MetricAssumption, ClockAssumption DEF PeakEWMA
<1>2. x <= e.rtt => e.rtt - x \in Nat /\ Decayed(e.rtt - x, now - e.last_event) \in Nat
  BY <1>1, DecayedMonotone
<1> DEFINE r == Observe(e, x).rtt
<1>3. r = IF x > e.rtt THEN x ELSE x + Decayed(e.rtt - x, now - e.last_event)
  BY DEF Observe
<1>4. r \in Nat /\ r >= x
  BY <1>1, <1>2, <1>3
<1> QED
  BY <1>4 DEF Observe, PeakEWMA

\* So does absorbing a batch.
LEMMA AbsorbTimeType ==
    ASSUME NEW e \in PeakEWMA, now \in 0..MaxTime, e.last_event <= now, NEW b \in Batches
    PROVE  /\ AbsorbTime(e, b) \in PeakEWMA
           /\ AbsorbTime(e, b).last_event <= now
<1>1. CASE b.kind = "summary"
  <2>1. b.time \in Times
    BY <1>1 DEF Batches
  <2>2. Observe(e, b.time) \in PeakEWMA /\ Observe(e, b.time).last_event = now
    BY <2>1, ObserveType
  <2> QED
    BY <1>1, <2>2 DEF AbsorbTime
<1>2. CASE b.kind # "summary"
  BY <1>2 DEF AbsorbTime
<1> QED
  BY <1>1, <1>2

\* A publication keeps the types of what it changes.
LEMMA PublishType ==
    ASSUME TypeOK, Timely, NEW b \in Batches, Publish(b)
    PROVE  /\ copy' \in [1..2 -> MetricData]
           /\ ewma' \in [1..2 -> PeakEWMA]
           /\ live' \in 1..2
           /\ log' \in Batches
           /\ now' \in 0..MaxTime
           /\ \A i \in 1..2 : ewma'[i].last_event <= now'
<1> DEFINE stale == 3 - live
<1>1. stale \in 1..2
  BY DEF TypeOK
<1> HIDE DEF stale
<1>2. copy[stale] \in MetricData /\ ewma[stale] \in PeakEWMA /\ log \in Batches
      /\ now \in 0..MaxTime /\ ewma[stale].last_event <= now
  BY <1>1 DEF TypeOK, Timely
<1> DEFINE c == Absorb(Absorb(copy[stale], log), b)
           w == AbsorbTime(AbsorbTime(ewma[stale], log), b)
<1>3. c \in MetricData
  BY <1>2, AbsorbType
<1>4. AbsorbTime(ewma[stale], log) \in PeakEWMA /\ AbsorbTime(ewma[stale], log).last_event <= now
  BY <1>2, AbsorbTimeType
<1>5. w \in PeakEWMA /\ w.last_event <= now
  BY <1>2, <1>4, AbsorbTimeType
<1>6. /\ copy' = [copy EXCEPT ![stale] = c]
      /\ ewma' = [ewma EXCEPT ![stale] = w]
      /\ live' = stale /\ log' = b /\ now' = now
  BY DEF Publish, AbsorbSecond, stale
<1> HIDE DEF c, w
<1> QED
  BY <1>1, <1>2, <1>3, <1>5, <1>6 DEF TypeOK, Timely

TypeInv == TypeOK /\ Timely

LEMMA TypeInit == Init => TypeInv
<1> SUFFICES ASSUME Init PROVE TypeInv
  OBVIOUS
<1>1. \A s \in Statuses : EmptyData(s) \in MetricData
  BY MetricAssumption DEF EmptyData, MetricData
<1>2. copy \in [1..2 -> MetricData] /\ log \in Batches
  BY <1>1, BatchTypes DEF Init
<1>3. ewma \in [1..2 -> PeakEWMA] /\ now \in 0..MaxTime
  BY ClockAssumption DEF Init, PeakEWMA
<1>4. CallersOK
  BY MetricAssumption DEF Init, CallersInit, CallersOK
<1>5. report \in [time : Times \cup {0}, at : 0..MaxTime]
  BY ClockAssumption DEF Init
<1>6. Timely
  BY DEF Init, Timely
<1> QED
  BY <1>2, <1>3, <1>4, <1>5, <1>6 DEF TypeInv, TypeOK, Init

LEMMA TypeStep == TypeInv /\ [Next]_vars => TypeInv'
<1> SUFFICES ASSUME TypeInv, [Next]_vars PROVE TypeInv'
  OBVIOUS
<1> USE DEF TypeInv
<1>1. ASSUME NEW t \in Tunnels, Transfer(t) PROVE TypeInv'
  BY <1>1 DEF Transfer, Begin, TypeOK, CallersOK, Timely
<1>2. ASSUME NEW t \in Tunnels, IncrConnection(t) PROVE TypeInv'
  <2>1. Publish([kind |-> "incr", peer |-> PeerOf[t]])
    BY <1>2 DEF IncrConnection
  <2>2. CallersOK' /\ report' = report
    BY <1>2 DEF IncrConnection, CountIn, TypeOK, CallersOK
  <2> QED
    BY <2>1, <2>2, BatchTypes, PublishType DEF TypeOK, Timely, Publish
<1>3. ASSUME NEW t \in Tunnels, Summary(t) PROVE TypeInv'
  <2>1. PICK n \in Bytes, x \in Times :
          /\ Publish([kind |-> "summary", peer |-> PeerOf[t], bytes |-> n, time |-> x])
          /\ report' = [time |-> x, at |-> now]
    BY <1>3 DEF Summary
  <2>2. CallersOK'
    BY <1>3 DEF Summary, End, TypeOK, CallersOK
  <2>3. now' = now
    BY <2>1 DEF Publish
  <2>4. report' \in [time : Times \cup {0}, at : 0..MaxTime] /\ report'.at <= now'
    BY <2>1, <2>3, ClockAssumption DEF TypeOK
  <2> QED
    BY <2>1, <2>2, <2>4, BatchTypes, PublishType DEF TypeOK, Timely
<1>4. ASSUME NEW t \in Tunnels, AddFailures(t) PROVE TypeInv'
  <2>1. Publish([kind |-> "failures", peer |-> PeerOf[t]])
    BY <1>4 DEF AddFailures
  <2>2. CallersOK' /\ report' = report
    BY <1>4 DEF AddFailures, End, TypeOK, CallersOK
  <2> QED
    BY <2>1, <2>2, BatchTypes, PublishType DEF TypeOK, Timely, Publish
<1>5. ASSUME Reset PROVE TypeInv'
  <2>1. Publish([kind |-> "reset"])
    BY <1>5 DEF Reset
  <2>2. IsFiniteSet(Counted) /\ IsFiniteSet(Ended)
    BY MetricAssumption, FS_Subset DEF Counted, Ended
  <2>3. Balance \in Int
    BY <2>2, FS_CardinalityType DEF Balance
  <2>4. CallersOK' /\ report' = report
    BY <1>5, <2>3, MetricAssumption DEF Reset, Wipe, TypeOK, CallersOK
  <2> QED
    BY <2>1, <2>4, BatchTypes, PublishType DEF TypeOK, Timely, Publish
<1>6. ASSUME NEW s \in Statuses, SetStatus(s) PROVE TypeInv'
  <2>1. Publish([kind |-> "status", status |-> s])
    BY <1>6 DEF SetStatus
  <2>2. CallersOK' /\ report' = report
    BY <1>6 DEF SetStatus, callerVars, TypeOK, CallersOK
  <2> QED
    BY <2>1, <2>2, BatchTypes, PublishType DEF TypeOK, Timely, Publish
<1>7. ASSUME Tick PROVE TypeInv'
  <2>1. now \in 0..MaxTime /\ now' = now + 1 /\ now' \in 0..MaxTime
    BY <1>7, ClockAssumption DEF Tick, TypeOK
  <2>2. UNCHANGED <<copy, ewma, live, log, report>> /\ CallersOK'
    BY <1>7 DEF Tick, callerVars, TypeOK, CallersOK
  <2>3. (\A i \in 1..2 : ewma[i].last_event \in Nat) /\ report.at \in Nat
    BY DEF TypeOK, PeakEWMA
  <2>4. Timely'
    BY <2>1, <2>2, <2>3 DEF Timely
  <2> QED
    BY <2>1, <2>2, <2>4 DEF TypeOK
<1>8. ASSUME UNCHANGED vars PROVE TypeInv'
  BY <1>8 DEF vars, callerVars, TypeOK, CallersOK, Timely
<1> QED
  BY <1>1, <1>2, <1>3, <1>4, <1>5, <1>6, <1>7, <1>8 DEF Next

\* The types of the two copies, the log and the counters are kept for any
\* tunnels, users, widths and decay, and no estimate or report is of the future.
THEOREM TypeCorrect == Spec => []TypeOK
<1>1. TypeInv => TypeOK
  BY DEF TypeInv
<1> QED
  BY <1>1, TypeInit, TypeStep, PTL DEF Spec

(***************************************************************************)
(* The refinement of Metric                                                *)
(***************************************************************************)

AtomicInv == TypeInv /\ CopiesAgree

LEMMA AtomicInit == Init => CopiesAgree /\ Atomic!Init
<1> SUFFICES ASSUME Init PROVE CopiesAgree /\ Atomic!Init
  OBVIOUS
<1>1. PICK s \in Statuses : copy = [i \in 1..2 |-> EmptyData(s)]
                            /\ log = [kind |-> "status", status |-> s]
  BY DEF Init
<1>2. copy[live] = EmptyData(s) /\ copy[3 - live] = EmptyData(s)
  BY <1>1 DEF Init
<1>3. Absorb(EmptyData(s), log) = EmptyData(s)
  BY <1>1 DEF Absorb, ChangeStatus, EmptyData
<1>4. Atomic!EmptyData(s) = EmptyData(s)
  BY DEF Atomic!EmptyData, EmptyData
<1> QED
  BY <1>2, <1>3, <1>4 DEF CopiesAgree, Atomic!Init, Init, Atomic!CallersInit, CallersInit

\* Every step of the two copies is a step of the one copy, or changes nothing
\* that Metric knows of.
LEMMA AtomicStep == AtomicInv /\ [Next]_vars => CopiesAgree' /\ [Atomic!Next]_(Atomic!vars)
<1> SUFFICES ASSUME AtomicInv, [Next]_vars
             PROVE  CopiesAgree' /\ [Atomic!Next]_(Atomic!vars)
  OBVIOUS
<1>0. copy \in [1..2 -> MetricData] /\ live \in 1..2 /\ CopiesAgree
  BY DEF AtomicInv, TypeInv, TypeOK
<1>1. ASSUME NEW b, Publish(b) PROVE CopiesAgree' /\ Atomic!Publish(b)
  BY <1>0, <1>1, PublishAtomic, SameAbsorb DEF Atomic!Publish
<1>2. ASSUME UNCHANGED <<copy, live, log>>
      PROVE  CopiesAgree' /\ UNCHANGED copy[live]
  BY <1>0, <1>2 DEF CopiesAgree
<1>3. ASSUME NEW t \in Tunnels, Transfer(t) PROVE CopiesAgree' /\ Atomic!Transfer(t)
  BY <1>2, <1>3 DEF Transfer, Atomic!Transfer, Begin, Atomic!Begin
<1>4. ASSUME NEW t \in Tunnels, IncrConnection(t) PROVE CopiesAgree' /\ Atomic!IncrConnection(t)
  BY <1>1, <1>4 DEF IncrConnection, Atomic!IncrConnection, CountIn, Atomic!CountIn
<1>5. ASSUME NEW t \in Tunnels, Summary(t) PROVE CopiesAgree' /\ Atomic!Summary(t)
  BY <1>1, <1>5 DEF Summary, Atomic!Summary, End, Atomic!End
<1>6. ASSUME NEW t \in Tunnels, AddFailures(t) PROVE CopiesAgree' /\ Atomic!AddFailures(t)
  BY <1>1, <1>6 DEF AddFailures, Atomic!AddFailures, End, Atomic!End
<1>7. ASSUME Reset PROVE CopiesAgree' /\ Atomic!Reset
  <2>1. Atomic!Balance = Balance
    BY DEF Balance, Atomic!Balance, Counted, Atomic!Counted, Ended, Atomic!Ended,
           Cardinality, Atomic!Cardinality
  <2>2. Atomic!Wipe
    BY <1>7, <2>1 DEF Reset, Wipe, Atomic!Wipe
  <2> QED
    BY <1>1, <1>7, <2>2 DEF Reset, Atomic!Reset
<1>8. ASSUME NEW s \in Statuses, SetStatus(s) PROVE CopiesAgree' /\ Atomic!SetStatus(s)
  BY <1>1, <1>8 DEF SetStatus, Atomic!SetStatus, callerVars, Atomic!callerVars
<1>9. ASSUME Tick \/ UNCHANGED vars PROVE CopiesAgree' /\ UNCHANGED Atomic!vars
  BY <1>2, <1>9 DEF Tick, vars, callerVars, Atomic!vars, Atomic!callerVars
<1> QED
  BY <1>3, <1>4, <1>5, <1>6, <1>7, <1>8, <1>9 DEF Next, Atomic!Next

LEMMA AtomicInvariance == Spec => []AtomicInv
<1>1. Init => AtomicInv
  BY TypeInit, AtomicInit DEF AtomicInv
<1>2. AtomicInv /\ [Next]_vars => AtomicInv'
  BY TypeStep, AtomicStep DEF AtomicInv
<1> QED
  BY <1>1, <1>2, PTL DEF Spec

\* The two copies of left_right, one of which is always behind, implement one
\* copy that every publication changes at once (MetricWriter and left_right).
THEOREM AtomicImplemented == Spec => AtomicMetric
BY AtomicInit, AtomicStep, AtomicInvariance, PTL DEF Spec, AtomicMetric, Atomic!Spec

(***************************************************************************)
(* The counters                                                            *)
(***************************************************************************)

\* A number has one remainder.
LEMMA ModUnique ==
    ASSUME NEW M \in Nat \ {0}, NEW x \in Int, NEW q \in Int, NEW r \in 0..M - 1,
           x = M * q + r
    PROVE  x % M = r
<1>1. x = M * (x \div M) + (x % M) /\ x \div M \in Int /\ x % M \in 0..M - 1
  OBVIOUS
<1> DEFINE k == (x \div M) - q
<1>2. M * k = r - (x % M) /\ k \in Int
  BY <1>1
<1> HIDE DEF k
<1>3. k < 1 /\ k > -1
  BY <1>1, <1>2
<1> QED
  BY <1>1, <1>2, <1>3

\* u32 arithmetic: it does not matter when one wraps around.
LEMMA ModAdd ==
    ASSUME NEW M \in Nat \ {0}, NEW x \in Int, NEW y \in Int
    PROVE  ((x % M) + y) % M = (x + y) % M
<1>1. x = M * (x \div M) + (x % M) /\ x \div M \in Int /\ x % M \in 0..M - 1
  OBVIOUS
<1> DEFINE z == (x % M) + y
<1>2. z = M * (z \div M) + (z % M) /\ z \div M \in Int /\ z % M \in 0..M - 1 /\ z \in Int
  BY <1>1
<1>3. x + y = M * ((x \div M) + (z \div M)) + (z % M)
  BY <1>1, <1>2
<1> HIDE DEF z
<1>4. (x \div M) + (z \div M) \in Int /\ x + y \in Int
  BY <1>1, <1>2
<1>5. (x + y) % M = z % M
  BY <1>2, <1>3, <1>4, ModUnique
<1> QED
  BY <1>5 DEF z

CountsOneMore(d, t, e) ==
    /\ e.active = (d.active + 1) % Modulus
    /\ e.peers = [d.peers EXCEPT ![PeerOf[t]] = @ + 1]

CountsOneLess(d, t, e) ==
    /\ e.active = (d.active - 1) % Modulus
    /\ e.peers = [d.peers EXCEPT ![PeerOf[t]] = IF @ = 0 THEN 0 ELSE @ - 1]

\* What each batch makes of the two counters that CountsLaw is about.
LEMMA AbsorbCounts ==
    ASSUME NEW d \in MetricData, NEW t \in Tunnels
    PROVE  /\ CountsOneMore(d, t, Absorb(d, [kind |-> "incr", peer |-> PeerOf[t]]))
           /\ CountsOneLess(d, t, Absorb(d, [kind |-> "failures", peer |-> PeerOf[t]]))
           /\ \A n \in Bytes, x \in Times :
                CountsOneLess(d, t, Absorb(d, [kind |-> "summary", peer |-> PeerOf[t],
                                               bytes |-> n, time |-> x]))
<1> DEFINE p == PeerOf[t]
<1>1. p \in Peers
  BY MetricAssumption
<1> HIDE DEF p
<1>2. Absorb(d, [kind |-> "incr", peer |-> p]) = AddPeer(IncrActiveConnection(d), p)
  BY DEF Absorb
<1>3. Absorb(d, [kind |-> "failures", peer |-> p]) =
        DecrActiveConnection(SubPeer(AddFailure(d), p))
  BY DEF Absorb
<1>4. \A n \in Bytes, x \in Times :
        Absorb(d, [kind |-> "summary", peer |-> p, bytes |-> n, time |-> x]) =
          AddBytes(SubPeer(DecrActiveConnection(d), p), n)
  BY DEF Absorb
<1>5. DecrActiveConnection(d) \in MetricData /\ IncrActiveConnection(d) \in MetricData
      /\ AddFailure(d) \in MetricData
  <2>1. /\ (d.active + 1) % Modulus \in 0..Modulus - 1
        /\ (d.active - 1) % Modulus \in 0..Modulus - 1
        /\ (d.failures + 1) % Modulus \in 0..Modulus - 1
    BY ModType, MetricAssumption DEF MetricData
  <2> QED
    BY <2>1 DEF MetricData, IncrActiveConnection, DecrActiveConnection, AddFailure
<1>6. \A e \in MetricData :
        /\ SubPeer(e, p) \in MetricData
        /\ SubPeer(e, p).active = e.active
        /\ SubPeer(e, p).peers = [e.peers EXCEPT ![p] = IF @ = 0 THEN 0 ELSE @ - 1]
        /\ AddPeer(e, p).active = e.active
        /\ AddPeer(e, p).peers = [e.peers EXCEPT ![p] = @ + 1]
  BY <1>1 DEF MetricData, SubPeer, AddPeer
<1>7. \A e \in MetricData :
        /\ DecrActiveConnection(e).active = (e.active - 1) % Modulus
        /\ DecrActiveConnection(e).peers = e.peers
        /\ IncrActiveConnection(e).active = (e.active + 1) % Modulus
        /\ IncrActiveConnection(e).peers = e.peers
        /\ AddFailure(e).active = e.active
        /\ AddFailure(e).peers = e.peers
  BY DEF MetricData, DecrActiveConnection, IncrActiveConnection, AddFailure
<1>8. \A e \in MetricData, n \in Bytes :
        AddBytes(e, n).active = e.active /\ AddBytes(e, n).peers = e.peers
  BY DEF MetricData, AddBytes
<1> DEFINE less == [d.peers EXCEPT ![p] = IF @ = 0 THEN 0 ELSE @ - 1]
           in == Absorb(d, [kind |-> "incr", peer |-> p])
           failed == Absorb(d, [kind |-> "failures", peer |-> p])
           out(n, x) == Absorb(d, [kind |-> "summary", peer |-> p, bytes |-> n, time |-> x])
<1>9. in.active = (d.active + 1) % Modulus /\ in.peers = [d.peers EXCEPT ![p] = @ + 1]
  <2> DEFINE e == IncrActiveConnection(d)
  <2>1. e \in MetricData /\ e.active = (d.active + 1) % Modulus /\ e.peers = d.peers
    BY <1>5, <1>7
  <2> HIDE DEF e
  <2>2. AddPeer(e, p).active = e.active /\ AddPeer(e, p).peers = [e.peers EXCEPT ![p] = @ + 1]
    BY <1>6, <2>1
  <2>3. in = AddPeer(e, p)
    BY <1>2 DEF e
  <2> HIDE DEF in
  <2> QED
    BY <2>1, <2>2, <2>3
<1>10. failed.active = (d.active - 1) % Modulus /\ failed.peers = less
  <2> DEFINE e == AddFailure(d)  f == SubPeer(e, p)
  <2>1. e \in MetricData /\ e.active = d.active /\ e.peers = d.peers
    BY <1>5, <1>7
  <2> HIDE DEF e
  <2>2. f \in MetricData /\ f.active = d.active /\ f.peers = less
    BY <1>6, <2>1
  <2>3. failed = DecrActiveConnection(f)
    BY <1>3 DEF e
  <2> HIDE DEF f, failed, less
  <2> QED
    BY <1>7, <2>2, <2>3
<1>11. \A n \in Bytes, x \in Times :
         out(n, x).active = (d.active - 1) % Modulus /\ out(n, x).peers = less
  <2> DEFINE e == DecrActiveConnection(d)  f == SubPeer(e, p)
  <2>1. e \in MetricData /\ e.active = (d.active - 1) % Modulus /\ e.peers = d.peers
    BY <1>5, <1>7
  <2> HIDE DEF e
  <2>2. f \in MetricData /\ f.active = (d.active - 1) % Modulus /\ f.peers = less
    BY <1>6, <2>1
  <2>3. \A n \in Bytes, x \in Times : out(n, x) = AddBytes(f, n)
    BY <1>4 DEF e
  <2> HIDE DEF f, out, less
  <2> QED
    BY <1>8, <2>2, <2>3
<1> HIDE DEF in, failed, out, less
<1> QED
  BY <1>9, <1>10, <1>11 DEF in, failed, out, less, p, CountsOneMore, CountsOneLess

CountedFrom(p) == {t \in Counted : PeerOf[t] = p}
EndedFrom(p) == {t \in Ended : PeerOf[t] = p}

\* The parts of the invariant behind CountsLaw.  A tunnel's increment is spawned
\* when it begins; the count of active connections is what it should be; and
\* until a reset a user is listed at least as often as his tunnels were counted
\* in more than out.  It may be more: the count of a user stops at zero.
Spawned == \A t \in Tunnels : incr[t] = "none" <=> phase[t] = "new"

ActiveExact == copy[live].active = (Balance - wiped) % Modulus

PeersLower ==
    resets = 0 =>
        /\ wiped = 0
        /\ \A p \in Peers :
             copy[live].peers[p] >= Cardinality(CountedFrom(p)) - Cardinality(EndedFrom(p))

CountInv == AtomicInv /\ Spawned /\ ActiveExact /\ PeersLower

\* The sets that are counted are finite.
LEMMA FiniteCounts ==
    /\ IsFiniteSet(Counted) /\ Cardinality(Counted) \in Nat
    /\ IsFiniteSet(Ended) /\ Cardinality(Ended) \in Nat
    /\ IsFiniteSet(Running) /\ Cardinality(Running) \in Nat
    /\ Balance \in Int
    /\ \A p : /\ IsFiniteSet(CountedFrom(p)) /\ Cardinality(CountedFrom(p)) \in Nat
              /\ IsFiniteSet(EndedFrom(p)) /\ Cardinality(EndedFrom(p)) \in Nat
              /\ IsFiniteSet(RunningFrom(p)) /\ Cardinality(RunningFrom(p)) \in Nat
<1>1. \A S \in SUBSET Tunnels : IsFiniteSet(S) /\ Cardinality(S) \in Nat
  BY MetricAssumption, FS_Subset, FS_CardinalityType
<1>2. Counted \in SUBSET Tunnels /\ Ended \in SUBSET Tunnels /\ Running \in SUBSET Tunnels
  BY DEF Counted, Ended, Running
<1>3. \A p : CountedFrom(p) \in SUBSET Tunnels /\ EndedFrom(p) \in SUBSET Tunnels
             /\ RunningFrom(p) \in SUBSET Tunnels
  BY <1>2 DEF CountedFrom, EndedFrom, RunningFrom
<1> QED
  BY <1>1, <1>2, <1>3 DEF Balance

\* Counting a tunnel in adds one to what is counted.
LEMMA CountInCounts ==
    ASSUME TypeOK, NEW t \in Tunnels, CountIn(t)
    PROVE  /\ Balance' = Balance + 1 /\ wiped' = wiped /\ resets' = resets
           /\ \A p : /\ Cardinality(EndedFrom(p))' = Cardinality(EndedFrom(p))
                     /\ Cardinality(CountedFrom(p))' =
                          Cardinality(CountedFrom(p)) + (IF p = PeerOf[t] THEN 1 ELSE 0)
<1>1. Counted' = Counted \cup {t} /\ t \notin Counted /\ Ended' = Ended
  BY DEF TypeOK, CallersOK, CountIn, Counted, Ended
<1>2. Cardinality(Counted') = Cardinality(Counted) + 1
  BY <1>1, FiniteCounts, FS_AddElement
<1>3. ASSUME NEW p
      PROVE  Cardinality(CountedFrom(p)') =
               Cardinality(CountedFrom(p)) + (IF p = PeerOf[t] THEN 1 ELSE 0)
  <2>1. CASE p = PeerOf[t]
    <3>1. CountedFrom(p)' = CountedFrom(p) \cup {t} /\ t \notin CountedFrom(p)
      BY <1>1, <2>1 DEF CountedFrom
    <3> QED
      BY <2>1, <3>1, FiniteCounts, FS_AddElement
  <2>2. CASE p # PeerOf[t]
    <3>1. CountedFrom(p)' = CountedFrom(p)
      BY <1>1, <2>2 DEF CountedFrom
    <3> QED
      BY <2>2, <3>1, FiniteCounts
  <2> QED
    BY <2>1, <2>2
<1>4. \A p : EndedFrom(p)' = EndedFrom(p)
  BY <1>1 DEF EndedFrom
<1>5. Balance' = Balance + 1
  BY <1>1, <1>2, FiniteCounts DEF Balance
<1> QED
  BY <1>3, <1>4, <1>5 DEF CountIn

\* Ending one adds one to what has ended.
LEMMA EndCounts ==
    ASSUME TypeOK, NEW t \in Tunnels, NEW how \in {"ok", "failed"}, End(t, how)
    PROVE  /\ Balance' = Balance - 1 /\ wiped' = wiped /\ resets' = resets
           /\ \A p : /\ Cardinality(CountedFrom(p))' = Cardinality(CountedFrom(p))
                     /\ Cardinality(EndedFrom(p))' =
                          Cardinality(EndedFrom(p)) + (IF p = PeerOf[t] THEN 1 ELSE 0)
<1>1. Ended' = Ended \cup {t} /\ t \notin Ended /\ Counted' = Counted
  BY DEF TypeOK, CallersOK, End, Counted, Ended
<1>2. Cardinality(Ended') = Cardinality(Ended) + 1
  BY <1>1, FiniteCounts, FS_AddElement
<1>3. ASSUME NEW p
      PROVE  Cardinality(EndedFrom(p)') =
               Cardinality(EndedFrom(p)) + (IF p = PeerOf[t] THEN 1 ELSE 0)
  <2>1. CASE p = PeerOf[t]
    <3>1. EndedFrom(p)' = EndedFrom(p) \cup {t} /\ t \notin EndedFrom(p)
      BY <1>1, <2>1 DEF EndedFrom
    <3> QED
      BY <2>1, <3>1, FiniteCounts, FS_AddElement
  <2>2. CASE p # PeerOf[t]
    <3>1. EndedFrom(p)' = EndedFrom(p)
      BY <1>1, <2>2 DEF EndedFrom
    <3> QED
      BY <2>2, <3>1, FiniteCounts
  <2> QED
    BY <2>1, <2>2
<1>4. \A p : CountedFrom(p)' = CountedFrom(p)
  BY <1>1 DEF CountedFrom
<1>5. Balance' = Balance - 1
  BY <1>1, <1>2, FiniteCounts DEF Balance
<1> QED
  BY <1>3, <1>4, <1>5 DEF End

\* What was counted does not depend on anything else.
LEMMA SameCounts ==
    ASSUME UNCHANGED <<phase, incr>>
    PROVE  /\ Balance' = Balance
           /\ \A p : /\ Cardinality(CountedFrom(p))' = Cardinality(CountedFrom(p))
                     /\ Cardinality(EndedFrom(p))' = Cardinality(EndedFrom(p))
<1>1. Counted' = Counted /\ Ended' = Ended
  BY DEF Counted, Ended
<1> QED
  BY <1>1 DEF Balance, CountedFrom, EndedFrom

LEMMA CountInit == Init => CountInv
<1> SUFFICES ASSUME Init PROVE CountInv
  OBVIOUS
<1>1. AtomicInv
  BY TypeInit, AtomicInit DEF AtomicInv
<1>2. Counted = {} /\ Ended = {}
  BY DEF Init, CallersInit, Counted, Ended
<1>3. Balance = 0 /\ \A p : Cardinality(CountedFrom(p)) = 0 /\ Cardinality(EndedFrom(p)) = 0
  <2>1. \A p : CountedFrom(p) = {} /\ EndedFrom(p) = {}
    BY <1>2 DEF CountedFrom, EndedFrom
  <2> QED
    BY <1>2, <2>1, FS_EmptySet DEF Balance
<1>4. copy[live].active = 0 /\ \A p \in Peers : copy[live].peers[p] = 0
  BY DEF Init, EmptyData
<1>5. 0 % Modulus = 0
  BY MetricAssumption, ModUnique
<1>6. Spawned /\ wiped = 0
  BY DEF Init, CallersInit, Spawned
<1> QED
  BY <1>1, <1>3, <1>4, <1>5, <1>6 DEF CountInv, ActiveExact, PeersLower

LEMMA CountStep == CountInv /\ [Next]_vars => CountInv'
<1> SUFFICES ASSUME CountInv, [Next]_vars PROVE CountInv'
  OBVIOUS
<1>0. AtomicInv' /\ TypeOK /\ CopiesAgree
  BY TypeStep, AtomicStep DEF CountInv, AtomicInv, TypeInv
<1> DEFINE d == copy[live]
<1>00. d \in MetricData /\ live \in 1..2 /\ copy \in [1..2 -> MetricData] /\ wiped \in Int
  BY <1>0 DEF TypeOK, CallersOK
<1>01. \A t \in Tunnels :
         /\ CountsOneMore(d, t, Absorb(d, [kind |-> "incr", peer |-> PeerOf[t]]))
         /\ CountsOneLess(d, t, Absorb(d, [kind |-> "failures", peer |-> PeerOf[t]]))
         /\ \A n \in Bytes, x \in Times :
              CountsOneLess(d, t, Absorb(d, [kind |-> "summary", peer |-> PeerOf[t],
                                             bytes |-> n, time |-> x]))
  <2> HIDE DEF d
  <2> QED
    BY <1>00, AbsorbCounts
<1>02. \A x \in Int, y \in Int : ((x % Modulus) + y) % Modulus = (x + y) % Modulus
  BY MetricAssumption, ModAdd
<1>03. Balance - wiped \in Int /\ Balance \in Int
  BY <1>00, FiniteCounts
<1>1. ASSUME NEW b, Publish(b) PROVE copy'[live'] = Absorb(d, b)
  BY <1>0, <1>1, PublishAtomic DEF TypeOK
<1>2. ASSUME UNCHANGED <<copy, live, phase, incr, resets, wiped>> PROVE CountInv'
  BY <1>0, <1>2, SameCounts DEF CountInv, Spawned, ActiveExact, PeersLower
<1>3. ASSUME NEW t \in Tunnels, Transfer(t) PROVE CountInv'
  <2>1. Counted' = Counted /\ Ended' = Ended
    BY <1>0, <1>3 DEF Transfer, Begin, TypeOK, CallersOK, Counted, Ended, CountInv, Spawned
  <2>2. Balance' = Balance /\ \A p : CountedFrom(p)' = CountedFrom(p) /\ EndedFrom(p)' = EndedFrom(p)
    BY <2>1 DEF Balance, CountedFrom, EndedFrom
  <2>3. Spawned'
    BY <1>0, <1>3 DEF Transfer, Begin, TypeOK, CallersOK, CountInv, Spawned
  <2> QED
    BY <1>0, <1>3, <2>2, <2>3 DEF Transfer, Begin, CountInv, ActiveExact, PeersLower
<1>4. ASSUME NEW t \in Tunnels, IncrConnection(t) PROVE CountInv'
  <2>1. /\ copy'[live'].active = (d.active + 1) % Modulus
        /\ copy'[live'].peers = [d.peers EXCEPT ![PeerOf[t]] = @ + 1]
    <3>1. copy'[live'] = Absorb(d, [kind |-> "incr", peer |-> PeerOf[t]])
      BY <1>1, <1>4 DEF IncrConnection
    <3> QED
      BY <1>01, <3>1 DEF CountsOneMore
  <2>2. CountIn(t)
    BY <1>4 DEF IncrConnection
  <2>3. ActiveExact'
    <3>1. (((Balance - wiped) % Modulus) + 1) % Modulus = (Balance - wiped + 1) % Modulus
      BY <1>02, <1>03
    <3>2. Balance' - wiped' = Balance - wiped + 1
      BY <1>00, <1>0, <2>2, CountInCounts, FiniteCounts
    <3> QED
      BY <2>1, <3>1, <3>2 DEF CountInv, ActiveExact
  <2>4. PeersLower'
    <3>1. d.peers \in [Peers -> Nat] /\ PeerOf[t] \in Peers
      BY <1>00, MetricAssumption DEF MetricData
    <3>2. \A p \in Peers : copy'[live'].peers[p] =
            d.peers[p] + (IF p = PeerOf[t] THEN 1 ELSE 0)
      BY <2>1, <3>1
    <3> QED
      BY <1>0, <2>2, <3>1, <3>2, CountInCounts, FiniteCounts DEF CountInv, PeersLower
  <2>5. Spawned'
    BY <1>0, <2>2 DEF CountIn, TypeOK, CallersOK, CountInv, Spawned
  <2> QED
    BY <1>0, <2>3, <2>4, <2>5 DEF CountInv
<1>5. ASSUME NEW t \in Tunnels, NEW how \in {"ok", "failed"}, End(t, how),
             CountsOneLess(d, t, copy'[live'])
      PROVE  CountInv'
  <2>1. ActiveExact'
    <3>1. (((Balance - wiped) % Modulus) + (-1)) % Modulus = (Balance - wiped + (-1)) % Modulus
      BY <1>02, <1>03
    <3>2. Balance' - wiped' = Balance - wiped + (-1)
      BY <1>00, <1>0, <1>5, EndCounts, FiniteCounts
    <3>3. d.active - 1 = d.active + (-1)
      BY <1>00, MetricAssumption DEF MetricData
    <3> QED
      BY <1>5, <3>1, <3>2, <3>3 DEF CountInv, ActiveExact, CountsOneLess
  <2>2. PeersLower'
    <3>1. d.peers \in [Peers -> Nat] /\ PeerOf[t] \in Peers
      BY <1>00, MetricAssumption DEF MetricData
    <3>2. \A p \in Peers : copy'[live'].peers[p] >=
            d.peers[p] - (IF p = PeerOf[t] THEN 1 ELSE 0)
      BY <1>5, <3>1 DEF CountsOneLess
    <3>3. \A p \in Peers : copy'[live'].peers[p] \in Nat
      BY <1>5, <3>1 DEF CountsOneLess
    <3> QED
      BY <1>0, <1>5, <3>1, <3>2, <3>3, EndCounts, FiniteCounts DEF CountInv, PeersLower
  <2>3. Spawned'
    BY <1>0, <1>5 DEF End, TypeOK, CallersOK, CountInv, Spawned
  <2> QED
    BY <1>0, <2>1, <2>2, <2>3 DEF CountInv
<1>6. ASSUME NEW t \in Tunnels, Summary(t) PROVE CountInv'
  <2>1. PICK n \in Bytes, x \in Times :
          Publish([kind |-> "summary", peer |-> PeerOf[t], bytes |-> n, time |-> x])
    BY <1>6 DEF Summary
  <2>2. copy'[live'] =
          Absorb(d, [kind |-> "summary", peer |-> PeerOf[t], bytes |-> n, time |-> x])
    BY <1>1, <2>1
  <2>3. CountsOneLess(d, t, copy'[live']) /\ End(t, "ok")
    BY <1>01, <1>6, <2>2 DEF Summary
  <2> HIDE DEF d
  <2> QED
    BY <1>5, <2>3
<1>7. ASSUME NEW t \in Tunnels, AddFailures(t) PROVE CountInv'
  <2>1. copy'[live'] = Absorb(d, [kind |-> "failures", peer |-> PeerOf[t]])
    BY <1>1, <1>7 DEF AddFailures
  <2>2. CountsOneLess(d, t, copy'[live']) /\ End(t, "failed")
    BY <1>01, <1>7, <2>1 DEF AddFailures
  <2> HIDE DEF d
  <2> QED
    BY <1>5, <2>2
<1>8. ASSUME Reset PROVE CountInv'
  <2>1. Absorb(d, [kind |-> "reset"]).active = 0
    BY <1>00 DEF Absorb, ResetCounters, MetricData
  <2>2. Balance' = Balance /\ wiped' = Balance
    BY <1>8, SameCounts DEF Reset, Wipe
  <2>3. (Balance - Balance) % Modulus = 0
    BY FiniteCounts, MetricAssumption, ModUnique
  <2>4. ActiveExact'
    BY <1>1, <1>8, <2>1, <2>2, <2>3 DEF Reset, ActiveExact
  <2>5. PeersLower' /\ Spawned'
    BY <1>0, <1>8, MetricAssumption
    DEF Reset, Wipe, PeersLower, Spawned, CountInv, TypeOK, CallersOK
  <2> QED
    BY <1>0, <2>4, <2>5 DEF CountInv
<1>9. ASSUME NEW s \in Statuses, SetStatus(s) PROVE CountInv'
  <2>1. copy'[live'] = ChangeStatus(d, s)
    BY <1>1, <1>9 DEF SetStatus, Absorb
  <2>2. copy'[live'].active = d.active /\ copy'[live'].peers = d.peers
    BY <1>00, <2>1 DEF ChangeStatus, MetricData
  <2>3. UNCHANGED <<phase, incr, resets, wiped>>
    BY <1>9 DEF SetStatus, callerVars
  <2> QED
    BY <1>0, <2>2, <2>3, SameCounts DEF CountInv, Spawned, ActiveExact, PeersLower
<1>10. ASSUME Tick \/ UNCHANGED vars PROVE CountInv'
  BY <1>2, <1>10 DEF Tick, vars, callerVars
<1> QED
  BY <1>3, <1>4, <1>6, <1>7, <1>8, <1>9, <1>10 DEF Next

LEMMA CountInvariance == Spec => []CountInv
BY CountInit, CountStep, PTL DEF Spec

LEMMA DisjointUnion ==
    ASSUME NEW S, NEW T, IsFiniteSet(S), IsFiniteSet(T), S \cap T = {}
    PROVE  Cardinality(S \cup T) = Cardinality(S) + Cardinality(T)
<1>1. /\ Cardinality(S \cup T) = Cardinality(S) + Cardinality(T) - Cardinality(S \cap T)
      /\ Cardinality(S) \in Nat /\ Cardinality(T) \in Nat
  BY FS_Union, FS_CardinalityType
<1>2. Cardinality(S \cap T) = 0
  BY FS_EmptySet
<1> QED
  BY <1>1, <1>2

\* When every increment has run, a tunnel was counted in and not out if and only
\* if it runs.
LEMMA RunningCounted ==
    ASSUME CountInv, Pending = {}
    PROVE  /\ Balance = Cardinality(Running)
           /\ \A p : Cardinality(CountedFrom(p)) - Cardinality(EndedFrom(p))
                       = Cardinality(RunningFrom(p))
<1>1. Counted = Running \cup Ended /\ Running \cap Ended = {}
  BY DEF CountInv, AtomicInv, TypeInv, TypeOK, CallersOK, Spawned, Pending, Counted, Running, Ended
<1>2. Cardinality(Counted) = Cardinality(Running) + Cardinality(Ended)
  BY <1>1, FiniteCounts, DisjointUnion
<1>3. ASSUME NEW p
      PROVE  Cardinality(CountedFrom(p)) = Cardinality(RunningFrom(p)) + Cardinality(EndedFrom(p))
  <2>1. CountedFrom(p) = RunningFrom(p) \cup EndedFrom(p) /\ RunningFrom(p) \cap EndedFrom(p) = {}
    BY <1>1 DEF CountedFrom, RunningFrom, EndedFrom
  <2> QED
    BY <2>1, FiniteCounts, DisjointUnion
<1> QED
  BY <1>2, <1>3, FiniteCounts DEF Balance

\* active_connections is what was counted in less what was counted out since the
\* last reset, modulo 2^32, and nobody who has a tunnel is missing from
\* active_peers, however ends overtake their spawned increments.
THEOREM CountsLawHolds == Spec => []CountsLaw
<1>1. CountInv => CountsLaw
  BY RunningCounted DEF CountInv, ActiveExact, PeersLower, CountsLaw, ActiveLawOf, PeersListedIn
<1> QED
  BY <1>1, CountInvariance, PTL

(***************************************************************************)
(* The cost                                                                *)
(***************************************************************************)

\* An estimate that knows of the last report: it was raised to it at least, and
\* it did not begin to decay any earlier.
Covers(e) == e.rtt >= report.time /\ e.last_event >= report.at

\* The live copy knows of the last report, and the other one does or will, when
\* it absorbs what it has missed.
ReportKnown ==
    /\ Covers(ewma[live])
    /\ IF log.kind = "summary" THEN log.time = report.time ELSE Covers(ewma[3 - live])

\* A batch that is not a summary leaves the last report and its knowledge alone.
LEMMA OtherBatchCovers ==
    ASSUME TypeInv, ReportKnown, NEW b \in Batches, b.kind # "summary", Publish(b),
           report' = report
    PROVE  ReportKnown'
<1> DEFINE e == ewma[3 - live]  f == AbsorbTime(e, log)
<1>1. /\ e \in PeakEWMA /\ now \in 0..MaxTime /\ e.last_event <= now /\ report.at \in 0..MaxTime
      /\ report.at <= now /\ live \in 1..2 /\ log \in Batches
  BY DEF TypeInv, TypeOK, Timely
<1>2. Covers(f)
  <2>1. CASE log.kind = "summary"
    <3>1. log.time \in Times /\ f = Observe(e, log.time) /\ log.time = report.time
      BY <1>1, <2>1 DEF Batches, AbsorbTime, ReportKnown
    <3> HIDE DEF e, f
    <3>2. Observe(e, log.time).last_event = now /\ Observe(e, log.time).rtt >= log.time
      BY <1>1, <3>1, ObserveType
    <3> QED
      BY <1>1, <3>1, <3>2 DEF Covers
  <2>2. CASE log.kind # "summary"
    BY <2>2 DEF ReportKnown, AbsorbTime
  <2> QED
    BY <2>1, <2>2
<1>3. ewma' = [ewma EXCEPT ![3 - live] = f] /\ live' = 3 - live /\ log' = b
  BY DEF Publish, AbsorbTime
<1> HIDE DEF f, e
<1>4. ewma'[live'] = f /\ ewma'[3 - live'] = ewma[live]
  BY <1>1, <1>3 DEF TypeInv, TypeOK
<1> QED
  BY <1>2, <1>3, <1>4 DEF ReportKnown, Covers

\* A summary is known to the copy that goes live, which observed it last.
LEMMA SummaryCovers ==
    ASSUME TypeInv, NEW b \in Batches, b.kind = "summary", Publish(b),
           report' = [time |-> b.time, at |-> now]
    PROVE  ReportKnown'
<1> DEFINE e == AbsorbTime(ewma[3 - live], log)
<1>1. e \in PeakEWMA /\ e.last_event <= now /\ now \in 0..MaxTime /\ live \in 1..2
  BY AbsorbTimeType DEF TypeInv, TypeOK, Timely
<1>2. ewma' = [ewma EXCEPT ![3 - live] = AbsorbTime(e, b)] /\ live' = 3 - live /\ log' = b
  BY DEF Publish
<1> HIDE DEF e
<1>3. b.time \in Times /\ AbsorbTime(e, b) = Observe(e, b.time)
  BY DEF Batches, AbsorbTime
<1>4. ewma'[live'] = Observe(e, b.time)
  BY <1>1, <1>2, <1>3 DEF TypeInv, TypeOK
<1>5. Observe(e, b.time).last_event = now /\ Observe(e, b.time).rtt >= b.time
  BY <1>1, <1>3, ObserveType
<1> QED
  BY <1>1, <1>2, <1>4, <1>5 DEF ReportKnown, Covers

LEMMA ReportInit == Init => ReportKnown
BY ClockAssumption DEF Init, ReportKnown, Covers

LEMMA ReportStep == TypeInv /\ ReportKnown /\ [Next]_vars => ReportKnown'
<1> SUFFICES ASSUME TypeInv, ReportKnown, [Next]_vars PROVE ReportKnown'
  OBVIOUS
<1>1. ASSUME NEW t \in Tunnels, Transfer(t) PROVE ReportKnown'
  BY <1>1 DEF Transfer, ReportKnown, Covers
<1>2. ASSUME NEW t \in Tunnels, IncrConnection(t) PROVE ReportKnown'
  <2> DEFINE b == [kind |-> "incr", peer |-> PeerOf[t]]
  <2>1. b \in Batches /\ b.kind # "summary" /\ Publish(b) /\ report' = report
    BY <1>2, BatchTypes DEF IncrConnection
  <2> HIDE DEF b
  <2> QED
    BY <2>1, OtherBatchCovers
<1>3. ASSUME NEW t \in Tunnels, Summary(t) PROVE ReportKnown'
  <2>1. PICK n \in Bytes, x \in Times :
          /\ Publish([kind |-> "summary", peer |-> PeerOf[t], bytes |-> n, time |-> x])
          /\ report' = [time |-> x, at |-> now]
    BY <1>3 DEF Summary
  <2> DEFINE b == [kind |-> "summary", peer |-> PeerOf[t], bytes |-> n, time |-> x]
  <2>2. b \in Batches /\ b.kind = "summary" /\ Publish(b)
        /\ report' = [time |-> b.time, at |-> now]
    BY <2>1, BatchTypes
  <2> HIDE DEF b
  <2> QED
    BY <2>2, SummaryCovers
<1>4. ASSUME NEW t \in Tunnels, AddFailures(t) PROVE ReportKnown'
  <2> DEFINE b == [kind |-> "failures", peer |-> PeerOf[t]]
  <2>1. b \in Batches /\ b.kind # "summary" /\ Publish(b) /\ report' = report
    BY <1>4, BatchTypes DEF AddFailures
  <2> HIDE DEF b
  <2> QED
    BY <2>1, OtherBatchCovers
<1>5. ASSUME Reset PROVE ReportKnown'
  <2> DEFINE b == [kind |-> "reset"]
  <2>1. b \in Batches /\ b.kind # "summary" /\ Publish(b) /\ report' = report
    BY <1>5, BatchTypes DEF Reset
  <2> HIDE DEF b
  <2> QED
    BY <2>1, OtherBatchCovers
<1>6. ASSUME NEW s \in Statuses, SetStatus(s) PROVE ReportKnown'
  <2> DEFINE b == [kind |-> "status", status |-> s]
  <2>1. b \in Batches /\ b.kind # "summary" /\ Publish(b) /\ report' = report
    BY <1>6, BatchTypes DEF SetStatus
  <2> HIDE DEF b
  <2> QED
    BY <2>1, OtherBatchCovers
<1>7. ASSUME Tick \/ UNCHANGED vars PROVE ReportKnown'
  BY <1>7 DEF Tick, vars, ReportKnown, Covers
<1> QED
  BY <1>1, <1>2, <1>3, <1>4, <1>5, <1>6, <1>7 DEF Next

\* "if latency is rising, we will immediately raise the cost": the cost that
\* least_loaded_time reads covers every tunnel that runs and one more, at the
\* last reported connection time, decayed since, whichever copy is live and
\* although the copies observed it at different times.  The counter must not
\* wrap around: there are fewer tunnels than a u32 counts.
THEOREM CostCovers ==
    ASSUME Cardinality(Tunnels) + 1 < Modulus
    PROVE  Spec => []CostCoversLoad
<1>1. CountInv /\ ReportKnown => CostCoversLoad
  <2> SUFFICES ASSUME CountInv, ReportKnown, resets = 0, Pending = {}
               PROVE  GetPeakEwma(live) >=
                        (Cardinality(Running) + 1) * Decayed(report.time, now - report.at)
    BY DEF CostCoversLoad
  <2> DEFINE n == Cardinality(Running)
             v == Decayed(ewma[live].rtt, now - ewma[live].last_event)
             w == Decayed(report.time, now - report.at)
  <2>1. n \in Nat /\ n + 1 < Modulus /\ Modulus \in Nat
    <3>1. n <= Cardinality(Tunnels) /\ Cardinality(Tunnels) \in Nat /\ n \in Nat
      BY MetricAssumption, FS_Subset, FS_CardinalityType DEF Running
    <3> HIDE DEF n
    <3> QED
      BY <3>1, MetricAssumption
  <2>2. Balance = n /\ wiped = 0 /\ copy[live].active = (Balance - wiped) % Modulus
    BY RunningCounted DEF CountInv, PeersLower, ActiveExact
  <2>3. v \in Nat /\ w \in Nat /\ w <= v
    <3> DEFINE e == ewma[live]
    <3>1. /\ e \in PeakEWMA /\ now \in 0..MaxTime /\ e.last_event <= now
          /\ report \in [time : Times \cup {0}, at : 0..MaxTime] /\ report.at <= now
      BY DEF CountInv, AtomicInv, TypeInv, TypeOK, Timely
    <3>2. report.time <= e.rtt /\ report.at <= e.last_event
          /\ report.time \in Nat /\ e.rtt \in Nat
      <4>1. e.rtt >= report.time /\ e.last_event >= report.at
        BY DEF ReportKnown, Covers
      <4> HIDE DEF e
      <4>2. e.rtt \in Nat /\ e.last_event \in 0..MaxTime
        BY <3>1 DEF PeakEWMA
      <4>3. report.time \in Nat /\ report.at \in 0..MaxTime
        <5>1. report.time \in Times \cup {0} /\ report.at \in 0..MaxTime
          BY <3>1
        <5>2. Times \cup {0} \subseteq Nat
          BY MetricAssumption
        <5> QED
          BY <5>1, <5>2, Zenon
      <4> QED
        BY <4>1, <4>2, <4>3, ClockAssumption
    <3>3. now - e.last_event \in 0..MaxTime /\ now - report.at \in 0..MaxTime
          /\ now - e.last_event <= now - report.at
      <4> HIDE DEF e
      <4>1. e.last_event \in 0..MaxTime /\ report.at \in 0..MaxTime
        BY <3>1 DEF PeakEWMA
      <4> DEFINE a == e.last_event  c == report.at
      <4>2. a \in Nat /\ c \in Nat /\ now \in Nat /\ c <= a /\ a <= now /\ now <= MaxTime
        BY <3>1, <3>2, <4>1, ClockAssumption
      <4> HIDE DEF a, c
      <4>3. now - a \in 0..MaxTime /\ now - c \in 0..MaxTime /\ now - a <= now - c
        BY <4>2, ClockAssumption
      <4> QED
        BY <4>3 DEF a, c
    <3> QED
      BY <3>2, <3>3, DecayedMonotone
  <2> HIDE DEF n, v, w
  <2>4. n % Modulus = n /\ (n + 1) % Modulus = n + 1
    BY <2>1
  <2>5. GetPeakEwma(live) = (n + 1) * v
    <3>1. copy[live].active = n
      BY <2>1, <2>2, <2>4
    <3> QED
      BY <2>4, <3>1 DEF GetPeakEwma, v
  <2>6. (n + 1) * v >= (n + 1) * w
    BY <2>1, <2>3
  <2> QED
    BY <2>5, <2>6 DEF n, w
<1>2. ReportKnown /\ CountInv /\ [Next]_vars => ReportKnown'
  BY ReportStep DEF CountInv, AtomicInv
<1> QED
  BY <1>1, <1>2, ReportInit, CountInvariance, PTL DEF Spec
=============================================================================
