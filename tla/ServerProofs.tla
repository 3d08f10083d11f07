---------------------------- MODULE ServerProofs ----------------------------
(***************************************************************************)
(* Proofs about Server.tla: the permits of the server's accept loop are    *)
(* neither lost nor multiplied, whatever the number of connections and the *)
(* limit.                                                                  *)
(***************************************************************************)
EXTENDS Server, FiniteSetTheorems, TLAPS

InHand == {k \in H2Conns : phase[k] = "hand"}

\* What PermitLaw needs to be inductive: the backlog holds queued connections,
\* each once, so that the one Accept takes neither is in hand nor handled.
BacklogQueued ==
    /\ \A i \in 1..Len(backlog) : phase[backlog[i]] = "queued"
    /\ \A i, j \in 1..Len(backlog) : backlog[i] = backlog[j] => i = j

Inv == TypeOK /\ BacklogQueued /\ PermitLaw

\* The sets that PermitLaw counts are finite.
LEMMA FiniteConns ==
    ASSUME NEW S \in SUBSET H2Conns
    PROVE  IsFiniteSet(S) /\ Cardinality(S) \in Nat
BY ServerAssumption, FS_Subset, FS_CardinalityType

\* What PermitLaw says holds as long as the two counts and the permits do.
LEMMA SameLaw ==
    ASSUME PermitLaw, Handled(H2Conns)' = Handled(H2Conns), InHand' = InHand,
           UNCHANGED <<permits, loop>>
    PROVE  PermitLaw'
BY DEF PermitLaw, InHand

\* Moving a connection that the backlog does not hold leaves the backlog alone.
LEMMA SameBacklog ==
    ASSUME TypeOK, BacklogQueued, NEW k \in Conns, NEW p, phase[k] # "queued", Goto(k, p),
           UNCHANGED backlog
    PROVE  BacklogQueued'
BY DEF TypeOK, BacklogQueued, Goto, Conns

LEMMA InvInit == Init => Inv
<1> SUFFICES ASSUME Init PROVE Inv
  OBVIOUS
<1>1. TypeOK /\ BacklogQueued
  BY ServerAssumption DEF Init, TypeOK, BacklogQueued, Phase
<1>2. Handled(H2Conns) = {} /\ InHand = {}
  BY DEF Init, Handled, InHand, Conns
<1>3. PermitLaw
  <2>1. Cardinality(Handled(H2Conns)) = 0 /\ Cardinality(InHand) = 0
    BY <1>2, FS_EmptySet
  <2>2. permits + 0 = MaxTasks /\ loop # "permit"
    BY ServerAssumption DEF Init
  <2> QED
    BY <2>1, <2>2 DEF PermitLaw, InHand
<1> QED
  BY <1>1, <1>3 DEF Inv

LEMMA ArriveStep ==
    ASSUME Inv, NEW k \in H2Conns, Arrive(k)
    PROVE  Inv'
<1>1. TypeOK'
  BY DEF Inv, TypeOK, Arrive, Goto, Conns, Phase
<1>2. \A i \in 1..Len(backlog) : backlog[i] # k
  BY DEF Inv, BacklogQueued, Arrive
<1>3. /\ Len(backlog') = Len(backlog) + 1 /\ backlog'[Len(backlog')] = k
      /\ \A i \in 1..Len(backlog) : backlog'[i] = backlog[i]
      /\ Len(backlog) \in Nat
  BY DEF Inv, TypeOK, Arrive
<1>4. phase'[k] = "queued" /\ \A x \in H2Conns \ {k} : phase'[x] = phase[x]
  BY DEF Inv, TypeOK, Arrive, Goto, Conns
<1>5. BacklogQueued'
  <2>1. \A i \in 1..Len(backlog') : i = Len(backlog') \/ i \in 1..Len(backlog)
    BY <1>3
  <2>2. \A i \in 1..Len(backlog) : backlog[i] \in H2Conns
    BY DEF Inv, TypeOK
  <2> QED
    BY <1>2, <1>3, <1>4, <2>1, <2>2 DEF Inv, BacklogQueued
<1>6. Handled(H2Conns)' = Handled(H2Conns) /\ InHand' = InHand
  BY <1>4 DEF Handled, InHand, Arrive
<1>7. PermitLaw'
  BY <1>6, SameLaw DEF Inv, Arrive
<1> QED
  BY <1>1, <1>5, <1>7 DEF Inv

LEMMA AcceptStep ==
    ASSUME Inv, Accept
    PROVE  Inv'
<1> DEFINE k == Head(backlog)
<1>1. /\ k = backlog[1] /\ Len(backlog) >= 1 /\ k \in H2Conns /\ phase[k] = "queued"
      /\ backlog' \in Seq(H2Conns) /\ Len(backlog') = Len(backlog) - 1
      /\ \A i \in 1..Len(backlog') : backlog'[i] = backlog[i + 1]
  BY DEF Inv, TypeOK, BacklogQueued, Accept
<1>2. phase'[k] = "hand" /\ \A x \in H2Conns \ {k} : phase'[x] = phase[x]
  BY <1>1 DEF Inv, TypeOK, Accept, Goto, Conns
<1>3. TypeOK'
  BY <1>1 DEF Inv, TypeOK, Accept, Goto, Phase
<1> HIDE DEF k
<1>4. BacklogQueued'
  <2>1. Len(backlog) \in Nat /\ \A i \in 1..Len(backlog) : backlog[i] \in H2Conns
    BY DEF Inv, TypeOK
  <2>2. \A i \in 1..Len(backlog') : /\ i + 1 \in 1..Len(backlog) /\ 1 \in 1..Len(backlog)
                                    /\ i + 1 # 1
    BY <1>1, <2>1
  <2>3. \A i \in 1..Len(backlog') : backlog'[i] \in H2Conns \ {k}
    BY <1>1, <2>1, <2>2 DEF Inv, BacklogQueued
  <2>4. \A i \in 1..Len(backlog') : phase'[backlog'[i]] = "queued"
    BY <1>1, <1>2, <2>2, <2>3 DEF Inv, BacklogQueued
  <2>5. \A i, j \in 1..Len(backlog') : backlog'[i] = backlog'[j] => i + 1 = j + 1
    BY <1>1, <2>2 DEF Inv, BacklogQueued
  <2> QED
    BY <2>4, <2>5 DEF BacklogQueued
<1>5. Handled(H2Conns)' = Handled(H2Conns)
  BY <1>1, <1>2 DEF Handled
<1>6. InHand' = InHand \cup {k} /\ k \notin InHand
  BY <1>1, <1>2 DEF InHand
<1>7. PermitLaw'
  <2>1. Cardinality(InHand) = 0
    BY DEF Inv, PermitLaw, Accept, InHand
  <2>2. IsFiniteSet(InHand)
    BY FiniteConns DEF InHand
  <2>3. Cardinality(InHand') = 1
    BY <1>6, <2>1, <2>2, FS_AddElement
  <2> QED
    BY <1>5, <2>3 DEF Inv, PermitLaw, Accept, InHand
<1> QED
  BY <1>3, <1>4, <1>7 DEF Inv

LEMMA AcceptFailsStep ==
    ASSUME Inv, AcceptFails
    PROVE  Inv'
<1>1. TypeOK'
  BY DEF Inv, TypeOK, AcceptFails, Phase
<1>2. BacklogQueued'
  BY DEF AcceptFails, BacklogQueued
<1>3. \A k \in H2Conns : phase'[k] = IF phase[k] = "queued" THEN "over" ELSE phase[k]
  BY DEF AcceptFails, Conns
<1>4. Handled(H2Conns)' = Handled(H2Conns) /\ InHand' = InHand
  BY <1>3 DEF Handled, InHand
<1>5. PermitLaw'
  BY <1>4 DEF Inv, PermitLaw, AcceptFails, InHand
<1> QED
  BY <1>1, <1>2, <1>5 DEF Inv

LEMMA PermitStep ==
    ASSUME Inv, Permit
    PROVE  Inv'
<1>1. PICK k \in H2Conns : phase[k] = "hand" /\ Goto(k, "shake")
  BY DEF Permit
<1>2. TypeOK'
  <2>1. permits' \in 0..MaxTasks
    BY ServerAssumption DEF Inv, TypeOK, Permit
  <2> QED
    BY <1>1, <2>1 DEF Inv, TypeOK, Permit, Goto, Phase
<1>3. BacklogQueued'
  BY <1>1, SameBacklog DEF Inv, Permit, Conns
<1>4. phase'[k] = "shake" /\ \A x \in H2Conns \ {k} : phase'[x] = phase[x]
  BY <1>1 DEF Inv, TypeOK, Goto, Conns
<1>5. /\ Handled(H2Conns)' = Handled(H2Conns) \cup {k} /\ k \notin Handled(H2Conns)
      /\ InHand' = InHand \ {k} /\ k \in InHand
  BY <1>1, <1>4 DEF Handled, InHand
<1>6. IsFiniteSet(Handled(H2Conns)) /\ IsFiniteSet(InHand)
      /\ Cardinality(Handled(H2Conns)) \in Nat
  BY FiniteConns DEF Handled, InHand
<1>7. Cardinality(Handled(H2Conns)') = Cardinality(Handled(H2Conns)) + 1
  BY <1>5, <1>6, FS_AddElement
<1>8. Cardinality(InHand') = 0
  <2>1. Cardinality(InHand) = 1
    BY DEF Inv, PermitLaw, Permit, InHand
  <2> QED
    BY <1>5, <1>6, <2>1, FS_RemoveElement, 1 - 1 = 0
<1>9. PermitLaw'
  BY <1>6, <1>7, <1>8, ServerAssumption DEF Inv, TypeOK, PermitLaw, Permit, InHand
<1> QED
  BY <1>2, <1>3, <1>9 DEF Inv

LEMMA H2OverStep ==
    ASSUME Inv, NEW k \in H2Conns, H2Over(k)
    PROVE  Inv'
<1>1. phase'[k] = "over" /\ \A x \in H2Conns \ {k} : phase'[x] = phase[x]
  BY DEF Inv, TypeOK, H2Over, Goto, Conns
<1>2. /\ Handled(H2Conns)' = Handled(H2Conns) \ {k} /\ k \in Handled(H2Conns)
      /\ InHand' = InHand
  BY <1>1 DEF H2Over, Handled, InHand
<1>3. IsFiniteSet(Handled(H2Conns)) /\ Cardinality(Handled(H2Conns)) \in Nat
      /\ IsFiniteSet(Handled(H2Conns)') /\ Cardinality(Handled(H2Conns)') \in Nat
  BY FiniteConns DEF Handled
<1>4. Cardinality(Handled(H2Conns)') = Cardinality(Handled(H2Conns)) - 1
  BY <1>2, <1>3, FS_RemoveElement
<1>5. PermitLaw'
  <2> DEFINE c == Cardinality(Handled(H2Conns))  d == Cardinality(Handled(H2Conns)')
  <2>1. permits' = permits + 1 /\ permits + c = MaxTasks /\ permits \in Nat /\ loop' = loop
    BY ServerAssumption DEF Inv, TypeOK, PermitLaw, H2Over
  <2>2. d = c - 1 /\ c \in Nat /\ d \in Nat
    BY <1>3, <1>4
  <2> HIDE DEF c, d
  <2>3. permits' + d = MaxTasks
    BY <2>1, <2>2
  <2> QED
    BY <1>2, <2>1, <2>3 DEF Inv, PermitLaw, InHand, d
<1>6. permits' \in 0..MaxTasks
  BY <1>3, <1>5, ServerAssumption DEF Inv, TypeOK, PermitLaw, H2Over
<1>7. TypeOK'
  BY <1>6 DEF Inv, TypeOK, H2Over, Goto, Phase
<1>8. BacklogQueued'
  BY SameBacklog DEF Inv, H2Over, Conns
<1> QED
  BY <1>5, <1>7, <1>8 DEF Inv

LEMMA QuicStep ==
    ASSUME Inv, NEW k \in QuicConns, QuicArrive(k) \/ QuicAccept(k) \/ QuicOver(k)
    PROVE  Inv'
<1>1. TypeOK'
  BY DEF Inv, TypeOK, QuicArrive, QuicAccept, QuicOver, Goto, Phase
<1>2. \A x \in H2Conns : phase'[x] = phase[x]
  BY ServerAssumption DEF Inv, TypeOK, QuicArrive, QuicAccept, QuicOver, Goto, Conns
<1>3. BacklogQueued'
  <2>1. \A i \in 1..Len(backlog) : backlog[i] \in H2Conns
    BY DEF Inv, TypeOK
  <2> QED
    BY <1>2, <2>1 DEF Inv, BacklogQueued, QuicArrive, QuicAccept, QuicOver
<1>4. Handled(H2Conns)' = Handled(H2Conns) /\ InHand' = InHand
  BY <1>2 DEF Handled, InHand
<1>5. PermitLaw'
  BY <1>4, SameLaw DEF Inv, QuicArrive, QuicAccept, QuicOver
<1> QED
  BY <1>1, <1>3, <1>5 DEF Inv

LEMMA EstablishedStep ==
    ASSUME Inv, NEW k \in Conns, Established(k)
    PROVE  Inv'
<1>1. TypeOK'
  BY DEF Inv, TypeOK, Established, Goto, Phase
<1>2. BacklogQueued'
  BY SameBacklog DEF Inv, Established
<1>3. phase'[k] = "serve" /\ \A x \in H2Conns \ {k} : phase'[x] = phase[x]
  BY DEF Inv, TypeOK, Established, Goto, Conns
<1>4. Handled(H2Conns)' = Handled(H2Conns) /\ InHand' = InHand
  BY <1>3 DEF Established, Handled, InHand
<1>5. PermitLaw'
  BY <1>4, SameLaw DEF Inv, Established
<1> QED
  BY <1>1, <1>2, <1>5 DEF Inv

LEMMA InvStep == Inv /\ [Next]_vars => Inv'
<1> SUFFICES ASSUME Inv, [Next]_vars PROVE Inv'
  OBVIOUS
<1>1. ASSUME UNCHANGED vars PROVE Inv'
  BY <1>1 DEF Inv, TypeOK, BacklogQueued, PermitLaw, Handled, vars
<1>2. CASE Peers
  BY <1>2, ArriveStep, H2OverStep, QuicStep, EstablishedStep DEF Peers
<1> QED
  BY <1>1, <1>2, AcceptStep, AcceptFailsStep, PermitStep, QuicStep DEF Next, Waiting

LEMMA Invariance == Spec => []Inv
BY InvInit, InvStep, PTL DEF Spec

\* The accept loops' state keeps its type; in particular the semaphore never holds
\* more permits than max_concurrent_tasks, and no more are taken than it holds.
THEOREM TypeCorrect == Spec => []TypeOK
<1>1. Inv => TypeOK
  BY DEF Inv
<1> QED
  BY <1>1, Invariance, PTL

\* A permit is out for each TCP connection that run_h2 has handed to a task, and
\* for nothing else, whichever way its handling ends; and the loop holds one
\* accepted connection exactly while it waits for a permit.
THEOREM PermitsKept == Spec => []PermitLaw
<1>1. Inv => PermitLaw
  BY DEF Inv
<1> QED
  BY <1>1, Invariance, PTL

\* So there are never more than max_concurrent_tasks TCP connections with a task.
THEOREM TasksLimited == Spec => [](Cardinality(Handled(H2Conns)) <= MaxTasks)
<1>1. Inv => Cardinality(Handled(H2Conns)) <= MaxTasks
  <2> SUFFICES ASSUME Inv PROVE Cardinality(Handled(H2Conns)) <= MaxTasks
    OBVIOUS
  <2>1. Cardinality(Handled(H2Conns)) \in Nat
    BY FiniteConns DEF Handled
  <2> QED
    BY <2>1, ServerAssumption DEF Inv, TypeOK, PermitLaw
<1> QED
  BY <1>1, Invariance, PTL

=============================================================================
