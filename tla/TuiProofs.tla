----------------------------- MODULE TuiProofs -----------------------------
(***************************************************************************)
(* Proofs about Tui.tla: the flag that the two threads of the terminal     *)
(* user interface share, and the selection, for any number of backends.    *)
(***************************************************************************)
EXTENDS Tui, FiniteSetTheorems, TLAPS

(***************************************************************************)
(* Types                                                                   *)
(***************************************************************************)

\* The bound on the notifications leaves room for the one of ReportError, after
\* which there is none.
TypeInv == TypeOK /\ (fetch # "done" => notes <= MaxNotes)

\* backends.len() - 1, as a usize.
LEMMA LastIndexType ==
    ASSUME TypeOK
    PROVE  /\ LastIndex \in Usize
           /\ listed > 0 => LastIndex = listed - 1
<1>1. listed \in Nat /\ listed <= UsizeMax /\ UsizeMax \in Nat
  BY TuiAssumption DEF TypeOK
<1>2. LastIndex \in 0..UsizeMax
  BY <1>1 DEF LastIndex
<1>3. ASSUME listed > 0 PROVE LastIndex = listed - 1
  <2> DEFINE M == UsizeMax + 1  x == listed + UsizeMax  r == listed - 1
  <2>1. M \in Nat \ {0} /\ x \in Nat /\ x = M + r /\ r \in 0..M - 1
    BY <1>1, <1>3
  <2> HIDE DEF M, x, r
  <2>2. x % M = r
    <3> DEFINE q == x \div M
    <3>1. x = M * q + (x % M) /\ q \in Int /\ x % M \in 0..M - 1
      BY <2>1
    <3> HIDE DEF q
    <3>2. M * (q - 1) = r - (x % M)
      BY <2>1, <3>1
    <3>3. q - 1 < 1 /\ q - 1 > -1
      BY <2>1, <3>1, <3>2
    <3> QED
      BY <2>1, <3>1, <3>2, <3>3
  <2> QED
    BY <2>2 DEF LastIndex, M, x, r
<1> QED
  BY <1>2, <1>3 DEF Usize

LEMMA IndexType ==
    ASSUME TypeOK
    PROVE  /\ NextIndex \in Usize /\ PrevIndex \in Usize
           /\ listed > 0 => /\ NextIndex < listed
                            /\ selected < listed => PrevIndex < listed
<1>1. /\ listed \in Nat /\ listed <= UsizeMax /\ UsizeMax \in Nat
      /\ selected \in 0..UsizeMax /\ LastIndex \in 0..UsizeMax
      /\ listed > 0 => LastIndex = listed - 1
  BY LastIndexType, TuiAssumption DEF TypeOK, Usize
<1> QED
  BY <1>1 DEF NextIndex, PrevIndex, Usize

LEMMA TypeInit == Init => TypeInv
<1> SUFFICES ASSUME Init PROVE TypeInv
  OBVIOUS
<1>1. reqs \in Seq(Requests) /\ toServer \in Seq(Requests) /\ toClient \in Seq(Answers)
  BY DEF Init
<1>2. 0 \in Usize /\ 0 \in 0..MaxNotes + 1 /\ 0 \in 0..MaxStray /\ 0 <= MaxNotes
  BY TuiAssumption DEF Usize
<1> QED
  BY <1>1, <1>2 DEF Init, TypeInv, TypeOK

LEMMA TypeStep == TypeInv /\ [Next]_vars => TypeInv'
<1> SUFFICES ASSUME TypeInv, [Next]_vars PROVE TypeInv'
  OBVIOUS
<1> USE DEF uiVars, wireVars, fetchVars
<1>1. CASE Keys
  <2>1. ASSUME NEW i \in Usize, Select(i) PROVE TypeInv'
    BY <2>1 DEF Select, TypeInv, TypeOK
  <2>2. ASSUME NEW op \in Operations, Action(op) PROVE TypeInv'
    <3>1. ui' \in {"draw"} \cup Operations /\ pending' \in BOOLEAN
          /\ UNCHANGED <<selected, spin, pendingOn, early, reqs, notes, wireVars, fetchVars>>
      <4>1. pending \in BOOLEAN
        BY DEF TypeInv, TypeOK
      <4> QED
        BY <2>2, <4>1 DEF Action
    <3> QED
      BY <3>1 DEF TypeInv, TypeOK
  <2>3. ASSUME NEW next \in {"last", "draw", "failed"}, Key(next) PROVE TypeInv'
    BY <2>3 DEF Key, TypeInv, TypeOK, Left
  <2> QED
    BY <1>1, <2>1, <2>2, <2>3, IndexType
    DEF Keys, SelectNext, SelectPrev, InputFails, TypeInv
<1>2. CASE Main
  <2>1. CASE TakeNote
    <3>1. notes' \in 0..MaxNotes + 1 /\ notes' <= notes
      BY <2>1, TuiAssumption DEF TakeNote, TypeInv, TypeOK
    <3> QED
      BY <2>1, <3>1, TuiAssumption DEF TakeNote, TypeInv, TypeOK
  <2>2. CASE Disconnected \/ AppClose \/ Draw
    BY <2>2 DEF Disconnected, AppClose, Draw, TypeInv, TypeOK, Left
  <2>3. CASE Send
    <3>1. [op |-> ui, id |-> selected] \in Requests
      BY <2>3 DEF Send, TypeInv, TypeOK, Requests
    <3>2. reqs' \in Seq(Requests)
      <4>1. reqs \in Seq(Requests)
        BY DEF TypeInv, TypeOK
      <4>2. reqs' = reqs \/ reqs' = Append(reqs, [op |-> ui, id |-> selected])
        BY <2>3 DEF Send
      <4> QED
        BY <3>1, <4>1, <4>2
    <3>3. /\ ui' \in {"draw", "panic"} /\ pendingOn' \in Usize
          /\ UNCHANGED <<selected, spin, early, pending, notes, wireVars, fetchVars>>
      <4>1. selected \in Usize /\ pendingOn \in Usize
        BY DEF TypeInv, TypeOK
      <4> QED
        BY <2>3, <4>1 DEF Send
    <3> QED
      BY <3>2, <3>3 DEF TypeInv, TypeOK, Left
  <2> QED
    BY <1>2, <2>1, <2>2, <2>3 DEF Main
<1>3. CASE Read
  <2>1. ASSUME NEW m, Receives(m)
        PROVE  toClient' \in Seq(Answers) /\ fetch' = "idle"
    BY <2>1 DEF Receives, TypeInv, TypeOK
  <2>2. CASE ReadDone \/ ReadStray
    BY <2>1, <2>2 DEF ReadDone, ReadStray, Receives, TypeInv, TypeOK
  <2>3. CASE ReadItems \/ ReadError
    <3>1. notes' \in 0..MaxNotes + 1 /\ notes' <= MaxNotes
      BY <2>3, TuiAssumption DEF ReadItems, ReadError, TypeInv, TypeOK
    <3> QED
      BY <2>1, <2>3, <3>1 DEF ReadItems, ReadError, Receives, TypeInv, TypeOK
  <2>4. CASE ReadEnd
    BY <2>4 DEF ReadEnd, TypeInv, TypeOK
  <2> QED
    BY <1>3, <2>2, <2>3, <2>4 DEF Read
<1>4. CASE Connected \/ FetchError \/ ReadUndecoded
  <2>1. reqs' \in Seq(Requests)
    <3>1. reqs' = reqs \/ reqs' = <<>>
      BY <1>4 DEF Connected, FetchError, ReadUndecoded, RunLoopFails
    <3>2. <<>> \in Seq(Requests) /\ reqs \in Seq(Requests)
      BY DEF TypeInv, TypeOK
    <3> QED
      BY <3>1, <3>2
  <2>2. toClient' \in Seq(Answers)
    <3>1. toClient' = toClient \/ (toClient # <<>> /\ toClient' = Tail(toClient))
      BY <1>4 DEF Connected, FetchError, ReadUndecoded
    <3>2. toClient \in Seq(Answers)
      BY DEF TypeInv, TypeOK
    <3>3. toClient # <<>> => Tail(toClient) \in Seq(Answers)
      BY <3>2
    <3> QED
      BY <3>1, <3>2, <3>3
  <2> QED
    BY <1>4, <2>1, <2>2 DEF Connected, FetchError, ReadUndecoded, RunLoopFails, TypeInv, TypeOK
<1>5. CASE ReportError
  <2>1. notes' \in 0..MaxNotes + 1
    BY <1>5, TuiAssumption DEF ReportError, TypeInv, TypeOK
  <2> QED
    BY <1>5, <2>1 DEF ReportError, TypeInv, TypeOK
<1>6. CASE SendRequest \/ Poll
  <2>1. AllBackends \in Requests
    BY TuiAssumption DEF AllBackends, Requests, Usize
  <2>2. toServer' \in Seq(Requests) /\ reqs' \in Seq(Requests)
    <3>1. CASE Poll
      BY <2>1, <3>1 DEF Poll, TypeInv, TypeOK
    <3>2. CASE SendRequest
      <4>1. Head(reqs) \in Requests /\ Tail(reqs) \in Seq(Requests)
        BY <3>2 DEF SendRequest, TypeInv, TypeOK
      <4> HIDE DEF AllBackends
      <4> QED
        BY <3>2, <4>1 DEF SendRequest, TypeInv, TypeOK
    <3> QED
      BY <1>6, <3>1, <3>2
  <2> QED
    BY <1>6, <2>2 DEF SendRequest, Poll, TypeInv, TypeOK
<1>7. CASE Answer
  <2>1. \A r : Outcomes(r) \subseteq Answers
    BY DEF Outcomes, Answers
  <2>2. toClient' \in Seq(Answers) /\ toServer' \in Seq(Requests)
    BY <1>7, <2>1 DEF Answer, TypeInv, TypeOK
  <2> QED
    BY <1>7, <2>2 DEF Answer, TypeInv, TypeOK
<1>8. CASE Stray
  <2>1. strays' \in 0..MaxStray /\ toClient' \in Seq(Answers)
    BY <1>8, TuiAssumption DEF Stray, TypeInv, TypeOK, Answers
  <2> QED
    BY <1>8, <2>1 DEF Stray, TypeInv, TypeOK
<1>9. CASE ServerGone \/ UNCHANGED vars
  BY <1>9 DEF ServerGone, vars, TypeInv, TypeOK
<1> QED
  BY <1>1, <1>2, <1>3, <1>4, <1>5, <1>6, <1>7, <1>8, <1>9 DEF Next, Fetcher

LEMMA TypeInvariance == Spec => []TypeInv
BY TypeInit, TypeStep, PTL DEF Spec

\* The state of the two threads and of their channels keeps its type: no
\* selection and no request is out of the range of a usize.
THEOREM TypeCorrect == Spec => []TypeOK
<1>1. TypeInv => TypeOK
  BY DEF TypeInv
<1> QED
  BY <1>1, TypeInvariance, PTL

(***************************************************************************)
(* The selection                                                           *)
(***************************************************************************)

\* Until the first list comes, a selection that was not moved is the first.
SelectionInv == SelectionInRange /\ (listed = 0 /\ ~early => selected = 0)

LEMMA SelectionStep == TypeInv /\ SelectionInv /\ [Next]_vars => SelectionInv'
<1> SUFFICES ASSUME TypeInv, SelectionInv, [Next]_vars PROVE SelectionInv'
  OBVIOUS
<1> USE DEF uiVars, wireVars, fetchVars
<1>0. listed \in Nat /\ selected \in Nat /\ early \in BOOLEAN /\ NBackends \in Nat
      /\ (listed = 0 \/ listed = NBackends)
  BY TuiAssumption DEF TypeInv, TypeOK, Usize
<1>1. ASSUME UNCHANGED <<selected, listed, early>> PROVE SelectionInv'
  BY <1>1 DEF SelectionInv, SelectionInRange
<1>2. ASSUME NEW i \in Usize, Select(i), listed > 0 /\ selected < listed => i < listed
      PROVE  SelectionInv'
  <2>1. CASE listed = 0
    <3>1. early' = TRUE
      BY <1>2, <2>1 DEF Select
    <3> QED
      BY <3>1 DEF SelectionInv, SelectionInRange
  <2>2. CASE listed # 0
    <3>1. listed > 0 /\ early' = early /\ listed' = listed /\ selected' = i
      BY <1>0, <1>2, <2>2 DEF Select
    <3> QED
      BY <1>0, <1>2, <2>2, <3>1 DEF SelectionInv, SelectionInRange
  <2> QED
    BY <2>1, <2>2
<1>3. CASE SelectNext \/ SelectPrev
  <2>1. /\ NextIndex \in Usize /\ PrevIndex \in Usize
        /\ listed > 0 /\ selected < listed => NextIndex < listed /\ PrevIndex < listed
    BY IndexType DEF TypeInv
  <2> QED
    BY <1>2, <1>3, <2>1 DEF SelectNext, SelectPrev
<1>4. CASE ReadItems
  <2>1. listed' = NBackends /\ selected' = selected /\ early' = early
    BY <1>4 DEF ReadItems, Receives
  <2> QED
    BY <1>0, <2>1 DEF SelectionInv, SelectionInRange
<1>5. CASE \/ \E op \in Operations : Action(op)
           \/ \E next \in {"last", "draw"} : Key(next)
           \/ InputFails \/ Main
  BY <1>1, <1>5
  DEF Action, Key, InputFails, Main, Send, TakeNote, Disconnected, AppClose, Draw
<1>6. CASE Connected \/ FetchError \/ ReadUndecoded \/ ReportError \/ SendRequest \/ Poll
           \/ ReadDone \/ ReadError \/ ReadStray \/ ReadEnd
  BY <1>1, <1>6
  DEF Connected, FetchError, ReadUndecoded, RunLoopFails, ReportError, SendRequest, Poll,
      ReadDone, ReadError, ReadStray, ReadEnd, Receives
<1>7. CASE Answer \/ Stray \/ ServerGone \/ UNCHANGED vars
  BY <1>1, <1>7 DEF Answer, Stray, ServerGone, vars
<1> QED
  BY <1>3, <1>4, <1>5, <1>6, <1>7 DEF Next, Keys, Fetcher, Read

\* Once the list is there, select_next_backend and select_prev_backend keep the
\* selection inside it, whatever the number of backends, unless a key came
\* before the first list.
THEOREM SelectionStays == Spec => []SelectionInRange
<1>1. Init => SelectionInv
  BY DEF Init, SelectionInv, SelectionInRange
<1>2. SelectionInv => SelectionInRange
  BY DEF SelectionInv
<1> QED
  BY <1>1, <1>2, SelectionStep, TypeInvariance, PTL DEF Spec

(***************************************************************************)
(* Counting the messages of a channel                                      *)
(***************************************************************************)

\* The places of s that hold an element of T.
Places(s, T) == {i \in DOMAIN s : s[i] \in T}

LEMMA PlacesFinite ==
    ASSUME NEW S, NEW s \in Seq(S), NEW T
    PROVE  /\ IsFiniteSet(Places(s, T)) /\ Cardinality(Places(s, T)) \in Nat
           /\ Places(s, T) \subseteq 1..Len(s)
<1>1. DOMAIN s = 1..Len(s) /\ Len(s) \in Nat
  OBVIOUS
<1>2. IsFiniteSet(1..Len(s))
  BY <1>1, FS_Interval
<1>3. Places(s, T) \subseteq 1..Len(s)
  BY <1>1 DEF Places
<1> QED
  BY <1>2, <1>3, FS_Subset, FS_CardinalityType

\* Sending counts what is sent.
LEMMA CountAppend ==
    ASSUME NEW S, NEW s \in Seq(S), NEW x \in S, NEW T
    PROVE  Cardinality(Places(Append(s, x), T)) =
             Cardinality(Places(s, T)) + (IF x \in T THEN 1 ELSE 0)
<1> DEFINE a == Append(s, x)  n == Len(s) + 1
<1>1. /\ DOMAIN s = 1..Len(s) /\ Len(s) \in Nat
      /\ DOMAIN a = 1..n /\ a[n] = x /\ \A i \in 1..Len(s) : a[i] = s[i]
  OBVIOUS
<1>2. IsFiniteSet(Places(s, T)) /\ n \notin Places(s, T)
      /\ Cardinality(Places(s, T)) \in Nat
  <2>1. n \notin DOMAIN s
    BY <1>1
  <2>2. IsFiniteSet(Places(s, T)) /\ Cardinality(Places(s, T)) \in Nat
    BY PlacesFinite
  <2> QED
    BY <2>1, <2>2 DEF Places
<1> HIDE DEF a
<1>3. \A i \in 1..n : i = n \/ i \in 1..Len(s)
  BY <1>1
<1>4. CASE x \in T
  <2>1. Places(a, T) = Places(s, T) \cup {n}
    BY <1>1, <1>3, <1>4 DEF Places
  <2> QED
    BY <1>2, <1>4, <2>1, FS_AddElement DEF a
<1>5. CASE x \notin T
  <2>1. Places(a, T) = Places(s, T)
    BY <1>1, <1>3, <1>5 DEF Places
  <2> QED
    BY <1>2, <1>5, <2>1 DEF a
<1> QED
  BY <1>4, <1>5

\* Receiving discounts what is received.
LEMMA CountTail ==
    ASSUME NEW S, NEW s \in Seq(S), s # <<>>, NEW T
    PROVE  Cardinality(Places(s, T)) =
             Cardinality(Places(Tail(s), T)) + (IF Head(s) \in T THEN 1 ELSE 0)
<1> DEFINE t == Tail(s)  A == Places(s, T) \ {1}  B == Places(t, T)
<1>1. /\ DOMAIN s = 1..Len(s) /\ Len(s) \in Nat \ {0} /\ t \in Seq(S) /\ Head(s) = s[1]
      /\ DOMAIN t = 1..Len(s) - 1 /\ \A i \in 1..Len(s) - 1 : t[i] = s[i + 1]
  OBVIOUS
<1>2. IsFiniteSet(Places(s, T)) /\ Cardinality(Places(s, T)) \in Nat
      /\ IsFiniteSet(B) /\ Cardinality(B) \in Nat
  BY <1>1, PlacesFinite
<1> HIDE DEF t
<1>3. Cardinality(Places(s, T)) = Cardinality(A) + (IF Head(s) \in T THEN 1 ELSE 0)
      /\ IsFiniteSet(A)
  <2>1. 1 \in Places(s, T) <=> Head(s) \in T
    BY <1>1 DEF Places
  <2>2. IsFiniteSet(A) /\ Cardinality(A) = IF 1 \in Places(s, T)
                                             THEN Cardinality(Places(s, T)) - 1
                                             ELSE Cardinality(Places(s, T))
    BY <1>2, FS_RemoveElement
  <2> QED
    BY <1>2, <2>1, <2>2
<1>4. Cardinality(B) = Cardinality(A)
  <2> DEFINE f == [i \in B |-> i + 1]
  <2>1. \A i \in B : i \in 1..Len(s) - 1 /\ i + 1 \in 1..Len(s) /\ i + 1 # 1 /\ s[i + 1] \in T
    BY <1>1 DEF Places
  <2>2. \A i \in B : i + 1 \in A
    BY <1>1, <2>1 DEF Places
  <2>3. \A j \in A : j - 1 \in B /\ j = (j - 1) + 1
    <3> SUFFICES ASSUME NEW j \in A PROVE j - 1 \in B /\ j = (j - 1) + 1
      OBVIOUS
    <3>1. j \in 1..Len(s) /\ j # 1 /\ s[j] \in T
      BY <1>1 DEF Places
    <3>2. j - 1 \in 1..Len(s) - 1 /\ j = (j - 1) + 1
      BY <1>1, <3>1
    <3>3. t[j - 1] = s[j]
      BY <1>1, <3>2
    <3> QED
      BY <1>1, <3>1, <3>2, <3>3 DEF Places
  <2>4. f \in [B -> A]
    BY <2>2
  <2>5. \A i, j \in B : f[i] = f[j] => i = j
    BY <2>1, <1>1
  <2>6. \A j \in A : \E i \in B : f[i] = j
    BY <2>3
  <2> HIDE DEF A, B, f
  <2>7. f \in Bijection(B, A)
    BY <2>4, <2>5, <2>6 DEF Bijection, Injection, Surjection, IsInjective
  <2>8. ExistsBijection(B, A)
    BY <2>7 DEF ExistsBijection
  <2>9. IsFiniteSet(B)
    BY <1>2 DEF B
  <2> QED
    BY <2>8, <2>9, FS_Bijection
<1> HIDE DEF A, B
<1> QED
  BY <1>2, <1>3, <1>4 DEF B, t

(***************************************************************************)
(* The flag                                                                *)
(***************************************************************************)
Gone == fetch \in {"failing", "done"}
ByOperator == Requests \ {AllBackends}
ToOperator == {"done", "error"}

\* The operator's requests and their answers, by where they are: with the main
\* thread or in its channel, on the way to the server, and on the way back.
Waiting == (IF ui \in Operations THEN 1 ELSE 0) + Len(reqs)
Asked == Cardinality(Places(toServer, ByOperator))
Answered == Cardinality(Places(toClient, ToOperator))

\* A request on its way is either a poll or one for the backend that is crossed out.
Named(r) == r.op \in Operations /\ r.id = pendingOn

ReqsNamed == \A i \in DOMAIN reqs : Named(reqs[i])
AskedNamed == \A i \in DOMAIN toServer : toServer[i] = AllBackends \/ Named(toServer[i])

\* PendingExact, with what it takes to be inductive: which requests there are,
\* and that an Error answer leaves the flag set.
PendingInv ==
    /\ ReqsNamed /\ AskedNamed
    /\ refused => pending
    /\ ~Gone => Waiting + Asked + Answered = IF pending /\ ~refused THEN 1 ELSE 0

LEMMA CountTypes ==
    ASSUME TypeOK
    PROVE  /\ Waiting \in Nat /\ Asked \in Nat /\ Answered \in Nat
           /\ Waiting = 0 => reqs = <<>>
           /\ ui \in Operations /\ Waiting <= 1 => reqs = <<>>
<1>1. Asked \in Nat /\ Answered \in Nat
  BY PlacesFinite DEF TypeOK, Asked, Answered
<1>2. Len(reqs) \in Nat /\ (Len(reqs) = 0 => reqs = <<>>)
  BY DEF TypeOK
<1> QED
  BY <1>1, <1>2 DEF Waiting

\* A step that has nothing to do with the requests, except that it may end run_loop.
LEMMA SameRequests ==
    ASSUME PendingInv, UNCHANGED <<reqs, toServer, toClient, pending, pendingOn, refused>>,
           ui' \in Operations <=> ui \in Operations,
           Gone => Gone'
    PROVE  PendingInv'
<1>1. Waiting' = Waiting /\ Asked' = Asked /\ Answered' = Answered
  BY DEF Waiting, Asked, Answered
<1> QED
  BY <1>1 DEF PendingInv, ReqsNamed, AskedNamed, Named

\* A step that ends run_loop, and what its receiver holds with it.
LEMMA GonePending ==
    ASSUME PendingInv, Gone', reqs' = <<>>,
           UNCHANGED <<toServer, pending, pendingOn, refused>>
    PROVE  PendingInv'
BY DEF PendingInv, ReqsNamed, AskedNamed, Named

LEMMA ActionPending ==
    ASSUME TypeOK, PendingInv, NEW op \in Operations, Action(op)
    PROVE  PendingInv'
<1> USE DEF uiVars, wireVars, fetchVars
<1>0. ui \notin Operations /\ "draw" \notin Operations
  BY DEF Action, Operations
<1>1. CASE pending
  BY <1>0, <1>1, SameRequests DEF Action, Gone
<1>2. CASE ~pending
  <2>1. UNCHANGED <<reqs, toServer, toClient, pendingOn, refused, fetch>>
        /\ pending' = TRUE /\ ui' \in Operations
    BY <1>2 DEF Action
  <2>2. ~refused /\ (~Gone => Waiting = 0 /\ Asked = 0 /\ Answered = 0)
    BY <1>2, CountTypes DEF PendingInv
  <2>3. ASSUME ~Gone PROVE Waiting' + Asked' + Answered' = 1
    <3>1. reqs = <<>>
      BY <2>2, <2>3, CountTypes
    <3>2. Waiting' = 1 /\ Asked' = 0 /\ Answered' = 0
      BY <2>1, <2>2, <2>3, <3>1 DEF Waiting, Asked, Answered
    <3> QED
      BY <3>2
  <2> QED
    BY <2>1, <2>2, <2>3 DEF PendingInv, ReqsNamed, AskedNamed, Named, Gone
<1> QED
  BY <1>1, <1>2

\* The request in hand is the only one, so that pending_on_id may change.
LEMMA SendPending ==
    ASSUME TypeOK, PendingInv, Send
    PROVE  PendingInv'
<1> USE DEF uiVars, wireVars, fetchVars
<1>0. "draw" \notin Operations /\ "panic" \notin Operations /\ ui \in Operations
  BY DEF Send, Operations
<1>1. CASE Gone
  <2>1. UNCHANGED <<reqs, toServer, toClient, pending, pendingOn, refused, fetch>>
    BY <1>1 DEF Send, Gone
  <2> QED
    BY <1>1, <2>1 DEF PendingInv, ReqsNamed, AskedNamed, Named, Gone
<1>2. CASE ~Gone
  <2> DEFINE r == [op |-> ui, id |-> selected]
  <2>1. /\ reqs' = Append(reqs, r) /\ pendingOn' = selected /\ ui' = "draw"
        /\ UNCHANGED <<toServer, toClient, pending, refused, fetch>>
    BY <1>2 DEF Send, Gone
  <2>2. Waiting = 1 /\ Asked = 0 /\ Answered = 0 /\ reqs = <<>> /\ pending /\ ~refused
    <3>1. Waiting >= 1
      BY <1>0 DEF TypeOK, Waiting
    <3>2. Waiting + Asked + Answered = IF pending /\ ~refused THEN 1 ELSE 0
      BY <1>2 DEF PendingInv
    <3>3. Waiting = 1 /\ Asked = 0 /\ Answered = 0 /\ pending /\ ~refused
      BY <3>1, <3>2, CountTypes
    <3> QED
      BY <1>0, <3>3, CountTypes
  <2>3. reqs' = <<r>>
    BY <2>1, <2>2
  <2>4. \A i \in DOMAIN toServer : toServer[i] = AllBackends
    <3>1. IsFiniteSet(Places(toServer, ByOperator))
      BY PlacesFinite DEF TypeOK
    <3>2. Places(toServer, ByOperator) = {}
      BY <2>2, <3>1, FS_EmptySet DEF Asked
    <3>3. \A i \in DOMAIN toServer : toServer[i] \in Requests
      BY DEF TypeOK
    <3> QED
      BY <3>2, <3>3 DEF Places, ByOperator
  <2>5. ReqsNamed'
    <3>1. r.op \in Operations /\ r.id = pendingOn'
      BY <1>0, <2>1
    <3> HIDE DEF r
    <3>2. \A i \in DOMAIN reqs' : reqs'[i] = r
      BY <2>3
    <3> QED
      BY <3>1, <3>2 DEF ReqsNamed, Named
  <2>6. Waiting' = 1 /\ Asked' = 0 /\ Answered' = 0
    BY <1>0, <2>1, <2>2, <2>3 DEF Waiting, Asked, Answered
  <2>7. 1 + 0 + 0 = 1
    OBVIOUS
  <2> QED
    BY <2>1, <2>2, <2>4, <2>5, <2>6, <2>7 DEF PendingInv, AskedNamed
<1> QED
  BY <1>1, <1>2

LEMMA SendRequestPending ==
    ASSUME TypeOK, PendingInv, SendRequest
    PROVE  PendingInv'
<1> DEFINE r == Head(reqs)
<1>1. /\ toServer' = Append(toServer, r) /\ reqs' = Tail(reqs) /\ reqs # <<>>
      /\ UNCHANGED <<ui, toClient, pending, pendingOn, refused>> /\ ~Gone
  BY DEF SendRequest, uiVars, Gone
<1>2. /\ r \in Requests /\ Named(r) /\ reqs' \in Seq(Requests)
      /\ Len(reqs') = Len(reqs) - 1 /\ Len(reqs) \in Nat
      /\ \A i \in 1..Len(reqs') : reqs'[i] = reqs[i + 1] /\ i + 1 \in 1..Len(reqs)
  BY <1>1 DEF TypeOK, PendingInv, ReqsNamed
<1> HIDE DEF r
<1>3. r \in ByOperator
  BY <1>2 DEF ByOperator, Named, AllBackends, Operations
<1>4. Waiting' = Waiting - 1 /\ Answered' = Answered
  BY <1>1, <1>2 DEF Waiting, Answered
<1>5. Asked' = Asked + 1
  BY <1>1, <1>2, <1>3, CountAppend DEF TypeOK, Asked
<1>6. Waiting' + Asked' + Answered' = Waiting + Asked + Answered
  BY <1>4, <1>5, CountTypes
<1>7. ReqsNamed'
  BY <1>1, <1>2 DEF TypeOK, PendingInv, ReqsNamed, AskedNamed, Named
<1>8. AskedNamed'
  <2>1. \A i \in DOMAIN toServer' :
           \/ i \in DOMAIN toServer /\ toServer'[i] = toServer[i]
           \/ toServer'[i] = r
    BY <1>1, <1>2 DEF TypeOK
  <2> QED
    BY <1>1, <1>2, <2>1 DEF PendingInv, ReqsNamed, AskedNamed, Named
<1> QED
  BY <1>1, <1>6, <1>7, <1>8 DEF PendingInv

LEMMA PollPending ==
    ASSUME TypeOK, PendingInv, Poll
    PROVE  PendingInv'
<1>1. /\ toServer' = Append(toServer, AllBackends)
      /\ UNCHANGED <<ui, reqs, toClient, pending, pendingOn, refused>> /\ ~Gone
  BY DEF Poll, uiVars, Gone
<1>2. AllBackends \in Requests /\ AllBackends \notin ByOperator
  BY TuiAssumption DEF AllBackends, Requests, Usize, ByOperator
<1>3. Asked' = Asked + 0
  BY <1>1, <1>2, CountAppend DEF TypeOK, Asked
<1>4. Waiting' = Waiting /\ Answered' = Answered /\ Asked' = Asked
  BY <1>1, <1>3, CountTypes DEF Waiting, Answered
<1>5. \A i \in DOMAIN toServer' :
         \/ i \in DOMAIN toServer /\ toServer'[i] = toServer[i]
         \/ toServer'[i] = AllBackends
  <2> HIDE DEF AllBackends
  <2> QED
    BY <1>1, <1>2 DEF TypeOK
<1> QED
  BY <1>1, <1>4, <1>5 DEF PendingInv, ReqsNamed, AskedNamed, Named

\* A message that is read is discounted, if it answers a request of the operator.
LEMMA ReceivesCount ==
    ASSUME TypeOK, NEW m, Receives(m)
    PROVE  /\ Answered = Answered' + (IF m \in ToOperator THEN 1 ELSE 0)
           /\ Answered' \in Nat
           /\ UNCHANGED <<ui, reqs, toServer, pendingOn>> /\ ~Gone /\ ~Gone'
<1>1. /\ toClient # <<>> /\ Head(toClient) = m /\ toClient' = Tail(toClient)
      /\ UNCHANGED <<ui, reqs, toServer, pendingOn>> /\ ~Gone /\ ~Gone'
  BY DEF Receives, uiVars, Gone
<1>2. Answered = Answered' + (IF m \in ToOperator THEN 1 ELSE 0)
  BY <1>1, CountTail DEF TypeOK, Answered
<1>3. toClient' \in Seq(Answers)
  BY <1>1 DEF TypeOK
<1>4. Answered' \in Nat
  BY <1>3, PlacesFinite DEF Answered
<1> QED
  BY <1>1, <1>2, <1>4

LEMMA ReadPending ==
    ASSUME TypeOK, PendingInv, Read
    PROVE  PendingInv'
<1>1. CASE ReadEnd
  BY <1>1 DEF ReadEnd, uiVars, wireVars, PendingInv, ReqsNamed, AskedNamed, Named, Gone
<1>2. CASE ReadDone \/ ReadError
  <2>1. PICK m \in ToOperator : Receives(m)
    BY <1>2 DEF ReadDone, ReadError, ToOperator
  <2>2. Answered = Answered' + 1 /\ Answered' \in Nat
        /\ UNCHANGED <<ui, reqs, toServer, pendingOn>> /\ ~Gone /\ ~Gone'
    BY <2>1, ReceivesCount
  <2>3. Waiting' = Waiting /\ Asked' = Asked
    BY <2>2 DEF Waiting, Asked
  <2>4. Waiting + Asked + Answered = 1 /\ pending /\ ~refused
    BY <2>2, CountTypes DEF PendingInv
  <2>5. Waiting' + Asked' + Answered' = 0
    BY <2>2, <2>3, <2>4, CountTypes
  <2>6. (~pending' /\ ~refused') \/ (pending' /\ refused')
    BY <1>2, <2>4 DEF ReadDone, ReadError
  <2> QED
    BY <2>2, <2>5, <2>6 DEF PendingInv, ReqsNamed, AskedNamed, Named
<1>3. CASE ReadItems \/ ReadStray
  <2>1. PICK m : m \notin ToOperator /\ Receives(m)
    BY <1>3 DEF ReadItems, ReadStray, ToOperator
  <2>2. Answered = Answered' + 0 /\ Answered' \in Nat
        /\ UNCHANGED <<ui, reqs, toServer, pendingOn>> /\ ~Gone /\ ~Gone'
    BY <2>1, ReceivesCount
  <2>3. Waiting' = Waiting /\ Asked' = Asked /\ Answered' = Answered
    <3> DEFINE n == Answered'
    <3>1. n \in Nat /\ Answered = n + 0
      BY <2>2
    <3> HIDE DEF n
    <3>2. Answered = n
      BY <3>1
    <3> QED
      BY <2>2, <3>2 DEF Waiting, Asked, n
  <2>4. UNCHANGED <<pending, refused>>
    BY <1>3 DEF ReadItems, ReadStray
  <2> QED
    BY <2>2, <2>3, <2>4 DEF PendingInv, ReqsNamed, AskedNamed, Named
<1> QED
  BY <1>1, <1>2, <1>3 DEF Read

LEMMA AnswerPending ==
    ASSUME TypeOK, PendingInv, Answer
    PROVE  PendingInv'
<1> DEFINE r == Head(toServer)
<1>1. PICK a \in Outcomes(r) : toClient' = Append(toClient, a)
  BY DEF Answer
<1>2. /\ toServer # <<>> /\ toServer' = Tail(toServer)
      /\ UNCHANGED <<ui, reqs, pending, pendingOn, refused, fetch>>
  BY DEF Answer, uiVars, fetchVars
<1>3. /\ r \in Requests /\ (r = AllBackends \/ Named(r))
      /\ Len(toServer') = Len(toServer) - 1 /\ Len(toServer) \in Nat
      /\ toServer' \in Seq(Requests)
      /\ \A i \in 1..Len(toServer') : toServer'[i] = toServer[i + 1] /\ i + 1 \in 1..Len(toServer)
  BY <1>2 DEF TypeOK, PendingInv, AskedNamed
<1>4. Asked = Asked' + (IF r \in ByOperator THEN 1 ELSE 0) /\ Asked' \in Nat
  BY <1>2, <1>3, CountTail, PlacesFinite DEF TypeOK, Asked
<1> HIDE DEF r
<1>5. a \in Answers /\ (a \in ToOperator <=> r \in ByOperator)
  <2>1. CASE r = AllBackends
    <3>1. Outcomes(r) = {"items"}
      BY <2>1 DEF AllBackends, Outcomes
    <3>2. r \notin ByOperator
      BY <2>1 DEF ByOperator
    <3> QED
      BY <1>1, <3>1, <3>2 DEF Answers, ToOperator
  <2>2. CASE Named(r)
    <3>1. r.op \in Operations /\ r.op # "all"
      BY <2>2 DEF Named, Operations
    <3>2. r \in ByOperator
      BY <1>3, <3>1 DEF ByOperator, AllBackends
    <3>3. Outcomes(r) \subseteq ToOperator
      BY <3>1 DEF Outcomes, ToOperator
    <3> QED
      BY <1>1, <3>2, <3>3 DEF ToOperator, Answers
  <2> QED
    BY <1>3, <2>1, <2>2
<1>6. Answered' = Answered + (IF a \in ToOperator THEN 1 ELSE 0)
  BY <1>1, <1>5, CountAppend DEF TypeOK, Answered
<1>7. Waiting' = Waiting
  BY <1>2 DEF Waiting
<1>8. Waiting' + Asked' + Answered' = Waiting + Asked + Answered
  BY <1>4, <1>5, <1>6, <1>7, CountTypes
<1>9. AskedNamed'
  BY <1>2, <1>3 DEF TypeOK, PendingInv, ReqsNamed, AskedNamed, Named
<1> QED
  BY <1>2, <1>8, <1>9 DEF PendingInv, ReqsNamed, AskedNamed, Named, Gone

LEMMA StrayPending ==
    ASSUME TypeOK, PendingInv, Stray
    PROVE  PendingInv'
<1>1. toClient' = Append(toClient, "stray")
      /\ UNCHANGED <<ui, reqs, toServer, pending, pendingOn, refused, fetch>>
  BY DEF Stray, uiVars, fetchVars
<1>2. "stray" \in Answers /\ "stray" \notin ToOperator
  BY DEF Answers, ToOperator
<1>3. Answered' = Answered + 0
  BY <1>1, <1>2, CountAppend DEF TypeOK, Answered
<1>4. Answered' = Answered /\ Waiting' = Waiting /\ Asked' = Asked
  BY <1>1, <1>3, CountTypes DEF Waiting, Asked
<1> QED
  BY <1>1, <1>4 DEF PendingInv, ReqsNamed, AskedNamed, Named, Gone

LEMMA PendingStep == TypeInv /\ PendingInv /\ [Next]_vars => PendingInv'
<1> SUFFICES ASSUME TypeOK, PendingInv, [Next]_vars PROVE PendingInv'
  BY DEF TypeInv
<1>0. {"select", "draw", "last", "quit", "failed"} \cap Operations = {}
  BY DEF Operations
<1>1. CASE FetchError \/ ReadUndecoded
  BY <1>1, GonePending DEF FetchError, ReadUndecoded, RunLoopFails, uiVars, Gone
<1>2. CASE SelectNext \/ SelectPrev \/ InputFails \/ \E next \in {"last", "draw"} : Key(next)
  BY <1>0, <1>2, SameRequests
  DEF SelectNext, SelectPrev, Select, InputFails, Key, uiVars, wireVars, fetchVars, Gone
<1>3. CASE TakeNote \/ Disconnected \/ AppClose \/ Draw
  BY <1>0, <1>3, SameRequests
  DEF TakeNote, Disconnected, AppClose, Draw, uiVars, wireVars, fetchVars, Gone
<1>4. CASE Connected \/ ReportError
  BY <1>4, SameRequests DEF Connected, ReportError, uiVars, wireVars, Gone
<1>5. CASE ServerGone \/ UNCHANGED vars
  BY <1>5, SameRequests DEF ServerGone, vars, uiVars, wireVars, fetchVars, Gone
<1> QED
  BY <1>1, <1>2, <1>3, <1>4, <1>5, ActionPending, SendPending, SendRequestPending,
     PollPending, ReadPending, AnswerPending, StrayPending
  DEF Next, Keys, Main, Fetcher

\* The flag that the main thread and the fetcher share says exactly whether a
\* request of the operator is on its way, there is never more than one, and it is
\* for the backend that is crossed out, until an Error answer leaves it set for
\* good: backend_action sets it before it sends and run_loop clears it after it has
\* read, however many polls and stray messages come between.
THEOREM PendingIsExact == Spec => []PendingExact
<1>1. Init => PendingInv
  <2> SUFFICES ASSUME Init PROVE PendingInv
    OBVIOUS
  <2>1. /\ reqs = <<>> /\ toServer = <<>> /\ toClient = <<>> /\ ~pending /\ ~refused
        /\ ui \notin Operations
    BY DEF Init, Operations
  <2>2. Places(toServer, ByOperator) = {} /\ Places(toClient, ToOperator) = {}
    BY <2>1 DEF Places
  <2>3. Waiting = 0 /\ Asked = 0 /\ Answered = 0
    <3>1. Waiting = 0
      BY <2>1 DEF Waiting
    <3>2. Asked = 0 /\ Answered = 0
      BY <2>2, FS_EmptySet DEF Asked, Answered
    <3> QED
      BY <3>1, <3>2
  <2> QED
    BY <2>1, <2>3 DEF PendingInv, ReqsNamed, AskedNamed
<1>2. TypeInv /\ PendingInv => PendingExact
  <2> SUFFICES ASSUME TypeInv, PendingInv PROVE PendingExact
    OBVIOUS
  <2>1. \A i \in DOMAIN toServer : toServer[i] \in Requests
    BY DEF TypeInv, TypeOK
  <2>2. Places(toServer, ByOperator) = {i \in DOMAIN toServer : toServer[i] # AllBackends}
    BY <2>1 DEF Places, ByOperator
  <2>3. Outstanding = Waiting + Asked + Answered
    BY <2>2 DEF Outstanding, Waiting, Asked, Answered, Places, ToOperator
  <2>4. \A x \in ToSet(reqs) \cup (ToSet(toServer) \ {AllBackends}) : x.id = pendingOn
    BY DEF ToSet, PendingInv, ReqsNamed, AskedNamed, Named
  <2> QED
    BY <2>3, <2>4 DEF PendingInv, PendingExact, Gone
<1> QED
  BY <1>1, <1>2, PendingStep, TypeInvariance, PTL DEF Spec

=============================================================================
