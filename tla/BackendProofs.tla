--------------------------- MODULE BackendProofs ---------------------------
(***************************************************************************)
(* Proofs about Backend, for any number of connections, reconnecting tasks *)
(* and operators, any max_retries and any number of requests.              *)
(*                                                                         *)
(* The inductive invariant joins the four facts the properties rest on:    *)
(* who holds a read guard (GuardsExact), which token the work in flight    *)
(* cloned (TokenCoherent), who set the flag (RetryFlagOwned) and who holds *)
(* the client's mutex (MutexDialling).  GuardsExact carries the others:    *)
(* the token changes only in an exclusive section, which needs readers to  *)
(* be empty, and every task whose work depends on the token holds a guard. *)
(***************************************************************************)
EXTENDS Backend, TLAPS

\* The client's mutex is held across an await only in new_connection, which is
\* entered from NotConnected and left by setting the state.
MutexDialling ==
    mutex # NoTask => pc[mutex] = "dial" /\ inner = "NotConnected"

IndInv ==
    /\ TypeOK
    /\ GuardsExact
    /\ TokenCoherent
    /\ RetryFlagOwned
    /\ MutexDialling

(***************************************************************************)
(* Lemmas about the pieces actions are made of                             *)
(***************************************************************************)

\* Serving the head of the lock's queue leaves a queue of tasks.
LEMMA DequeueType ==
    ASSUME queue \in Seq(Tasks), Dequeue
    PROVE  queue' \in Seq(Tasks)
BY DEF Dequeue

\* A task that moves to a point of its own function keeps PCTypeOK.
LEMMA MoveType ==
    ASSUME PCTypeOK, NEW t \in Tasks, NEW p, Goto(t, p),
           t \in Conns => p \in ConnPC,
           t \in Retriers => p \in RetryPC,
           t \in Operators => p \in OperatorPC
    PROVE  PCTypeOK'
BY DEF PCTypeOK, Goto, Tasks, Jobs

\* So does a task that also spawns a retry_forever.
LEMMA SpawnType ==
    ASSUME PCTypeOK, NEW t \in Conns \cup Operators, SpawnAndGoto(t, "idle")
    PROVE  PCTypeOK'
<1>1. PICK r \in Retriers : pc' = [pc EXCEPT ![t] = "idle", ![r] = "cfg"]
  BY DEF SpawnAndGoto
<1>2. r # t /\ t \notin Retriers
  BY TasksAssumption DEF Jobs
<1> QED
  BY <1>1, <1>2, TasksAssumption
  DEF PCTypeOK, Tasks, Jobs, ConnPC, RetryPC, OperatorPC, TryPC

\* The count of a retry_forever's rounds is a count wherever the task goes.
LEMMA TriesType ==
    ASSUME tries \in [Retriers -> Nat], NEW r \in Retriers, NEW p, RetryEnds(r, p)
    PROVE  tries' \in [Retriers -> Nat]
BY DEF RetryEnds

\* A protocol is switched to a protocol.
LEMMA OtherProtocolType == OtherProtocol \in Protocol
<1>1. \E p \in Protocol : p # protocol.file
  BY DEF Protocol
<1> QED
  BY <1>1 DEF OtherProtocol

\* Nobody is inside a section that keeps a read guard while an exclusive
\* section runs.
LEMMA WriteQuiet ==
    ASSUME GuardsExact, NEW t, CanWrite(t)
    PROVE  \A u \in Tasks : pc[u] \notin GuardPC
BY DEF GuardsExact, CanWrite


\* The steps of try_connect keep the invariant.
LEMMA TryInductive ==
    ASSUME IndInv, NEW t \in Jobs,
           NewStream(t) \/ Dialled(t) \/ OpenFailed(t) \/ TryCancelled(t)
    PROVE  IndInv'
<1> USE TasksAssumption DEF IndInv, TypeOK, PCTypeOK, Jobs, Tasks, TryPC
<1>1. CASE NewStream(t)
  <2> USE <1>1 DEF NewStream, StreamPoisoned, StreamReady, StreamDial, Goto, lockVars,
          clientVars, backendVars
  <2>1. TypeOK'
    <3>1. PCTypeOK'
      BY MoveType DEF ConnPC, RetryPC
    <3> QED
      BY <3>1 DEF ClientState
  <2>2. GuardsExact'
    BY DEF GuardsExact, GuardPC
  <2>3. TokenCoherent'
    BY DEF TokenCoherent, JobPC
  <2>4. RetryFlagOwned'
    BY DEF RetryFlagOwned, AttemptPC
  <2>5. MutexDialling'
    BY DEF MutexDialling
  <2> QED
    BY <2>1, <2>2, <2>3, <2>4, <2>5
<1>2. CASE Dialled(t)
  <2> USE <1>2 DEF Dialled, DialOk, DialErr, Goto, lockVars, backendVars
  <2>1. TypeOK'
    <3>1. PCTypeOK'
      BY MoveType DEF ConnPC, RetryPC
    <3> QED
      BY <3>1 DEF ClientState
  <2>2. GuardsExact'
    BY DEF GuardsExact, GuardPC
  <2>3. TokenCoherent'
    BY DEF TokenCoherent, JobPC
  <2>4. RetryFlagOwned'
    BY DEF RetryFlagOwned, AttemptPC
  <2>5. MutexDialling'
    BY DEF MutexDialling
  <2> QED
    BY <2>1, <2>2, <2>3, <2>4, <2>5
<1>3. CASE OpenFailed(t)
  <2> USE <1>3 DEF OpenFailed, Goto, lockVars, clientVars, backendVars
  <2>1. TypeOK'
    BY DEF ConnPC, RetryPC, OperatorPC
  <2>2. GuardsExact'
    BY DEF GuardsExact, GuardPC
  <2>3. TokenCoherent'
    BY DEF TokenCoherent, JobPC
  <2>4. RetryFlagOwned'
    BY DEF RetryFlagOwned, AttemptPC
  <2>5. MutexDialling'
    BY DEF MutexDialling
  <2> QED
    BY <2>1, <2>2, <2>3, <2>4, <2>5
<1>4. CASE TryCancelled(t)
  <2> USE <1>4 DEF TryCancelled, DropStream, Goto, lockVars, backendVars
  <2>1. TypeOK'
    BY DEF ConnPC, RetryPC, OperatorPC
  <2>2. GuardsExact'
    BY DEF GuardsExact, GuardPC
  <2>3. TokenCoherent'
    BY DEF TokenCoherent, JobPC
  <2>4. RetryFlagOwned'
    BY DEF RetryFlagOwned, AttemptPC
  <2>5. MutexDialling'
    BY DEF MutexDialling
  <2> QED
    BY <2>1, <2>2, <2>3, <2>4, <2>5
<1> QED
  BY <1>1, <1>2, <1>3, <1>4

\* Queueing for the lock keeps the invariant.
LEMMA WaitInductive ==
    ASSUME IndInv, NEW t \in Tasks, WaitLock(t)
    PROVE  IndInv'
<1>1. TypeOK'
  BY DEF IndInv, TypeOK, PCTypeOK, WaitLock, Enqueue, clientVars, backendVars, taskVars
<1>2. UNCHANGED <<readers, clientVars, backendVars, taskVars>>
  BY DEF WaitLock, Enqueue
<1> QED
  BY <1>1, <1>2
  DEF IndInv, GuardsExact, TokenCoherent, RetryFlagOwned, MutexDialling,
      clientVars, backendVars, taskVars

\* The steps of handle_connection keep the invariant.
LEMMA ConnInductive ==
    ASSUME IndInv, NEW c \in Conns,
           ConnStep(c) \/ ConnEvent(c)
    PROVE  IndInv'
<1> USE TasksAssumption DEF IndInv, TypeOK, PCTypeOK, Jobs, Tasks, TryPC
<1>1. CASE BeginConnect(c)
  <2> USE <1>1 DEF BeginConnect, Read, CanRead, Dequeue, Goto, clientVars, backendVars
  <2>1. TypeOK'
    <3>1. PCTypeOK'
      BY MoveType DEF ConnPC
    <3>2. queue' \in Seq(Tasks)
      BY DequeueType
    <3> QED
      BY <3>1, <3>2
  <2>2. GuardsExact'
    BY DEF GuardsExact, GuardPC
  <2>3. TokenCoherent'
    BY DEF TokenCoherent, JobPC
  <2>4. RetryFlagOwned'
    BY DEF RetryFlagOwned, AttemptPC
  <2>5. MutexDialling'
    BY DEF MutexDialling
  <2> QED
    BY <2>1, <2>2, <2>3, <2>4, <2>5
<1>2. CASE ConnectFailed(c)
  <2> USE <1>2 DEF ConnectFailed, Release, clientVars
  <2>1. TypeOK'
    <3>1. PCTypeOK'
      BY SpawnType
    <3> QED
      BY <3>1 DEF Status
  <2>2. GuardsExact'
    BY DEF GuardsExact, GuardPC, SpawnAndGoto
  <2>3. TokenCoherent'
    BY DEF TokenCoherent, JobPC, SpawnAndGoto
  <2>4. RetryFlagOwned'
    BY DEF RetryFlagOwned, AttemptPC, SpawnAndGoto
  <2>5. MutexDialling'
    BY DEF MutexDialling, SpawnAndGoto
  <2> QED
    BY <2>1, <2>2, <2>3, <2>4, <2>5
<1>3. CASE BeginTransfer(c)
  <2> USE <1>3 DEF BeginTransfer, Read, CanRead, Dequeue, Goto, clientVars, backendVars
  <2>1. TypeOK'
    <3>1. PCTypeOK'
      BY MoveType DEF ConnPC
    <3>2. queue' \in Seq(Tasks)
      BY DequeueType
    <3> QED
      BY <3>1, <3>2
  <2>2. GuardsExact'
    BY DEF GuardsExact, GuardPC
  <2>3. TokenCoherent'
    BY DEF TokenCoherent, JobPC
  <2>4. RetryFlagOwned'
    BY DEF RetryFlagOwned, AttemptPC
  <2>5. MutexDialling'
    BY DEF MutexDialling
  <2> QED
    BY <2>1, <2>2, <2>3, <2>4, <2>5
<1>4. CASE TransferCancelled(c)
  <2> USE <1>4 DEF TransferCancelled, EndTransfer, Release, Goto, clientVars, backendVars
  <2>1. TypeOK'
    BY DEF ConnPC, RetryPC, OperatorPC
  <2>2. GuardsExact'
    BY DEF GuardsExact, GuardPC
  <2>3. TokenCoherent'
    BY DEF TokenCoherent, JobPC
  <2>4. RetryFlagOwned'
    BY DEF RetryFlagOwned, AttemptPC
  <2>5. MutexDialling'
    BY DEF MutexDialling
  <2> QED
    BY <2>1, <2>2, <2>3, <2>4, <2>5
<1>5. CASE Select(c)
  <2> USE <1>5 DEF Select, Goto, lockVars, clientVars, backendVars
  <2>1. TypeOK'
    BY DEF ConnPC, RetryPC, OperatorPC
  <2>2. GuardsExact'
    BY DEF GuardsExact, GuardPC
  <2>3. TokenCoherent'
    BY DEF TokenCoherent, JobPC
  <2>4. RetryFlagOwned'
    BY DEF RetryFlagOwned, AttemptPC
  <2>5. MutexDialling'
    BY DEF MutexDialling
  <2> QED
    BY <2>1, <2>2, <2>3, <2>4, <2>5
<1>6. CASE StreamOpened(c)
  <2> USE <1>6 DEF StreamOpened, Release, Goto, clientVars, backendVars
  <2>1. TypeOK'
    BY DEF ConnPC, RetryPC, OperatorPC
  <2>2. GuardsExact'
    BY DEF GuardsExact, GuardPC
  <2>3. TokenCoherent'
    BY DEF TokenCoherent, JobPC
  <2>4. RetryFlagOwned'
    BY DEF RetryFlagOwned, AttemptPC
  <2>5. MutexDialling'
    BY DEF MutexDialling
  <2> QED
    BY <2>1, <2>2, <2>3, <2>4, <2>5
<1>7. CASE TransferDone(c)
  <2> USE <1>7 DEF TransferDone, EndTransfer, Release, Goto, clientVars, backendVars
  <2>1. TypeOK'
    BY DEF ConnPC, RetryPC, OperatorPC
  <2>2. GuardsExact'
    BY DEF GuardsExact, GuardPC
  <2>3. TokenCoherent'
    BY DEF TokenCoherent, JobPC
  <2>4. RetryFlagOwned'
    BY DEF RetryFlagOwned, AttemptPC
  <2>5. MutexDialling'
    BY DEF MutexDialling
  <2> QED
    BY <2>1, <2>2, <2>3, <2>4, <2>5
<1> QED
  BY <1>1, <1>2, <1>3, <1>4, <1>5, <1>6, <1>7, TryInductive, WaitInductive
  DEF ConnStep, ConnEvent

\* The steps of retry_forever keep the invariant.
LEMMA RetryInductive ==
    ASSUME IndInv, NEW r \in Retriers,
           RetryStep(r) \/ RetryEvent(r)
    PROVE  IndInv'
<1> USE TasksAssumption DEF IndInv, TypeOK, PCTypeOK, Jobs, Tasks, TryPC
<1>1. CASE RetryConfig(r)
  <2> USE <1>1 DEF RetryConfig, ReadOnce, CanRead, Dequeue, Goto, clientVars, backendVars
  <2>1. TypeOK'
    <3>1. PCTypeOK'
      BY MoveType DEF RetryPC
    <3>2. queue' \in Seq(Tasks)
      BY DequeueType
    <3> QED
      BY <3>1, <3>2
  <2>2. GuardsExact'
    BY DEF GuardsExact, GuardPC
  <2>3. TokenCoherent'
    BY DEF TokenCoherent, JobPC
  <2>4. RetryFlagOwned'
    BY DEF RetryFlagOwned, AttemptPC
  <2>5. MutexDialling'
    BY DEF MutexDialling
  <2> QED
    BY <2>1, <2>2, <2>3, <2>4, <2>5
<1>2. CASE RetryTick(r)
  <2> USE <1>2 DEF RetryTick, ReadOnce, Read, CanRead, Dequeue, Goto, clientVars,
          backendVars
  <2>1. TypeOK'
    <3>1. PCTypeOK'
      BY MoveType DEF RetryPC, RetryEnds
    <3>2. queue' \in Seq(Tasks)
      BY DequeueType
    <3>3. tries' \in [Retriers -> Nat]
      BY TriesType
    <3>4. retrying' \in BOOLEAN
      OBVIOUS
    <3> QED
      BY <3>1, <3>2, <3>3, <3>4
  <2>2. GuardsExact'
    BY DEF GuardsExact, GuardPC, RetryEnds
  <2>3. TokenCoherent'
    BY DEF TokenCoherent, JobPC, RetryEnds
  <2>4. RetryFlagOwned'
    BY DEF RetryFlagOwned, AttemptPC, RetryEnds
  <2>5. MutexDialling'
    BY DEF MutexDialling, RetryEnds
  <2> QED
    BY <2>1, <2>2, <2>3, <2>4, <2>5
<1>3. CASE RetryLoad(r)
  <2> USE <1>3 DEF RetryLoad, Release, Goto, lockVars, clientVars, backendVars
  <2>1. TypeOK'
    <3>1. PCTypeOK'
      BY MoveType DEF RetryPC, RetryEnds
    <3>2. tries' \in [Retriers -> Nat]
      BY TriesType
    <3>3. retrying' \in BOOLEAN
      OBVIOUS
    <3> QED
      BY <3>1, <3>2, <3>3
  <2>2. GuardsExact'
    BY DEF GuardsExact, GuardPC, RetryEnds
  <2>3. TokenCoherent'
    BY DEF TokenCoherent, JobPC, RetryEnds
  <2>4. RetryFlagOwned'
    BY DEF RetryFlagOwned, AttemptPC, RetryEnds
  <2>5. MutexDialling'
    BY DEF MutexDialling, RetryEnds
  <2> QED
    BY <2>1, <2>2, <2>3, <2>4, <2>5
<1>4. CASE RetryStore(r)
  <2> USE <1>4 DEF RetryStore, Goto, lockVars, clientVars
  <2>1. TypeOK'
    BY DEF ConnPC, RetryPC, OperatorPC
  <2>2. GuardsExact'
    BY DEF GuardsExact, GuardPC
  <2>3. TokenCoherent'
    BY DEF TokenCoherent, JobPC
  <2>4. RetryFlagOwned'
    BY DEF RetryFlagOwned, AttemptPC
  <2>5. MutexDialling'
    BY DEF MutexDialling
  <2> QED
    BY <2>1, <2>2, <2>3, <2>4, <2>5
<1>5. CASE RetryReset(r)
  <2> USE <1>5 DEF RetryReset, ResetClient, Goto, lockVars, backendVars
  <2>1. TypeOK'
    BY DEF ConnPC, RetryPC, OperatorPC, ClientState
  <2>2. GuardsExact'
    BY DEF GuardsExact, GuardPC
  <2>3. TokenCoherent'
    BY DEF TokenCoherent, JobPC
  <2>4. RetryFlagOwned'
    BY DEF RetryFlagOwned, AttemptPC
  <2>5. MutexDialling'
    BY DEF MutexDialling
  <2> QED
    BY <2>1, <2>2, <2>3, <2>4, <2>5
<1>6. CASE RetryUp(r)
  <2> USE <1>6 DEF RetryUp, Goto, lockVars, clientVars
  <2>1. TypeOK'
    BY DEF ConnPC, RetryPC, OperatorPC, Status
  <2>2. GuardsExact'
    BY DEF GuardsExact, GuardPC
  <2>3. TokenCoherent'
    BY DEF TokenCoherent, JobPC
  <2>4. RetryFlagOwned'
    BY DEF RetryFlagOwned, AttemptPC
  <2>5. MutexDialling'
    BY DEF MutexDialling
  <2> QED
    BY <2>1, <2>2, <2>3, <2>4, <2>5
<1>7. CASE RetrySucceeded(r)
  <2> USE <1>7 DEF RetrySucceeded, Release, RetryEnds, Goto, clientVars
  <2>1. TypeOK'
    BY DEF ConnPC, RetryPC, OperatorPC
  <2>2. GuardsExact'
    BY DEF GuardsExact, GuardPC
  <2>3. TokenCoherent'
    BY DEF TokenCoherent, JobPC
  <2>4. RetryFlagOwned'
    BY DEF RetryFlagOwned, AttemptPC
  <2>5. MutexDialling'
    BY DEF MutexDialling
  <2> QED
    BY <2>1, <2>2, <2>3, <2>4, <2>5
<1>8. CASE RetryDown(r)
  <2> USE <1>8 DEF RetryDown, Goto, lockVars, clientVars
  <2>1. TypeOK'
    BY DEF ConnPC, RetryPC, OperatorPC, Status
  <2>2. GuardsExact'
    BY DEF GuardsExact, GuardPC
  <2>3. TokenCoherent'
    BY DEF TokenCoherent, JobPC
  <2>4. RetryFlagOwned'
    BY DEF RetryFlagOwned, AttemptPC
  <2>5. MutexDialling'
    BY DEF MutexDialling
  <2> QED
    BY <2>1, <2>2, <2>3, <2>4, <2>5
<1>9. CASE RetryFailed(r)
  <2> USE <1>9 DEF RetryFailed, Release, RetryEnds, Goto, clientVars
  <2>1. TypeOK'
    <3>1. PCTypeOK'
      BY MoveType DEF RetryPC
    <3>2. tries' \in [Retriers -> Nat]
      OBVIOUS
    <3>3. retrying' \in BOOLEAN
      OBVIOUS
    <3> QED
      BY <3>1, <3>2, <3>3
  <2>2. GuardsExact'
    BY DEF GuardsExact, GuardPC
  <2>3. TokenCoherent'
    BY DEF TokenCoherent, JobPC
  <2>4. RetryFlagOwned'
    BY DEF RetryFlagOwned, AttemptPC
  <2>5. MutexDialling'
    BY DEF MutexDialling
  <2> QED
    BY <2>1, <2>2, <2>3, <2>4, <2>5
<1>10. CASE RetryOpened(r)
  <2> USE <1>10 DEF RetryOpened, Goto, lockVars, clientVars, backendVars
  <2>1. TypeOK'
    BY DEF ConnPC, RetryPC, OperatorPC
  <2>2. GuardsExact'
    BY DEF GuardsExact, GuardPC
  <2>3. TokenCoherent'
    BY DEF TokenCoherent, JobPC
  <2>4. RetryFlagOwned'
    BY DEF RetryFlagOwned, AttemptPC
  <2>5. MutexDialling'
    BY DEF MutexDialling
  <2> QED
    BY <2>1, <2>2, <2>3, <2>4, <2>5
<1> QED
  BY <1>1, <1>2, <1>3, <1>4, <1>5, <1>6, <1>7, <1>8, <1>9, <1>10, TryInductive,
     WaitInductive
  DEF RetryStep, RetryEvent

\* The steps of the metric API's requests keep the invariant.
LEMMA OperatorInductive ==
    ASSUME IndInv, NEW o \in Operators,
           OperatorStep(o) \/ OperatorEvent(o)
    PROVE  IndInv'
<1> USE TasksAssumption DEF IndInv, TypeOK, PCTypeOK, Jobs, Tasks, TryPC
<1>1. CASE SwitchCancel(o)
  <2> USE <1>1 DEF SwitchCancel, ReadOnce, CanRead, Dequeue, CancelToken, Goto, clientVars
  <2>1. TypeOK'
    <3>1. PCTypeOK'
      BY MoveType DEF OperatorPC
    <3>2. queue' \in Seq(Tasks)
      BY DequeueType
    <3> QED
      BY <3>1, <3>2
  <2>2. GuardsExact'
    BY DEF GuardsExact, GuardPC
  <2>3. TokenCoherent'
    BY DEF TokenCoherent, JobPC
  <2>4. RetryFlagOwned'
    BY DEF RetryFlagOwned, AttemptPC
  <2>5. MutexDialling'
    BY DEF MutexDialling
  <2> QED
    BY <2>1, <2>2, <2>3, <2>4, <2>5
<1>2. CASE SwitchLook(o)
  <2> USE <1>2 DEF SwitchLook, Read, CanRead, Dequeue, Goto, clientVars, backendVars
  <2>1. TypeOK'
    <3>1. PCTypeOK'
      BY MoveType DEF OperatorPC
    <3>2. queue' \in Seq(Tasks)
      BY DequeueType
    <3> QED
      BY <3>1, <3>2
  <2>2. GuardsExact'
    BY DEF GuardsExact, GuardPC
  <2>3. TokenCoherent'
    BY DEF TokenCoherent, JobPC
  <2>4. RetryFlagOwned'
    BY DEF RetryFlagOwned, AttemptPC
  <2>5. MutexDialling'
    BY DEF MutexDialling
  <2> QED
    BY <2>1, <2>2, <2>3, <2>4, <2>5
<1>3. CASE SwitchToUnknown(o)
  <2> USE <1>3 DEF SwitchToUnknown, Release, Goto, clientVars
  <2>1. TypeOK'
    BY DEF ConnPC, RetryPC, OperatorPC, Status
  <2>2. GuardsExact'
    BY DEF GuardsExact, GuardPC
  <2>3. TokenCoherent'
    BY DEF TokenCoherent, JobPC
  <2>4. RetryFlagOwned'
    BY DEF RetryFlagOwned, AttemptPC
  <2>5. MutexDialling'
    BY DEF MutexDialling
  <2> QED
    BY <2>1, <2>2, <2>3, <2>4, <2>5
<1>4. CASE SwitchRenew(o)
  <2> USE <1>4 DEF SwitchRenew, Write, CanWrite, Dequeue, RenewToken, clientVars
  <2>1. TypeOK'
    <3>1. PCTypeOK'
      BY SpawnType
    <3>2. queue' \in Seq(Tasks)
      BY DequeueType
    <3>3. retrying' \in BOOLEAN
      OBVIOUS
    <3> QED
      BY <3>1, <3>2, <3>3
  <2>2. GuardsExact'
    BY DEF GuardsExact, GuardPC, SpawnAndGoto
  <2>3. TokenCoherent'
    BY DEF GuardsExact, GuardPC, TokenCoherent, JobPC, SpawnAndGoto
  <2>4. RetryFlagOwned'
    BY DEF RetryFlagOwned, AttemptPC, SpawnAndGoto
  <2>5. MutexDialling'
    BY DEF MutexDialling, SpawnAndGoto
  <2> QED
    BY <2>1, <2>2, <2>3, <2>4, <2>5
<1>5. CASE SwitchToForceClosed(o)
  <2> USE <1>5 DEF SwitchToForceClosed, Release, Goto, clientVars
  <2>1. TypeOK'
    BY DEF ConnPC, RetryPC, OperatorPC, Status
  <2>2. GuardsExact'
    BY DEF GuardsExact, GuardPC
  <2>3. TokenCoherent'
    BY DEF TokenCoherent, JobPC
  <2>4. RetryFlagOwned'
    BY DEF RetryFlagOwned, AttemptPC
  <2>5. MutexDialling'
    BY DEF MutexDialling
  <2> QED
    BY <2>1, <2>2, <2>3, <2>4, <2>5
<1>6. CASE ResetCancel(o)
  <2> USE <1>6 DEF ResetCancel, Read, CanRead, Dequeue, CancelToken, Goto, clientVars
  <2>1. TypeOK'
    <3>1. PCTypeOK'
      BY MoveType DEF OperatorPC
    <3>2. queue' \in Seq(Tasks)
      BY DequeueType
    <3> QED
      BY <3>1, <3>2
  <2>2. GuardsExact'
    BY DEF GuardsExact, GuardPC
  <2>3. TokenCoherent'
    BY DEF TokenCoherent, JobPC
  <2>4. RetryFlagOwned'
    BY DEF RetryFlagOwned, AttemptPC
  <2>5. MutexDialling'
    BY DEF MutexDialling
  <2> QED
    BY <2>1, <2>2, <2>3, <2>4, <2>5
<1>7. CASE ResetDo(o)
  <2> USE <1>7 DEF ResetDo, ResetClient, Release, Goto, backendVars
  <2>1. TypeOK'
    BY DEF ConnPC, RetryPC, OperatorPC, ClientState
  <2>2. GuardsExact'
    BY DEF GuardsExact, GuardPC
  <2>3. TokenCoherent'
    BY DEF TokenCoherent, JobPC
  <2>4. RetryFlagOwned'
    BY DEF RetryFlagOwned, AttemptPC
  <2>5. MutexDialling'
    BY DEF MutexDialling
  <2> QED
    BY <2>1, <2>2, <2>3, <2>4, <2>5
<1>8. CASE ResetRenew(o)
  <2> USE <1>8 DEF ResetRenew, Write, CanWrite, Dequeue, RenewToken, Goto, clientVars
  <2>1. TypeOK'
    <3>1. PCTypeOK'
      BY MoveType DEF OperatorPC
    <3>2. queue' \in Seq(Tasks)
      BY DequeueType
    <3>3. retrying' \in BOOLEAN
      OBVIOUS
    <3> QED
      BY <3>1, <3>2, <3>3
  <2>2. GuardsExact'
    BY DEF GuardsExact, GuardPC
  <2>3. TokenCoherent'
    BY DEF GuardsExact, GuardPC, TokenCoherent, JobPC
  <2>4. RetryFlagOwned'
    BY DEF RetryFlagOwned, AttemptPC
  <2>5. MutexDialling'
    BY DEF MutexDialling
  <2> QED
    BY <2>1, <2>2, <2>3, <2>4, <2>5
<1>9. CASE ProtocolCancel(o)
  <2> USE <1>9 DEF ProtocolCancel, ReadOnce, CanRead, Dequeue, CancelToken, Goto,
          clientVars
  <2>1. TypeOK'
    <3>1. PCTypeOK'
      BY MoveType DEF OperatorPC
    <3>2. queue' \in Seq(Tasks)
      BY DequeueType
    <3> QED
      BY <3>1, <3>2
  <2>2. GuardsExact'
    BY DEF GuardsExact, GuardPC
  <2>3. TokenCoherent'
    BY DEF TokenCoherent, JobPC
  <2>4. RetryFlagOwned'
    BY DEF RetryFlagOwned, AttemptPC
  <2>5. MutexDialling'
    BY DEF MutexDialling
  <2> QED
    BY <2>1, <2>2, <2>3, <2>4, <2>5
<1>10. CASE ProtocolRebuilt(o)
  <2> USE <1>10 DEF ProtocolRebuilt, Write, CanWrite, Dequeue, RenewToken, Goto
  <2>1. TypeOK'
    <3>1. PCTypeOK'
      BY MoveType DEF OperatorPC
    <3>2. queue' \in Seq(Tasks)
      BY DequeueType
    <3>3. retrying' \in BOOLEAN
      OBVIOUS
    <3> QED
      BY <3>1, <3>2, <3>3, OtherProtocolType DEF ClientState
  <2>2. GuardsExact'
    BY DEF GuardsExact, GuardPC
  <2>3. TokenCoherent'
    BY DEF GuardsExact, GuardPC, TokenCoherent, JobPC
  <2>4. RetryFlagOwned'
    BY DEF RetryFlagOwned, AttemptPC
  <2>5. MutexDialling'
    BY DEF MutexDialling
  <2> QED
    BY <2>1, <2>2, <2>3, <2>4, <2>5
<1>11. CASE ProtocolBuildFailed(o)
  <2> USE <1>11 DEF ProtocolBuildFailed, Write, CanWrite, Dequeue, Goto, clientVars
  <2>1. TypeOK'
    <3>1. PCTypeOK'
      BY MoveType DEF OperatorPC
    <3>2. queue' \in Seq(Tasks)
      BY DequeueType
    <3> QED
      BY <3>1, <3>2, OtherProtocolType
  <2>2. GuardsExact'
    BY DEF GuardsExact, GuardPC
  <2>3. TokenCoherent'
    BY DEF TokenCoherent, JobPC
  <2>4. RetryFlagOwned'
    BY DEF RetryFlagOwned, AttemptPC
  <2>5. MutexDialling'
    BY DEF MutexDialling
  <2> QED
    BY <2>1, <2>2, <2>3, <2>4, <2>5
<1>12. CASE \E p \in {"sw1", "rs1", "pr1"} : Request(o, p)
  <2> PICK p \in {"sw1", "rs1", "pr1"} : Request(o, p)
    BY <1>12
  <2> USE DEF Request, Goto, lockVars, clientVars, backendVars
  <2>1. TypeOK'
    <3>1. PCTypeOK'
      BY MoveType DEF OperatorPC
    <3> QED
      BY <3>1
  <2>2. GuardsExact'
    BY DEF GuardsExact, GuardPC
  <2>3. TokenCoherent'
    BY DEF TokenCoherent, JobPC
  <2>4. RetryFlagOwned'
    BY DEF RetryFlagOwned, AttemptPC
  <2>5. MutexDialling'
    BY DEF MutexDialling
  <2> QED
    BY <2>1, <2>2, <2>3, <2>4, <2>5
<1> QED
  BY <1>1, <1>2, <1>3, <1>4, <1>5, <1>6, <1>7, <1>8, <1>9, <1>10, <1>11, <1>12,
     WaitInductive
  DEF OperatorStep, OperatorEvent, SwitchStatus, Reset, SwitchProtocol

\* The inductive invariant is one.
LEMMA Inductive == IndInv /\ [Next]_vars => IndInv'
<1> SUFFICES ASSUME IndInv, [Next]_vars
             PROVE  IndInv'
  OBVIOUS
<1>1. CASE \E c \in Conns : ConnStep(c) \/ ConnEvent(c)
  BY <1>1, ConnInductive
<1>2. CASE \E r \in Retriers : RetryStep(r) \/ RetryEvent(r)
  BY <1>2, RetryInductive
<1>3. CASE \E o \in Operators : OperatorStep(o) \/ OperatorEvent(o)
  BY <1>3, OperatorInductive
<1>4. CASE RemoteClosed
  BY <1>4
  DEF RemoteClosed, ConnFinished, IndInv, TypeOK, PCTypeOK, ClientState, GuardsExact,
      TokenCoherent, RetryFlagOwned, MutexDialling, lockVars, backendVars, taskVars
<1>5. CASE UNCHANGED vars
  BY <1>5
  DEF vars, IndInv, TypeOK, PCTypeOK, GuardsExact, TokenCoherent, RetryFlagOwned,
      MutexDialling, lockVars, clientVars, backendVars, taskVars
<1> QED
  BY <1>1, <1>2, <1>3, <1>4, <1>5 DEF Next, Quiet

\* Backend::new establishes it.
LEMMA InitIndInv == Init => IndInv
<1> SUFFICES ASSUME Init PROVE IndInv
  OBVIOUS
<1>1. TypeOK
  <2>1. PCTypeOK
    BY DEF Init, PCTypeOK, ConnPC, RetryPC, OperatorPC, Tasks, Jobs
  <2>2. protocol \in [file : Protocol, client : Protocol]
    BY BoundsAssumption DEF Init
  <2>3. queue \in Seq(Tasks) /\ readers \subseteq Tasks
    BY DEF Init, LockInit
  <2>4. retrying \in BOOLEAN /\ cancelled \in SUBSET Nat
    BY DEF Init
  <2> QED
    BY <2>1, <2>2, <2>3, <2>4, BoundsAssumption
    DEF Init, ClientInit, TypeOK, ClientState
<1>2. \A t \in Tasks : pc[t] = "idle"
  BY DEF Init
<1>3. GuardsExact
  BY <1>2 DEF Init, LockInit, GuardsExact, GuardPC, TryPC
<1>4. TokenCoherent
  BY <1>2 DEF TokenCoherent, JobPC, TryPC, Tasks
<1> QED
  BY <1>1, <1>3, <1>4
  DEF IndInv, Init, ClientInit, RetryFlagOwned, MutexDialling

(***************************************************************************)
(* The theorems                                                            *)
(***************************************************************************)

\* The inductive invariant holds in every reachable state.
THEOREM Invariance == Spec => []IndInv
<1>1. Init => IndInv
  BY InitIndInv
<1>2. IndInv /\ [Next]_vars => IndInv'
  BY Inductive
<1> QED
  BY <1>1, <1>2, PTL DEF Spec

\* Type correctness.
THEOREM TypeCorrect == Spec => []TypeOK
<1>1. IndInv => TypeOK
  BY DEF IndInv
<1> QED
  BY <1>1, Invariance, PTL

\* No task connects or carries a tunnel under a token the backend no longer
\* has: try_connect and transfer can always be cancelled.
THEOREM TokensCoherent == Spec => []TokenCoherent
<1>1. IndInv => TokenCoherent
  BY DEF IndInv
<1> QED
  BY <1>1, Invariance, PTL

\* The retrying flag is never left set by a retry_connect that is over.
THEOREM RetryFlagsOwned == Spec => []RetryFlagOwned
<1>1. IndInv => RetryFlagOwned
  BY DEF IndInv
<1> QED
  BY <1>1, Invariance, PTL

\* Read guards are held in the sections that keep one and nowhere else.
THEOREM GuardsAreExact == Spec => []GuardsExact
<1>1. IndInv => GuardsExact
  BY DEF IndInv
<1> QED
  BY <1>1, Invariance, PTL

\* Whoever holds the client's mutex is dialling under a token that an operator
\* can cancel.
THEOREM MutexOwnersStoppable == Spec => []MutexOwnerStoppable
<1>1. IndInv => MutexOwnerStoppable
  <2> SUFFICES ASSUME IndInv, mutex # NoTask
               PROVE  /\ pc[mutex] = "dial"
                      /\ inner = "NotConnected"
                      /\ mutex \in readers
                      /\ tok[mutex] = token
    BY DEF MutexOwnerStoppable
  <2>1. pc[mutex] = "dial" /\ inner = "NotConnected"
    BY DEF IndInv, MutexDialling
  <2>2. mutex \in Jobs /\ mutex \in Tasks
    BY DEF IndInv, TypeOK, Tasks
  <2>3. mutex \in readers
    BY <2>1, <2>2 DEF IndInv, GuardsExact, GuardPC, TryPC
  <2>4. tok[mutex] = token
    BY <2>1, <2>2 DEF IndInv, TokenCoherent, JobPC, TryPC
  <2> QED
    BY <2>1, <2>3, <2>4
<1> QED
  BY <1>1, Invariance, PTL

(***************************************************************************)
(* How the token changes                                                   *)
(***************************************************************************)

\* A step leaves the token alone, cancels it, or replaces it inside an
\* exclusive section.
TokenStep ==
    \/ UNCHANGED <<token, cancelled>>
    \/ token' = token /\ CancelToken
    \/ token' = token + 1 /\ cancelled' = cancelled /\ \E t \in Tasks : CanWrite(t)

\* Connections and reconnecting tasks never touch the token.
LEMMA JobsKeepToken ==
    ASSUME \/ \E c \in Conns : ConnStep(c) \/ ConnEvent(c)
           \/ \E r \in Retriers : RetryStep(r) \/ RetryEvent(r)
    PROVE  UNCHANGED <<token, cancelled>>
<1> USE DEF backendVars
<1>1. ASSUME NEW t, NewStream(t) \/ Dialled(t) \/ OpenFailed(t) \/ TryCancelled(t) \/ WaitLock(t)
      PROVE  UNCHANGED <<token, cancelled>>
  BY <1>1 DEF NewStream, Dialled, OpenFailed, TryCancelled, WaitLock
<1>2. ASSUME NEW c \in Conns, ConnStep(c) \/ ConnEvent(c)
      PROVE  UNCHANGED <<token, cancelled>>
  BY <1>1, <1>2
  DEF ConnStep, ConnEvent, BeginConnect, ConnectFailed, BeginTransfer, TransferCancelled,
      Select, StreamOpened, TransferDone, EndTransfer
<1>3. ASSUME NEW r \in Retriers, RetryStep(r) \/ RetryEvent(r)
      PROVE  UNCHANGED <<token, cancelled>>
  BY <1>1, <1>3
  DEF RetryStep, RetryEvent, RetryConfig, RetryTick, RetryLoad, RetryStore, RetryReset,
      RetryUp, RetrySucceeded, RetryDown, RetryFailed, RetryOpened
<1> QED
  BY <1>2, <1>3

\* An operator's step is a TokenStep.
LEMMA OperatorTokenStep ==
    ASSUME NEW o \in Operators, OperatorStep(o) \/ OperatorEvent(o)
    PROVE  TokenStep
<1>1. CASE SwitchRenew(o) \/ ResetRenew(o) \/ ProtocolRebuilt(o)
  BY <1>1 DEF SwitchRenew, ResetRenew, ProtocolRebuilt, RenewToken, Write, TokenStep, Tasks
<1>2. CASE SwitchCancel(o) \/ ResetCancel(o) \/ ProtocolCancel(o)
  BY <1>2 DEF SwitchCancel, ResetCancel, ProtocolCancel, TokenStep
<1>3. CASE \/ SwitchLook(o) \/ SwitchToUnknown(o) \/ SwitchToForceClosed(o) \/ ResetDo(o)
           \/ ProtocolBuildFailed(o) \/ WaitLock(o) \/ OperatorEvent(o)
  BY <1>3
  DEF SwitchLook, SwitchToUnknown, SwitchToForceClosed, ResetDo, ProtocolBuildFailed,
      WaitLock, OperatorEvent, SwitchStatus, Reset, SwitchProtocol, Request,
      backendVars, TokenStep
<1> QED
  BY <1>1, <1>2, <1>3 DEF OperatorStep

\* So is every step.
LEMMA TokenSteps == [Next]_vars => TokenStep
<1> SUFFICES ASSUME [Next]_vars PROVE TokenStep
  OBVIOUS
<1>1. CASE RemoteClosed \/ UNCHANGED vars
  BY <1>1 DEF RemoteClosed, vars, backendVars, TokenStep
<1> QED
  BY <1>1, JobsKeepToken, OperatorTokenStep DEF Next, Quiet, TokenStep

\* The token is renewed only between jobs, with the retrying flag already
\* clear: renew_cancellation_token can strand nobody and reset nothing.
THEOREM RenewIsQuiet == Spec => RenewQuiet
<1>1. ASSUME IndInv, [Next]_vars, token' # token
      PROVE  (\A t \in Jobs : pc[t] \notin JobPC \cup AttemptPC) /\ ~retrying
  <2>1. \E t \in Tasks : CanWrite(t)
    BY <1>1, TokenSteps DEF TokenStep
  <2>2. \A u \in Tasks : pc[u] \notin GuardPC
    BY <1>1, <2>1, WriteQuiet DEF IndInv
  <2>3. JobPC \cup AttemptPC \subseteq GuardPC
    BY DEF JobPC, AttemptPC, GuardPC, TryPC
  <2>4. \A t \in Jobs : pc[t] \notin JobPC \cup AttemptPC
    BY <2>2, <2>3 DEF Tasks
  <2>5. ~retrying
    BY <1>1, <2>4 DEF IndInv, RetryFlagOwned, Jobs
  <2> QED
    BY <2>4, <2>5
<1>2. IndInv /\ [Next]_vars =>
        [token' # token => /\ \A t \in Jobs : pc[t] \notin JobPC \cup AttemptPC
                           /\ ~retrying]_vars
  BY <1>1
<1> QED
  BY <1>2, Invariance, PTL DEF Spec, RenewQuiet

(***************************************************************************)
(* How the client changes                                                  *)
(***************************************************************************)

\* A step changes the client by one of the client's own operations, which the
\* owner of the mutex or somebody who finds it free performs, or replaces it
\* inside an exclusive section.
ClientStep ==
    \/ UNCHANGED inner
    \/ mutex = NoTask /\ inner \in {"NotConnected", "Dead"} /\ inner' = "NotConnected"
    \/ mutex # NoTask /\ inner' \in {"Live", "Poisoned"} /\ mutex' = NoTask
    \/ ResetClient
    \/ ConnFinished
    \/ inner' = "NotConnected" /\ mutex' = mutex /\ \E t \in Tasks : CanWrite(t)

\* Connections and reconnecting tasks dial, drop and reset.
LEMMA JobsClientStep ==
    ASSUME \/ \E c \in Conns : ConnStep(c) \/ ConnEvent(c)
           \/ \E r \in Retriers : RetryStep(r) \/ RetryEvent(r)
    PROVE  ClientStep
<1> USE DEF clientVars
<1>1. ASSUME NEW t \in Jobs,
             NewStream(t) \/ Dialled(t) \/ OpenFailed(t) \/ TryCancelled(t) \/ WaitLock(t)
      PROVE  ClientStep
  <2>1. t # NoTask
    BY TasksAssumption DEF Tasks
  <2> QED
    BY <1>1, <2>1
    DEF NewStream, StreamPoisoned, StreamReady, StreamDial, Dialled, DialOk, DialErr,
        OpenFailed, TryCancelled, DropStream, WaitLock, ClientStep
<1>2. ASSUME NEW c \in Conns, ConnStep(c) \/ ConnEvent(c)
      PROVE  ClientStep
  <2>1. c \in Jobs
    BY DEF Jobs
  <2> QED
    BY <1>1, <1>2, <2>1
    DEF ConnStep, ConnEvent, BeginConnect, ConnectFailed, BeginTransfer, TransferCancelled,
        Select, StreamOpened, TransferDone, EndTransfer, ClientStep
<1>3. ASSUME NEW r \in Retriers, RetryStep(r) \/ RetryEvent(r)
      PROVE  ClientStep
  <2>1. r \in Jobs
    BY DEF Jobs
  <2> QED
    BY <1>1, <1>3, <2>1
    DEF RetryStep, RetryEvent, RetryConfig, RetryTick, RetryLoad, RetryStore, RetryReset,
        RetryUp, RetrySucceeded, RetryDown, RetryFailed, RetryOpened, ClientStep
<1> QED
  BY <1>2, <1>3

\* An operator resets the client, or replaces it with the write lock held.
LEMMA OperatorClientStep ==
    ASSUME NEW o \in Operators, OperatorStep(o) \/ OperatorEvent(o)
    PROVE  ClientStep
<1>1. CASE ResetDo(o)
  BY <1>1 DEF ResetDo, ClientStep
<1>2. CASE ProtocolRebuilt(o)
  BY <1>2 DEF ProtocolRebuilt, Write, ClientStep, Tasks
<1>3. CASE ~ResetDo(o) /\ ~ProtocolRebuilt(o)
  BY <1>3
  DEF OperatorStep, SwitchCancel, SwitchLook, SwitchToUnknown, SwitchRenew,
      SwitchToForceClosed, ResetCancel, ResetRenew, ProtocolCancel, ProtocolBuildFailed,
      WaitLock, OperatorEvent, SwitchStatus, Reset, SwitchProtocol, Request,
      clientVars, ClientStep
<1> QED
  BY <1>1, <1>2, <1>3

LEMMA ClientSteps == [Next]_vars => ClientStep
<1> SUFFICES ASSUME [Next]_vars PROVE ClientStep
  OBVIOUS
<1>1. CASE RemoteClosed \/ UNCHANGED vars
  BY <1>1 DEF RemoteClosed, vars, clientVars, ClientStep
<1> QED
  BY <1>1, JobsClientStep, OperatorClientStep DEF Next, Quiet

\* The transitions of the client are those documented at Client::new_stream_fut
\* and of reset_client: a poisoned client is healed by a reset or a new client
\* only, and only the owner of the mutex ends a dial, whoever else is at it.
THEOREM ClientTransitionsHold == Spec => ClientTransitions
<1>1. ASSUME IndInv, [Next]_vars
      PROVE  /\ inner = "Poisoned" /\ inner' # inner =>
                  inner' = "NotConnected" /\ mutex' = NoTask
             /\ inner' = "Live" /\ inner # "Live" => inner = "NotConnected" /\ mutex # NoTask
             /\ inner' = "Poisoned" /\ inner # "Poisoned" =>
                  inner = "NotConnected" /\ mutex # NoTask
             /\ inner' # inner /\ mutex # NoTask => mutex' = NoTask
  <2>1. ClientStep
    BY <1>1, ClientSteps
  <2>2. mutex # NoTask => inner = "NotConnected"
    BY <1>1 DEF IndInv, MutexDialling
  <2>3. (\E t \in Tasks : CanWrite(t)) => mutex = NoTask
    <3> SUFFICES ASSUME NEW t \in Tasks, CanWrite(t), mutex # NoTask
                 PROVE  FALSE
      OBVIOUS
    <3>1. \A u \in Tasks : pc[u] \notin GuardPC
      BY <1>1, WriteQuiet DEF IndInv
    <3>2. mutex \in Tasks /\ pc[mutex] = "dial"
      BY <1>1 DEF IndInv, TypeOK, MutexDialling, Tasks
    <3> QED
      BY <3>1, <3>2 DEF GuardPC, TryPC
  <2> QED
    BY <2>1, <2>2, <2>3 DEF ClientStep, ResetClient, ConnFinished
<1>2. IndInv /\ [Next]_vars =>
        [/\ inner = "Poisoned" /\ inner' # inner =>
              inner' = "NotConnected" /\ mutex' = NoTask
         /\ inner' = "Live" /\ inner # "Live" => inner = "NotConnected" /\ mutex # NoTask
         /\ inner' = "Poisoned" /\ inner # "Poisoned" =>
              inner = "NotConnected" /\ mutex # NoTask
         /\ inner' # inner /\ mutex # NoTask => mutex' = NoTask]_vars
  BY <1>1
<1> QED
  BY <1>2, Invariance, PTL DEF Spec, ClientTransitions

(***************************************************************************)
(* The rounds of retry_forever                                             *)
(***************************************************************************)

\* A slot that no task runs in has used up no round, so that a spawned task
\* begins with all of them; a running one has a round left.
Budget ==
    \A r \in Retriers :
        /\ pc[r] = "idle" => tries[r] = 0
        /\ MaxRetries # 0 => tries[r] < MaxRetries

\* Steps that count no round and end no task.
LEMMA BudgetKept ==
    ASSUME Budget, UNCHANGED tries, \A r \in Retriers : pc'[r] = "idle" => pc[r] = "idle"
    PROVE  Budget'
BY DEF Budget

LEMMA RetryBudgetStep ==
    ASSUME IndInv, Budget, NEW r \in Retriers, RetryStep(r) \/ RetryEvent(r)
    PROVE  Budget'
<1>0. /\ tries \in [Retriers -> Nat] /\ MaxRetries \in Nat
      /\ pc \in [Tasks -> ConnPC \cup RetryPC \cup OperatorPC] /\ r \in Tasks
      /\ Retriers \subseteq Tasks
  BY BoundsAssumption DEF IndInv, TypeOK, PCTypeOK, Tasks, Jobs
<1>1. CASE RetryTick(r) \/ RetryLoad(r) \/ RetrySucceeded(r)
  BY <1>0, <1>1 DEF RetryTick, RetryLoad, RetrySucceeded, RetryEnds, Goto, Budget
<1>2. CASE RetryFailed(r)
  BY <1>0, <1>2 DEF RetryFailed, RetryEnds, Goto, Budget
<1>3. CASE ~(RetryTick(r) \/ RetryLoad(r) \/ RetrySucceeded(r)) /\ ~RetryFailed(r)
  <2>1. UNCHANGED tries /\ (UNCHANGED pc \/ \E p : p # "idle" /\ Goto(r, p))
    BY <1>3
    DEF RetryStep, RetryEvent, RetryConfig, RetryStore, RetryReset, NewStream, TryCancelled,
        RetryUp, RetryDown, WaitLock, Dialled, OpenFailed, RetryOpened, taskVars
  <2> QED
    BY <1>0, <2>1, BudgetKept DEF Goto
<1> QED
  BY <1>1, <1>2, <1>3

LEMMA BudgetInvariance == Spec => []Budget
<1>1. Init => Budget
  BY BoundsAssumption DEF Init, Budget
<1>2. ASSUME IndInv, Budget, [Next]_vars
      PROVE  Budget'
  <2>0. /\ pc \in [Tasks -> ConnPC \cup RetryPC \cup OperatorPC]
        /\ Retriers \subseteq Tasks
    BY <1>2 DEF IndInv, TypeOK, PCTypeOK, Tasks, Jobs
  <2>1. ASSUME NEW t \in Conns \cup Operators, UNCHANGED tries,
               UNCHANGED pc \/ (\E p : Goto(t, p)) \/ \E p : SpawnAndGoto(t, p)
        PROVE  Budget'
    <3>1. t \notin Retriers /\ t \in Tasks
      BY TasksAssumption DEF Tasks, Jobs
    <3>2. \A r \in Retriers : pc'[r] = "idle" => pc[r] = "idle"
      BY <2>0, <2>1, <3>1 DEF Goto, SpawnAndGoto
    <3> QED
      BY <1>2, <2>1, <3>2, BudgetKept
  <2>2. ASSUME NEW c \in Conns, ConnStep(c) \/ ConnEvent(c)
        PROVE  Budget'
    <3>1. UNCHANGED tries /\ (UNCHANGED pc \/ (\E p : Goto(c, p)) \/ \E p : SpawnAndGoto(c, p))
      BY <2>2
      DEF ConnStep, ConnEvent, BeginConnect, NewStream, TryCancelled, ConnectFailed,
          BeginTransfer, TransferCancelled, WaitLock, Select, Dialled, OpenFailed,
          StreamOpened, TransferDone, EndTransfer, taskVars
    <3> QED
      BY <3>1, <2>1
  <2>3. ASSUME NEW o \in Operators, OperatorStep(o) \/ OperatorEvent(o)
        PROVE  Budget'
    <3>1. UNCHANGED tries /\ (UNCHANGED pc \/ (\E p : Goto(o, p)) \/ \E p : SpawnAndGoto(o, p))
      BY <2>3
      DEF OperatorStep, OperatorEvent, SwitchCancel, SwitchLook, SwitchToUnknown, SwitchRenew,
          SwitchToForceClosed, ResetCancel, ResetDo, ResetRenew, ProtocolCancel,
          ProtocolRebuilt, ProtocolBuildFailed, WaitLock, SwitchStatus, Reset,
          SwitchProtocol, Request, taskVars
    <3> QED
      BY <3>1, <2>1
  <2>4. CASE RemoteClosed \/ UNCHANGED vars
    BY <1>2, <2>4, BudgetKept DEF RemoteClosed, vars, taskVars
  <2> QED
    BY <1>2, <2>2, <2>3, <2>4, RetryBudgetStep DEF Next, Quiet
<1> QED
  BY <1>1, <1>2, Invariance, PTL DEF Spec

\* A retry_forever with a max_retries makes at most that many attempts, however
\* they end and whatever other tasks do to the backend meanwhile.
THEOREM RetryBudgetKept == Spec => []RetryBudget
<1>1. IndInv /\ Budget => RetryBudget
  BY BoundsAssumption DEF IndInv, TypeOK, Budget, RetryBudget
<1> QED
  BY <1>1, Invariance, BudgetInvariance, PTL

(***************************************************************************)
(* The cancellation token implements CancelScope                           *)
(***************************************************************************)

\* Only the current token and its predecessors were ever cancelled.
CancelledPast == \A k \in cancelled : k <= token

\* A renewed token is a token that nobody has cancelled yet.
LEMMA CancelledPastInvariance == Spec => []CancelledPast
<1>1. Init => CancelledPast
  BY DEF Init, CancelledPast
<1>2. ASSUME IndInv, CancelledPast, [Next]_vars PROVE CancelledPast'
  <2>1. TokenStep
    BY <1>2, TokenSteps
  <2>2. token \in Nat /\ cancelled \in SUBSET Nat
    BY <1>2 DEF IndInv, TypeOK
  <2>3. CASE UNCHANGED <<token, cancelled>>
    BY <1>2, <2>3 DEF CancelledPast
  <2>4. CASE token' = token /\ CancelToken
    BY <1>2, <2>2, <2>4 DEF CancelToken, CancelledPast
  <2>5. CASE token' = token + 1 /\ cancelled' = cancelled
    BY <1>2, <2>2, <2>5 DEF CancelledPast
  <2> QED
    BY <2>1, <2>3, <2>4, <2>5 DEF TokenStep
<1>3. IndInv /\ CancelledPast /\ [Next]_vars => CancelledPast'
  BY <1>2
<1> QED
  BY <1>1, <1>3, Invariance, PTL DEF Spec

\* A job that enters JobPC with the token just cloned begins in the scope.
LEMMA BeginRefines ==
    ASSUME TypeOK, TypeOK', NEW t \in Jobs, pc[t] \notin JobPC, pc'[t] \in JobPC,
           tok'[t] = token, \A u \in Jobs \ {t} : pc'[u] = pc[u] /\ tok'[u] = tok[u],
           UNCHANGED <<token, cancelled>>
    PROVE  Scope!Begin(t)
<1>1. \A p \in Working : p[1] # t
  BY DEF Working
<1>2. Working' = Working \cup {<<t, token>>}
  BY DEF Working
<1> QED
  BY <1>1, <1>2 DEF Scope!Begin

\* A job that leaves JobPC ends in the scope.
LEMMA EndRefines ==
    ASSUME TypeOK, TokenCoherent, NEW t \in Jobs, pc[t] \in JobPC, pc'[t] \notin JobPC,
           \A u \in Jobs \ {t} : pc'[u] = pc[u] /\ tok'[u] = tok[u],
           UNCHANGED <<token, cancelled>>
    PROVE  Scope!End(t)
<1>1. tok[t] = token
  BY DEF TokenCoherent
<1>2. <<t, token>> \in Working
  BY <1>1 DEF Working
<1>3. Working' = Working \ {<<t, token>>}
  BY <1>1 DEF Working
<1> QED
  BY <1>2, <1>3 DEF Scope!End

\* Any other movement inside or outside JobPC is a stuttering step.
LEMMA KeepWorking ==
    ASSUME \A u \in Jobs : pc'[u] \in JobPC <=> pc[u] \in JobPC,
           \A u \in Jobs : pc[u] \in JobPC => tok'[u] = tok[u]
    PROVE  Working' = Working
BY DEF Working

\* The steps of try_connect.
LEMMA TryRefines ==
    ASSUME IndInv, NEW t \in Jobs,
           NewStream(t) \/ Dialled(t) \/ OpenFailed(t) \/ TryCancelled(t)
    PROVE  Scope!End(t) \/ UNCHANGED Scope!vars
<1>1. UNCHANGED <<token, cancelled, tok>>
  BY DEF NewStream, Dialled, OpenFailed, TryCancelled, backendVars
<1>2. pc[t] \in JobPC
  BY DEF NewStream, Dialled, OpenFailed, TryCancelled, JobPC, TryPC
<1>3. \/ Goto(t, "err")
      \/ Goto(t, "open")
      \/ Goto(t, "dial")
  BY DEF NewStream, Dialled, OpenFailed, TryCancelled
<1>4. \A u \in Jobs \ {t} : pc'[u] = pc[u]
  BY <1>3 DEF Goto, IndInv, TypeOK, PCTypeOK, Tasks
<1>5. CASE Goto(t, "err")
  <2>1. pc'[t] \notin JobPC
    BY <1>5 DEF Goto, JobPC, TryPC, IndInv, TypeOK, PCTypeOK, Tasks
  <2> QED
    BY <1>1, <1>2, <1>4, <2>1, EndRefines DEF IndInv
<1>6. CASE Goto(t, "open") \/ Goto(t, "dial")
  <2>1. pc'[t] \in JobPC
    BY <1>6 DEF Goto, JobPC, TryPC, IndInv, TypeOK, PCTypeOK, Tasks
  <2>2. Working' = Working
    BY <1>1, <1>2, <1>4, <2>1, KeepWorking
  <2> QED
    BY <1>1, <2>2 DEF Scope!vars
<1> QED
  BY <1>3, <1>5, <1>6

\* The steps of handle_connection.
LEMMA ConnRefines ==
    ASSUME IndInv, IndInv', NEW c \in Conns, ConnStep(c) \/ ConnEvent(c)
    PROVE  [Scope!Next]_(Scope!vars)
<1> USE DEF IndInv, Jobs, Tasks
<1>1. UNCHANGED <<token, cancelled>>
  BY JobsKeepToken
<1>2. CASE BeginConnect(c) \/ BeginTransfer(c)
  <2>1. pc[c] \notin JobPC /\ pc'[c] \in JobPC /\ tok'[c] = token
    BY <1>2 DEF BeginConnect, BeginTransfer, Goto, JobPC, TryPC, TypeOK, PCTypeOK
  <2>2. \A u \in Jobs \ {c} : pc'[u] = pc[u] /\ tok'[u] = tok[u]
    BY <1>2 DEF BeginConnect, BeginTransfer, Goto, TypeOK, PCTypeOK
  <2> QED
    BY <1>1, <2>1, <2>2, BeginRefines DEF Scope!Next
<1>3. CASE StreamOpened(c) \/ TransferDone(c) \/ TransferCancelled(c)
  <2>1. pc[c] \in JobPC /\ pc'[c] \notin JobPC
    BY <1>3
    DEF StreamOpened, TransferDone, TransferCancelled, EndTransfer, Goto, JobPC, TryPC,
        TypeOK, PCTypeOK
  <2>2. \A u \in Jobs \ {c} : pc'[u] = pc[u] /\ tok'[u] = tok[u]
    BY <1>3
    DEF StreamOpened, TransferDone, TransferCancelled, EndTransfer, Goto, TypeOK, PCTypeOK
  <2> QED
    BY <1>1, <2>1, <2>2, EndRefines DEF Scope!Next
<1>4. CASE Select(c) \/ ConnectFailed(c) \/ WaitLock(c)
  <2>1. \A u \in Jobs : pc'[u] \in JobPC <=> pc[u] \in JobPC
    BY <1>4, TasksAssumption
    DEF Select, ConnectFailed, SpawnAndGoto, WaitLock, taskVars, Goto, JobPC, TryPC,
        TypeOK, PCTypeOK
  <2>2. \A u \in Jobs : pc[u] \in JobPC => tok'[u] = tok[u]
    BY <1>4 DEF Select, ConnectFailed, WaitLock, taskVars, JobPC, TryPC, TypeOK
  <2> QED
    BY <1>1, <2>1, <2>2, KeepWorking DEF Scope!vars
<1>5. CASE NewStream(c) \/ Dialled(c) \/ OpenFailed(c) \/ TryCancelled(c)
  BY <1>5, TryRefines DEF Scope!Next
<1> QED
  BY <1>2, <1>3, <1>4, <1>5 DEF ConnStep, ConnEvent

\* The steps of retry_forever.
LEMMA RetryRefines ==
    ASSUME IndInv, IndInv', NEW r \in Retriers, RetryStep(r) \/ RetryEvent(r)
    PROVE  [Scope!Next]_(Scope!vars)
<1> USE DEF IndInv, Jobs, Tasks
<1>1. UNCHANGED <<token, cancelled>>
  BY JobsKeepToken
<1>2. CASE RetryReset(r)
  <2>1. pc[r] \notin JobPC /\ pc'[r] \in JobPC /\ tok'[r] = token
    BY <1>2 DEF RetryReset, Goto, JobPC, TryPC, TypeOK, PCTypeOK
  <2>2. \A u \in Jobs \ {r} : pc'[u] = pc[u] /\ tok'[u] = tok[u]
    BY <1>2 DEF RetryReset, Goto, TypeOK, PCTypeOK
  <2> QED
    BY <1>1, <2>1, <2>2, BeginRefines DEF Scope!Next
<1>3. CASE RetryOpened(r)
  <2>1. pc[r] \in JobPC /\ pc'[r] \notin JobPC
    BY <1>3 DEF RetryOpened, Goto, JobPC, TryPC, TypeOK, PCTypeOK
  <2>2. \A u \in Jobs \ {r} : pc'[u] = pc[u] /\ tok'[u] = tok[u]
    BY <1>3 DEF RetryOpened, Goto, TypeOK, PCTypeOK
  <2> QED
    BY <1>1, <2>1, <2>2, EndRefines DEF Scope!Next
<1>4. CASE \/ RetryConfig(r) \/ RetryTick(r) \/ RetryLoad(r) \/ RetryStore(r)
           \/ RetryUp(r) \/ RetrySucceeded(r) \/ RetryDown(r) \/ RetryFailed(r)
           \/ WaitLock(r)
  <2>1. \A u \in Jobs : pc'[u] \in JobPC <=> pc[u] \in JobPC
    BY <1>4
    DEF RetryConfig, RetryTick, RetryLoad, RetryStore, RetryUp, RetrySucceeded,
        RetryDown, RetryFailed, RetryEnds, WaitLock, taskVars, Goto, JobPC, TryPC,
        TypeOK, PCTypeOK
  <2>2. \A u \in Jobs : pc[u] \in JobPC => tok'[u] = tok[u]
    BY <1>4
    DEF RetryConfig, RetryTick, RetryLoad, RetryStore, RetryUp, RetrySucceeded,
        RetryDown, RetryFailed, WaitLock, taskVars, JobPC, TryPC, TypeOK
  <2> QED
    BY <1>1, <2>1, <2>2, KeepWorking DEF Scope!vars
<1>5. CASE NewStream(r) \/ Dialled(r) \/ OpenFailed(r) \/ TryCancelled(r)
  BY <1>5, TryRefines DEF Scope!Next
<1> QED
  BY <1>2, <1>3, <1>4, <1>5 DEF RetryStep, RetryEvent

\* The steps of an operator do no work of the scope; they close or renew it.
LEMMA OperatorRefines ==
    ASSUME IndInv, CancelledPast, NEW o \in Operators,
           OperatorStep(o) \/ OperatorEvent(o)
    PROVE  [Scope!Next]_(Scope!vars)
<1> USE DEF IndInv, Jobs, Tasks
<1>1. tok' = tok
  BY DEF OperatorStep, OperatorEvent, SwitchCancel, SwitchLook, SwitchToUnknown, SwitchRenew,
      SwitchToForceClosed, ResetCancel, ResetDo, ResetRenew, ProtocolCancel,
      ProtocolRebuilt, ProtocolBuildFailed, WaitLock, SwitchStatus, Reset, SwitchProtocol,
      Request, taskVars
<1>2. \A u \in Jobs : pc'[u] \in JobPC <=> pc[u] \in JobPC
  <2>1. CASE SwitchRenew(o)
    BY <2>1, TasksAssumption DEF SwitchRenew, SpawnAndGoto, JobPC, TryPC, TypeOK, PCTypeOK
  <2>2. ASSUME ~SwitchRenew(o) PROVE pc' = pc \/ \E p : Goto(o, p)
    BY <2>2
    DEF OperatorStep, OperatorEvent, SwitchCancel, SwitchLook, SwitchToUnknown,
      SwitchToForceClosed, ResetCancel, ResetDo, ResetRenew, ProtocolCancel,
      ProtocolRebuilt, ProtocolBuildFailed, WaitLock, SwitchStatus, Reset, SwitchProtocol,
      Request, taskVars
  <2> QED
    BY <2>1, <2>2, TasksAssumption DEF Goto, TypeOK, PCTypeOK
<1>3. Working' = Working
  BY <1>1, <1>2, KeepWorking
<1>4. TokenStep
  BY OperatorTokenStep
<1>5. CASE UNCHANGED <<token, cancelled>>
  BY <1>3, <1>5 DEF Scope!vars
<1>6. CASE token' = token /\ CancelToken
  BY <1>3, <1>6 DEF CancelToken, Scope!Next, Scope!Close
<1>7. CASE token' = token + 1 /\ cancelled' = cancelled /\ \E t \in Tasks : CanWrite(t)
  <2>1. \A u \in Tasks : pc[u] \notin GuardPC
    BY <1>7, WriteQuiet
  <2>2. JobPC \subseteq GuardPC
    BY DEF JobPC, GuardPC, TryPC
  <2>3. Working = {}
    BY <2>1, <2>2 DEF Working
  <2>4. token' \notin cancelled'
    BY <1>7 DEF CancelledPast, TypeOK
  <2>5. Scope!Renew
    BY <1>3, <1>7, <2>3, <2>4 DEF Scope!Renew
  <2> QED
    BY <2>5 DEF Scope!Next
<1> QED
  BY <1>4, <1>5, <1>6, <1>7 DEF TokenStep

\* A backend's connecting tasks and tunnels run in the scope of its token: no
\* job of one token is alive when the next token begins, for any number of
\* connections, reconnecting tasks and operators.
THEOREM ScopeImplemented == Spec => ScopeRefinement
<1>1. Init => Scope!Init
  <2> SUFFICES ASSUME Init PROVE Scope!Init
    OBVIOUS
  <2>1. Working = {}
    BY DEF Init, Working, JobPC, TryPC, Tasks
  <2> QED
    BY <2>1 DEF Init, Scope!Init
<1>2. ASSUME IndInv, IndInv', CancelledPast, [Next]_vars
      PROVE  [Scope!Next]_(Scope!vars)
  <2>1. CASE RemoteClosed \/ UNCHANGED vars
    <3>1. UNCHANGED <<token, cancelled, pc, tok>>
      BY <2>1 DEF RemoteClosed, vars, backendVars, taskVars
    <3> QED
      BY <3>1 DEF Working, Scope!vars
  <2> QED
    BY <1>2, <2>1, ConnRefines, RetryRefines, OperatorRefines DEF Next, Quiet
<1>3. IndInv /\ IndInv' /\ CancelledPast /\ [Next]_vars => [Scope!Next]_(Scope!vars)
  BY <1>2
<1> QED
  BY <1>1, <1>3, Invariance, CancelledPastInvariance, PTL DEF Spec, Scope!Spec, ScopeRefinement

=============================================================================
