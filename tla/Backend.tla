------------------------------- MODULE Backend -------------------------------
(***************************************************************************)
(* One backend of the octoproxy client and every task that works on it:    *)
(* proxied connections (handle_connection, src/client/src/proxy.rs),       *)
(* reconnecting tasks (retry_forever), and the requests of the metric API  *)
(* (src/client/src/metric.rs).  They share the backend's RwLock            *)
(* (RwLock.tla), its client (Client.tla), its cancellation token, its      *)
(* `retrying' flag and its status (src/client/src/backends.rs), and run on *)
(* a multi-threaded runtime: any interleaving of their steps can happen.   *)
(*                                                                         *)
(* A step is what a task does between two points where another task can    *)
(* tell the difference.  Taking the read guard is joined with the first    *)
(* access it protects, and dropping it with the last one.  The counters of *)
(* the metric are in Metric.tla; the choice between backends is in         *)
(* Routing.tla.                                                            *)
(***************************************************************************)
EXTENDS Naturals, FiniteSets, RwLock, Client

CONSTANTS
    Conns,       \* slots for proxied connections; a slot serves one after another
    Retriers,    \* slots for running retry_forever tasks
    Operators,   \* clients of the metric API; each sends one request at a time
    MaxRetries,  \* max_retries of the backend's file; 0 stands for no maximum
    InitStatus,  \* the statuses the backend's file may start it with
    InitProtocol,  \* the protocols it may name
    MaxOps       \* bound: the number of operator requests of a behaviour

Status == {"Normal", "Closed", "ForceClosed", "Unknown"}

Protocol == {"HTTP2", "Quic"}

Jobs == Conns \cup Retriers

Tasks == Jobs \cup Operators

ASSUME TasksAssumption ==
    /\ Conns \cap Retriers = {}
    /\ Jobs \cap Operators = {}
    /\ NoTask \notin Tasks

ASSUME BoundsAssumption ==
    /\ MaxRetries \in Nat
    /\ MaxOps \in Nat
    /\ InitStatus \subseteq Status
    /\ InitProtocol \subseteq Protocol

VARIABLES
    status,      \* the published status of the metric
    retrying,    \* Backend::retrying
    token,       \* which token is Backend::cancellation_token (0, 1, 2, ...)
    cancelled,   \* the tokens that were cancelled
    protocol,    \* the config's (file), and the client's and metric's (client)
    pc,          \* where each task is
    tok,         \* the token a task cloned when it began its attempt
    tries,       \* the rounds a retry_forever task has used up
    ops          \* the operator requests so far

backendVars == <<status, retrying, token, cancelled, protocol>>
taskVars == <<pc, tok, tries, ops>>
vars == <<lockVars, clientVars, backendVars, taskVars>>

(***************************************************************************)
(* Where a task can be.  "lock", "dial" and "open" are try_connect: waiting*)
(* for the client's mutex, in new_connection, in new_stream.               *)
(***************************************************************************)
TryPC == {"lock", "dial", "open"}
ConnPC == TryPC \cup {"idle", "read", "err", "got", "xfer"}
RetryPC == TryPC \cup {"idle", "cfg", "tick", "load", "store", "reset",
                       "up", "upd", "err", "errd"}
OperatorPC == {"idle", "sw1", "sw2", "swU", "swW", "swF",
               "rs1", "rs2", "rs3", "pr1", "pr2"}

\* Holding a read guard.
GuardPC == TryPC \cup {"err", "xfer", "load", "store", "reset", "up", "upd",
                       "errd", "swU", "swF", "rs2"}

\* About to ask for the lock.
ReadPC == {"read", "got", "cfg", "tick", "sw1", "sw2", "rs1", "pr1"}
WritePC == {"swW", "rs3", "pr2"}

\* Between retrying.store(true) and retrying.store(false).
AttemptPC == TryPC \cup {"reset", "up", "upd", "err", "errd"}

\* The work a cancelled token stops: the two select! of backends.rs.
JobPC == TryPC \cup {"xfer"}

Goto(t, p) == pc' = [pc EXCEPT ![t] = p]

PCTypeOK ==
    /\ pc \in [Tasks -> ConnPC \cup RetryPC \cup OperatorPC]
    /\ \A c \in Conns : pc[c] \in ConnPC
    /\ \A r \in Retriers : pc[r] \in RetryPC
    /\ \A o \in Operators : pc[o] \in OperatorPC

\* Every variable has a value of its kind, and every task is at a point of
\* the function it runs.
TypeOK ==
    /\ readers \subseteq Tasks
    /\ queue \in Seq(Tasks)
    /\ inner \in ClientState
    /\ mutex \in Jobs \cup {NoTask}
    /\ status \in Status
    /\ retrying \in BOOLEAN
    /\ token \in Nat
    /\ cancelled \in SUBSET Nat
    /\ protocol \in [file : Protocol, client : Protocol]
    /\ PCTypeOK
    /\ tok \in [Jobs -> Nat]
    /\ tries \in [Retriers -> Nat]
    /\ ops \in Nat

\* Backend::new
Init ==
    /\ LockInit
    /\ ClientInit
    /\ status \in InitStatus
    /\ retrying = FALSE
    /\ token = 0
    /\ cancelled = {}
    /\ \E p \in InitProtocol : protocol = [file |-> p, client |-> p]
    /\ pc = [t \in Tasks |-> "idle"]
    /\ tok = [t \in Jobs |-> 0]
    /\ tries = [r \in Retriers |-> 0]
    /\ ops = 0

(***************************************************************************)
(* tokio::spawn(retry_forever(backend)): a free slot becomes a running     *)
(* task.  SpareRetrier is a bound: work that may end in a spawn begins     *)
(* only while a slot is left over for it.                                  *)
(***************************************************************************)
MaySpawn ==
    {c \in Conns : pc[c] \in TryPC \cup {"read", "err"}}
        \cup {o \in Operators : pc[o] \in {"sw1", "sw2", "swU", "swW"}}

SpareRetrier ==
    Cardinality({r \in Retriers : pc[r] = "idle"}) > Cardinality(MaySpawn)

\* t goes on at p, and a retry_forever task starts.
SpawnAndGoto(t, p) ==
    \E r \in Retriers :
        /\ pc[r] = "idle"
        /\ pc' = [pc EXCEPT ![t] = p, ![r] = "cfg"]

(***************************************************************************)
(* try_connect, for a connection (with a host) and a retry (without).      *)
(***************************************************************************)
NewStream(t) ==
    /\ pc[t] = "lock"
    /\ \/ StreamPoisoned /\ Goto(t, "err")
       \/ StreamReady /\ Goto(t, "open")
       \/ StreamDial(t) /\ Goto(t, "dial")
    /\ UNCHANGED <<lockVars, backendVars, tok, tries, ops>>

Dialled(t) ==
    /\ pc[t] = "dial"
    /\ \/ DialOk(t) /\ Goto(t, "open")
       \/ DialErr(t) /\ Goto(t, "err")
    /\ UNCHANGED <<lockVars, backendVars, tok, tries, ops>>

OpenFailed(t) ==
    /\ pc[t] = "open"
    /\ Goto(t, "err")
    /\ UNCHANGED <<lockVars, clientVars, backendVars, tok, tries, ops>>

\* The other branch of select!: the token was cancelled.
TryCancelled(t) ==
    /\ pc[t] \in TryPC
    /\ tok[t] \in cancelled
    /\ DropStream(t)
    /\ Goto(t, "err")
    /\ UNCHANGED <<lockVars, backendVars, tok, tries, ops>>

(***************************************************************************)
(* handle_connection                                                       *)
(***************************************************************************)

\* next_available_backend answers with this backend, whose status is Normal
\* now; the guard is taken later.  With any other status the connection ends,
\* or goes to another backend, and this one is left as it is.
Select(c) ==
    /\ pc[c] = "idle"
    /\ status = "Normal"
    /\ SpareRetrier
    /\ Goto(c, "read")
    /\ UNCHANGED <<lockVars, clientVars, backendVars, tok, tries, ops>>

\* backend.read().await, and try_connect clones the token.
BeginConnect(c) ==
    /\ pc[c] = "read"
    /\ Read(c)
    /\ Goto(c, "lock")
    /\ tok' = [tok EXCEPT ![c] = token]
    /\ UNCHANGED <<clientVars, backendVars, tries, ops>>

\* try_connect gave a stream: the loop is left and the guard dropped with it.
StreamOpened(c) ==
    /\ pc[c] = "open"
    /\ Release(c)
    /\ Goto(c, "got")
    /\ UNCHANGED <<clientVars, backendVars, tok, tries, ops>>

\* try_connect failed: the backend is down, a retry_forever starts, the guard
\* is dropped and the loop asks for a backend again.
ConnectFailed(c) ==
    /\ pc[c] = "err"
    /\ status' = "Closed"
    /\ SpawnAndGoto(c, "idle")
    /\ Release(c)
    /\ tok' = [tok EXCEPT ![c] = 0]
    /\ UNCHANGED <<clientVars, retrying, token, cancelled, protocol, tries, ops>>

\* Mutant: the tunnel keeps the token its stream was opened under.
BeginTransferOldToken(c) ==
    /\ pc[c] = "got"
    /\ Read(c)
    /\ Goto(c, "xfer")
    /\ UNCHANGED <<clientVars, backendVars, tok, tries, ops>>

\* The second backend.read().await; transfer clones the token anew.
BeginTransfer(c) ==
    /\ pc[c] = "got"
    /\ Read(c)
    /\ Goto(c, "xfer")
    /\ tok' = [tok EXCEPT ![c] = token]
    /\ UNCHANGED <<clientVars, backendVars, tries, ops>>

EndTransfer(c) ==
    /\ pc[c] = "xfer"
    /\ Release(c)
    /\ Goto(c, "idle")
    /\ tok' = [tok EXCEPT ![c] = 0]
    /\ UNCHANGED <<clientVars, backendVars, tries, ops>>

\* copy_bidirectional ends, because a peer closed or failed.
TransferDone(c) == EndTransfer(c)

TransferCancelled(c) == tok[c] \in cancelled /\ EndTransfer(c)

(***************************************************************************)
(* retry_forever and Backend::retry_connect                                *)
(***************************************************************************)

\* The interval and max_retries are read.
RetryConfig(r) ==
    /\ pc[r] = "cfg"
    /\ ReadOnce(r)
    /\ Goto(r, "tick")
    /\ UNCHANGED <<clientVars, backendVars, tok, tries, ops>>

RetryEnds(r, p) ==
    /\ Goto(r, p)
    /\ tries' = [tries EXCEPT ![r] = IF p = "idle" THEN 0 ELSE @]

\* The interval ticks, the guard is taken and the status looked at.
RetryTick(r) ==
    /\ pc[r] = "tick"
    /\ \/ /\ status \in {"Normal", "ForceClosed"}
          /\ ReadOnce(r)
          /\ RetryEnds(r, "idle")
       \/ /\ status \in {"Closed", "Unknown"}
          /\ Read(r)
          /\ RetryEnds(r, "load")
    /\ UNCHANGED <<clientVars, backendVars, tok, ops>>

\* retrying.load(): somebody else is at it, so this task ends.
RetryLoad(r) ==
    /\ pc[r] = "load"
    /\ \/ retrying /\ Release(r) /\ RetryEnds(r, "idle")
       \/ ~retrying /\ RetryEnds(r, "store") /\ UNCHANGED lockVars
    /\ UNCHANGED <<clientVars, backendVars, tok, ops>>

RetryStore(r) ==
    /\ pc[r] = "store"
    /\ retrying' = TRUE
    /\ Goto(r, "reset")
    /\ UNCHANGED <<lockVars, clientVars, status, token, cancelled, protocol,
                   tok, tries, ops>>

\* client.reset_client().await, which no token cancels; then try_connect.
RetryReset(r) ==
    /\ pc[r] = "reset"
    /\ ResetClient
    /\ Goto(r, "lock")
    /\ tok' = [tok EXCEPT ![r] = token]
    /\ UNCHANGED <<lockVars, backendVars, tries, ops>>

\* try_connect gave an Alive stream ...
RetryOpened(r) ==
    /\ pc[r] = "open"
    /\ Goto(r, "up")
    /\ UNCHANGED <<lockVars, clientVars, backendVars, tok, tries, ops>>

\* ... so the backend is Normal ...
RetryUp(r) ==
    /\ pc[r] = "up"
    /\ status' = "Normal"
    /\ Goto(r, "upd")
    /\ UNCHANGED <<lockVars, clientVars, retrying, token, cancelled, protocol,
                   tok, tries, ops>>

\* Mutant: the read guard outlives the task.
RetrySucceededKeepsGuard(r) ==
    /\ pc[r] = "upd"
    /\ retrying' = FALSE
    /\ RetryEnds(r, "idle")
    /\ tok' = [tok EXCEPT ![r] = 0]
    /\ UNCHANGED <<lockVars, clientVars, status, token, cancelled, protocol, ops>>

\* ... the flag is cleared and the task ends.
RetrySucceeded(r) ==
    /\ pc[r] = "upd"
    /\ retrying' = FALSE
    /\ Release(r)
    /\ RetryEnds(r, "idle")
    /\ tok' = [tok EXCEPT ![r] = 0]
    /\ UNCHANGED <<clientVars, status, token, cancelled, protocol, ops>>

\* try_connect failed: the status becomes Closed, whatever it was.
RetryDown(r) ==
    /\ pc[r] = "err"
    /\ status' = "Closed"
    /\ Goto(r, "errd")
    /\ UNCHANGED <<lockVars, clientVars, retrying, token, cancelled, protocol,
                   tok, tries, ops>>

\* Mutant: only the successful arm clears the flag.
RetryFailedKeepsFlag(r) ==
    /\ pc[r] = "errd"
    /\ Release(r)
    /\ IF tries[r] + 1 = MaxRetries
         THEN RetryEnds(r, "idle")
         ELSE /\ Goto(r, "tick")
              /\ tries' = [tries EXCEPT ![r] = IF MaxRetries = 0 THEN 0 ELSE @ + 1]
    /\ tok' = [tok EXCEPT ![r] = 0]
    /\ UNCHANGED <<clientVars, backendVars, ops>>

\* Mutant: one attempt more than max_retries.
RetryFailedOnceMore(r) ==
    /\ pc[r] = "errd"
    /\ retrying' = FALSE
    /\ Release(r)
    /\ IF tries[r] = MaxRetries /\ MaxRetries # 0
         THEN RetryEnds(r, "idle")
         ELSE /\ Goto(r, "tick")
              /\ tries' = [tries EXCEPT ![r] = IF MaxRetries = 0 THEN 0 ELSE @ + 1]
    /\ tok' = [tok EXCEPT ![r] = 0]
    /\ UNCHANGED <<clientVars, status, token, cancelled, protocol, ops>>

\* The flag is cleared; the loop goes on to the next tick, or is used up.
RetryFailed(r) ==
    /\ pc[r] = "errd"
    /\ retrying' = FALSE
    /\ Release(r)
    /\ IF tries[r] + 1 = MaxRetries
         THEN RetryEnds(r, "idle")
         ELSE /\ Goto(r, "tick")
              /\ tries' = [tries EXCEPT ![r] = IF MaxRetries = 0 THEN 0 ELSE @ + 1]
    /\ tok' = [tok EXCEPT ![r] = 0]
    /\ UNCHANGED <<clientVars, status, token, cancelled, protocol, ops>>

(***************************************************************************)
(* The requests of the metric API.                                         *)
(***************************************************************************)
Request(o, p) ==
    /\ pc[o] = "idle"
    /\ ops < MaxOps
    /\ ops' = ops + 1
    /\ Goto(o, p)
    /\ UNCHANGED <<lockVars, clientVars, backendVars, tok, tries>>

\* The first thing every request does: cancel the current token.
CancelToken == cancelled' = cancelled \cup {token}

\* renew_cancellation_token
RenewToken ==
    /\ token' = token + 1
    /\ retrying' = FALSE

\* switch_backend_status
SwitchStatus(o) == SpareRetrier /\ Request(o, "sw1")

SwitchCancel(o) ==
    /\ pc[o] = "sw1"
    /\ ReadOnce(o)
    /\ CancelToken
    /\ Goto(o, "sw2")
    /\ UNCHANGED <<clientVars, status, retrying, token, protocol, tok, tries, ops>>

SwitchLook(o) ==
    /\ pc[o] = "sw2"
    /\ Read(o)
    /\ Goto(o, IF status = "ForceClosed" THEN "swU" ELSE "swF")
    /\ UNCHANGED <<clientVars, backendVars, tok, tries, ops>>

SwitchToUnknown(o) ==
    /\ pc[o] = "swU"
    /\ status' = "Unknown"
    /\ Release(o)
    /\ Goto(o, "swW")
    /\ UNCHANGED <<clientVars, retrying, token, cancelled, protocol, tok, tries, ops>>

SwitchRenew(o) ==
    /\ pc[o] = "swW"
    /\ Write(o)
    /\ RenewToken
    /\ SpawnAndGoto(o, "idle")
    /\ UNCHANGED <<clientVars, status, cancelled, protocol, tok, tries, ops>>

SwitchToForceClosed(o) ==
    /\ pc[o] = "swF"
    /\ status' = "ForceClosed"
    /\ Release(o)
    /\ Goto(o, "idle")
    /\ UNCHANGED <<clientVars, retrying, token, cancelled, protocol, tok, tries, ops>>

\* reset_backend
Reset(o) == Request(o, "rs1")

\* Mutant: the jobs are not told to stop.
ResetWithoutCancel(o) ==
    /\ pc[o] = "rs1"
    /\ Read(o)
    /\ Goto(o, "rs2")
    /\ UNCHANGED <<clientVars, backendVars, tok, tries, ops>>

ResetCancel(o) ==
    /\ pc[o] = "rs1"
    /\ Read(o)
    /\ CancelToken
    /\ Goto(o, "rs2")
    /\ UNCHANGED <<clientVars, status, retrying, token, protocol, tok, tries, ops>>

\* Mutant: the guard of the client's mutex is not dropped.
ResetDoKeepsMutex(o) ==
    /\ pc[o] = "rs2"
    /\ mutex = NoTask
    /\ inner' = "NotConnected"
    /\ mutex' = o
    /\ Release(o)
    /\ Goto(o, "rs3")
    /\ UNCHANGED <<backendVars, tok, tries, ops>>

\* Backend::reset_client; the guard is dropped at the end of the block.
ResetDo(o) ==
    /\ pc[o] = "rs2"
    /\ ResetClient
    /\ Release(o)
    /\ Goto(o, "rs3")
    /\ UNCHANGED <<backendVars, tok, tries, ops>>

\* Mutant: the token is renewed under a read guard.
ResetRenewWithoutLock(o) ==
    /\ pc[o] = "rs3"
    /\ ReadOnce(o)
    /\ RenewToken
    /\ Goto(o, "idle")
    /\ UNCHANGED <<clientVars, status, cancelled, protocol, tok, tries, ops>>

ResetRenew(o) ==
    /\ pc[o] = "rs3"
    /\ Write(o)
    /\ RenewToken
    /\ Goto(o, "idle")
    /\ UNCHANGED <<clientVars, status, cancelled, protocol, tok, tries, ops>>

\* switch_backend_protocol
SwitchProtocol(o) == Request(o, "pr1")

ProtocolCancel(o) ==
    /\ pc[o] = "pr1"
    /\ ReadOnce(o)
    /\ CancelToken
    /\ Goto(o, "pr2")
    /\ UNCHANGED <<clientVars, status, retrying, token, protocol, tok, tries, ops>>

OtherProtocol == CHOOSE p \in Protocol : p # protocol.file

\* Backend::switch_protocol, build_client having read the files again.
ProtocolRebuilt(o) ==
    /\ pc[o] = "pr2"
    /\ Write(o)
    /\ inner' = "NotConnected"
    /\ RenewToken
    /\ protocol' = [file |-> OtherProtocol, client |-> OtherProtocol]
    /\ Goto(o, "idle")
    /\ UNCHANGED <<mutex, status, cancelled, tok, tries, ops>>

\* Backend::switch_protocol, build_client having failed: the early return
\* leaves the old client, and the token that was cancelled.
ProtocolBuildFailed(o) ==
    /\ pc[o] = "pr2"
    /\ Write(o)
    /\ protocol' = [protocol EXCEPT !.file = OtherProtocol]
    /\ Goto(o, "idle")
    /\ UNCHANGED <<clientVars, status, retrying, token, cancelled, tok, tries, ops>>

(***************************************************************************)
(* The specification                                                       *)
(***************************************************************************)

\* A task that cannot have the lock at once queues for it.
WaitLock(t) ==
    /\ \/ pc[t] \in ReadPC /\ ~CanRead(t)
       \/ pc[t] \in WritePC /\ ~CanWrite(t)
    /\ Enqueue(t)
    /\ UNCHANGED <<clientVars, backendVars, taskVars>>

\* The connection to the remote server ends by itself.
RemoteClosed ==
    /\ ConnFinished
    /\ UNCHANGED <<lockVars, backendVars, taskVars>>

\* What a task does once it is scheduled ...
ConnStep(c) ==
    \/ BeginConnect(c) \/ NewStream(c) \/ TryCancelled(c) \/ ConnectFailed(c)
    \/ BeginTransfer(c) \/ TransferCancelled(c) \/ WaitLock(c)

RetryStep(r) ==
    \/ RetryConfig(r) \/ RetryTick(r) \/ RetryLoad(r) \/ RetryStore(r)
    \/ RetryReset(r) \/ NewStream(r) \/ TryCancelled(r) \/ RetryUp(r)
    \/ RetrySucceeded(r) \/ RetryDown(r) \/ RetryFailed(r) \/ WaitLock(r)

OperatorStep(o) ==
    \/ SwitchCancel(o) \/ SwitchLook(o) \/ SwitchToUnknown(o) \/ SwitchRenew(o)
    \/ SwitchToForceClosed(o) \/ ResetCancel(o) \/ ResetDo(o) \/ ResetRenew(o)
    \/ ProtocolCancel(o) \/ ProtocolRebuilt(o) \/ ProtocolBuildFailed(o)
    \/ WaitLock(o)

\* ... and what happens when a peer or a user chooses, if ever.
ConnEvent(c) ==
    \/ Select(c) \/ Dialled(c) \/ OpenFailed(c) \/ StreamOpened(c)
    \/ TransferDone(c)

RetryEvent(r) == Dialled(r) \/ OpenFailed(r) \/ RetryOpened(r)

OperatorEvent(o) == SwitchStatus(o) \/ Reset(o) \/ SwitchProtocol(o)

\* Nobody is doing anything: the program waits for a request.
Quiet == (\A t \in Tasks : pc[t] = "idle") /\ UNCHANGED vars

Next ==
    \/ \E c \in Conns : ConnStep(c) \/ ConnEvent(c)
    \/ \E r \in Retriers : RetryStep(r) \/ RetryEvent(r)
    \/ \E o \in Operators : OperatorStep(o) \/ OperatorEvent(o)
    \/ RemoteClosed
    \/ Quiet

Spec == Init /\ [][Next]_vars

(***************************************************************************)
(* The runtime polls every task that can go on, so each task's own steps   *)
(* are weakly fair.  The client's mutex, like the RwLock, serves its       *)
(* waiters in order, so a task that waits for it is not passed over for    *)
(* ever: that is strong fairness of the steps that take it.  Nothing is    *)
(* assumed of the remote server, of the users or of the operators.         *)
(***************************************************************************)
Fairness ==
    /\ \A c \in Conns : WF_vars(ConnStep(c)) /\ SF_vars(NewStream(c))
    /\ \A r \in Retriers :
         WF_vars(RetryStep(r)) /\ SF_vars(NewStream(r) \/ RetryReset(r))
    /\ \A o \in Operators : WF_vars(OperatorStep(o)) /\ SF_vars(ResetDo(o))

FairSpec == Spec /\ Fairness

(***************************************************************************)
(* Properties                                                              *)
(***************************************************************************)

\* Every task that is connecting or carrying a tunnel cloned the token the
\* backend still has: no request of the metric API replaces the token under
\* a task (try_connect, transfer, renew_cancellation_token), which could then
\* never be stopped.
TokenCoherent == \A t \in Jobs : pc[t] \in JobPC => tok[t] = token

\* The `retrying' flag is never left set behind: while it is set, some
\* retry_connect is between its store(true) and its store(false).  Otherwise
\* every later retry_forever would end at its first look at the flag.
RetryFlagOwned == retrying => \E r \in Retriers : pc[r] \in AttemptPC

\* The client's mutex is held across an await only by a task that is dialling,
\* holds a read guard and would see a cancellation: an operator who cancels the
\* token gets the mutex for reset_client.
MutexOwnerStoppable ==
    mutex # NoTask => /\ pc[mutex] = "dial"
                      /\ inner = "NotConnected"
                      /\ mutex \in readers
                      /\ tok[mutex] = token

\* A read guard is held by exactly the tasks that are inside a section which
\* keeps one; nobody holds one while idle, asking for the lock or queued.
GuardsExact == readers = {t \in Tasks : pc[t] \in GuardPC}

\* A bounded retry_forever makes at most max_retries attempts.
RetryBudget ==
    MaxRetries # 0 =>
        \A r \in Retriers :
            tries[r] + (IF pc[r] = "idle" THEN 0 ELSE 1) <= MaxRetries

\* renew_cancellation_token is called only between jobs: no connecting task,
\* tunnel or reconnecting attempt is in flight, and the flag it clears is
\* already clear.
RenewQuiet ==
    [][token' # token => /\ \A t \in Jobs : pc[t] \notin JobPC \cup AttemptPC
                         /\ ~retrying]_vars

\* A poisoned client is healed by a reset or a new client only, and a new
\* connection is only ever dialled from NotConnected by the owner of the
\* mutex: the transitions documented at Client::new_stream_fut, and those of
\* reset_client.
ClientTransitions ==
    [][/\ inner = "Poisoned" /\ inner' # inner =>
            inner' = "NotConnected" /\ mutex' = NoTask
       /\ inner' = "Live" /\ inner # "Live" => inner = "NotConnected" /\ mutex # NoTask
       /\ inner' = "Poisoned" /\ inner # "Poisoned" =>
            inner = "NotConnected" /\ mutex # NoTask
       /\ inner' # inner /\ mutex # NoTask => mutex' = NoTask]_vars

\* The cancellation token keeps the promise of CancelScope: connecting tasks
\* and tunnels join the current scope, and the token is renewed only when the
\* last of them is gone.
Working == {<<t, tok[t]>> : t \in {u \in Jobs : pc[u] \in JobPC}}

Scope == INSTANCE CancelScope WITH
    scope <- token,
    closing <- token \in cancelled,
    running <- Working

ScopeRefinement == Scope!Spec

\* Every request of the metric API is answered, even if the remote server
\* never answers a dial, a stream or a tunnel again: cancelling the token frees
\* the read guards the write lock waits for (switch_backend_status,
\* reset_backend, switch_backend_protocol).
RequestsAnswered ==
    \A o \in Operators : pc[o] # "idle" ~> pc[o] = "idle"

\* A connection that was given this backend gets its read guard, both times it
\* asks, whatever the operator does meanwhile and however long others hang.
ConnectionsServed ==
    \A c \in Conns : pc[c] \in {"read", "got"} ~> pc[c] \notin {"read", "got"}

(***************************************************************************)
(* Statements of the repository that the code does not keep                *)
(***************************************************************************)

\* "set by manual, will never up automatically" (BackendStatus::ForceClosed in
\* src/lib/src/metric.rs): only an operator's step ends ForceClosed.
ForceClosedSticks ==
    [][status = "ForceClosed" /\ status' # "ForceClosed" =>
         \E o \in Operators : pc[o] = "swU"]_vars

\* "`Closed` status will be changed to `Normal`" (BackendStatus::Closed in
\* src/lib/src/metric.rs), which only a retry_forever can do: while the status
\* is Closed and retries are unlimited, one is running.
ClosedHasRetrier ==
    status = "Closed" /\ MaxRetries = 0 => \E r \in Retriers : pc[r] # "idle"

\* "drop this backend first, so it would not deadlock" (switch_backend_status
\* in src/client/src/metric.rs): once its guard is dropped, the request gets
\* the write lock it asks for.
SwitchNotStuck ==
    \A o \in Operators : pc[o] = "swW" ~> pc[o] = "idle"

=============================================================================
