------------------------------- MODULE RwLock -------------------------------
(***************************************************************************)
(* The lock that guards one backend: the tokio::sync::RwLock in            *)
(* Arc<RwLock<Backend>> (src/client/src/config.rs).  tokio is external; it *)
(* is modelled from its use: shared or exclusive, first come first served, *)
(* so that a request waits behind every request made before it, and a      *)
(* reader that arrives after a waiting writer waits behind that writer.    *)
(*                                                                         *)
(* No exclusive section of this program waits for anything, so an          *)
(* exclusive section is one step and a holder of the exclusive lock is     *)
(* never visible.  A shared section may be long (a whole tunnel): `readers'*)
(* is the set of tasks inside one.                                         *)
(***************************************************************************)
EXTENDS Naturals, Sequences

VARIABLES
    readers,   \* the tasks that hold a read guard
    queue      \* the tasks that wait for the lock, oldest first

lockVars == <<readers, queue>>

LockInit == readers = {} /\ queue = <<>>

\* Nobody older than t is waiting.
Turn(t) == queue # <<>> => Head(queue) = t

\* A task that is served leaves the queue, if it had to queue at all.
Dequeue == queue' = IF queue = <<>> THEN queue ELSE Tail(queue)

CanRead(t) == Turn(t)

CanWrite(t) == Turn(t) /\ readers = {}

\* let guard = backend.read().await, the guard being kept
Read(t) == CanRead(t) /\ readers' = readers \cup {t} /\ Dequeue

\* backend.read().await.f(), the guard being dropped at once
ReadOnce(t) == CanRead(t) /\ Dequeue /\ UNCHANGED readers

\* backend.write().await.f(), a whole exclusive section
Write(t) == CanWrite(t) /\ Dequeue /\ UNCHANGED readers

\* the guard of t is dropped
Release(t) == readers' = readers \ {t} /\ UNCHANGED queue

\* A request that cannot be served at once takes its place in the queue.
Enqueue(t) ==
    /\ \A i \in 1..Len(queue) : queue[i] # t
    /\ queue' = Append(queue, t)
    /\ UNCHANGED readers

=============================================================================
