------------------------------- MODULE Client -------------------------------
(***************************************************************************)
(* Client<C, SR> of src/client/src/connector.rs: one multiplexed           *)
(* connection (HTTP/2 or QUIC) to a remote server, dialled on demand by    *)
(* whichever task first wants a stream.  The state is behind an async      *)
(* mutex that is held while dialling and never while a stream is opened.   *)
(*                                                                         *)
(* The code's Connected { conn, client } is two states here, because every *)
(* use of it asks conn.is_finished(): "Live" while the connection's task   *)
(* runs and "Dead" once it has ended.                                      *)
(*                                                                         *)
(* Each operator below is the part of an action that concerns the client;  *)
(* Backend.tla joins it with the step of the task that takes it.           *)
(***************************************************************************)

CONSTANT NoTask     \* nobody: the owner of a free mutex

VARIABLES
    inner,          \* the ClientState
    mutex           \* the task that holds the mutex across its dialling

clientVars == <<inner, mutex>>

ClientState == {"NotConnected", "Live", "Dead", "Poisoned"}

ClientInit == inner = "NotConnected" /\ mutex = NoTask

(***************************************************************************)
(* reset_client: takes the mutex, aborts the connection's task if there is *)
(* one, and forgets the connection or the failure.                         *)
(***************************************************************************)
ResetClient ==
    /\ mutex = NoTask
    /\ inner' = "NotConnected"
    /\ UNCHANGED mutex

(***************************************************************************)
(* new_stream_fut, once it has the mutex.  A poisoned client refuses at    *)
(* once; a live connection answers with the future of a stream, and the    *)
(* mutex is free again; a finished connection is forgotten, and dialled    *)
(* anew like one that was never there, with the mutex held.                *)
(***************************************************************************)
StreamPoisoned ==
    /\ mutex = NoTask
    /\ inner = "Poisoned"
    /\ UNCHANGED clientVars

StreamReady ==
    /\ mutex = NoTask
    /\ inner = "Live"
    /\ UNCHANGED clientVars

\* Mutant: a poisoned client is dialled again instead of refusing.
StreamDialPoisoned(t) ==
    /\ mutex = NoTask
    /\ inner \in {"NotConnected", "Dead", "Poisoned"}
    /\ inner' = "NotConnected"
    /\ mutex' = t

StreamDial(t) ==
    /\ mutex = NoTask
    /\ inner \in {"NotConnected", "Dead"}
    /\ inner' = "NotConnected"
    /\ mutex' = t

\* new_connection().await ends well: the loop goes round to the Connected arm.
DialOk(t) ==
    /\ mutex = t
    /\ inner' = "Live"
    /\ mutex' = NoTask

\* new_connection().await fails, in its own time or by its timeout.
DialErr(t) ==
    /\ mutex = t
    /\ inner' = "Poisoned"
    /\ mutex' = NoTask

\* Mutant: the mutex stays locked behind a future that was dropped.
DropStreamLeaks(t) == UNCHANGED clientVars

\* The caller's future is dropped at an await of new_stream_fut, or while the
\* stream is opened; a held mutex is released and the state left as it was.
DropStream(t) ==
    /\ mutex' = IF mutex = t THEN NoTask ELSE mutex
    /\ UNCHANGED inner

\* The spawned task of the connection ends: the peer closed it, or it broke.
ConnFinished ==
    /\ inner = "Live"
    /\ inner' = "Dead"
    /\ UNCHANGED mutex

=============================================================================
