------------------------------- MODULE Server -------------------------------
(***************************************************************************)
(* The octoproxy server's two accept loops (run_h2 and run_quic in         *)
(* src/server/src/config.rs, joined in run_main) and the connections they  *)
(* hand out (src/server/src/proxy.rs).  The streams of a connection, which *)
(* run in tasks of their own and take no permit, are in Tunnel.tla.        *)
(***************************************************************************)
EXTENDS Naturals, Sequences, FiniteSets

CONSTANTS
    H2Conns,     \* TCP connections clients make; each is made once
    QuicConns,   \* QUIC connections, likewise
    MaxTasks     \* max_concurrent_tasks

Conns == H2Conns \cup QuicConns

ASSUME ServerAssumption ==
    /\ H2Conns \cap QuicConns = {}
    /\ IsFiniteSet(H2Conns)
    /\ MaxTasks \in Nat

VARIABLES
    loop,        \* run_h2: accepting, waiting for a permit, or returned
    quic,        \* run_quic: accepting, or returned
    backlog,     \* TCP connections that were not accepted yet
    permits,     \* the semaphore
    phase        \* where each connection is

vars == <<loop, quic, backlog, permits, phase>>

\* "hand" is the connection the accept loop holds while it waits for a permit;
\* "shake" and "serve" are handle_h2_connection and the task of run_quic.
Phase == {"away", "queued", "hand", "shake", "serve", "over"}

TypeOK ==
    /\ loop \in {"accept", "permit", "done"}
    /\ quic \in {"accept", "done"}
    /\ backlog \in Seq(H2Conns)
    /\ permits \in 0..MaxTasks
    /\ phase \in [Conns -> Phase]

\* Without a QUIC configuration run_quic returns at once.
Init ==
    /\ loop = "accept"
    /\ quic \in {"accept", "done"}
    /\ backlog = <<>>
    /\ permits = MaxTasks
    /\ phase = [k \in Conns |-> "away"]

Goto(k, p) == phase' = [phase EXCEPT ![k] = p]

(***************************************************************************)
(* run_h2                                                                  *)
(***************************************************************************)
Arrive(k) ==
    /\ phase[k] = "away" /\ loop # "done"
    /\ Goto(k, "queued")
    /\ backlog' = Append(backlog, k)
    /\ UNCHANGED <<loop, quic, permits>>

Accept ==
    /\ loop = "accept" /\ backlog # <<>>
    /\ loop' = "permit"
    /\ Goto(Head(backlog), "hand")
    /\ backlog' = Tail(backlog)
    /\ UNCHANGED <<quic, permits>>

\* An error of accept ends the loop, and the listener is closed.
AcceptFails ==
    /\ loop = "accept"
    /\ loop' = "done"
    /\ phase' = [k \in Conns |-> IF k \in H2Conns /\ phase[k] = "queued"
                                   THEN "over" ELSE phase[k]]
    /\ backlog' = <<>>
    /\ UNCHANGED <<quic, permits>>

\* Mutant: the loop does not wait for a permit.
PermitUnchecked ==
    /\ loop = "permit"
    /\ permits' = permits - 1
    /\ loop' = "accept"
    /\ \E k \in H2Conns : phase[k] = "hand" /\ Goto(k, "shake")
    /\ UNCHANGED <<quic, backlog>>

\* acquire_owned, and the connection's task is spawned.
Permit ==
    /\ loop = "permit" /\ permits > 0
    /\ permits' = permits - 1
    /\ loop' = "accept"
    /\ \E k \in H2Conns : phase[k] = "hand" /\ Goto(k, "shake")
    /\ UNCHANGED <<quic, backlog>>

Established(k) ==
    /\ phase[k] = "shake"
    /\ Goto(k, "serve")
    /\ UNCHANGED <<loop, quic, backlog, permits>>

\* Mutant: the permit is given back on success only.
H2OverLeaks(k) ==
    /\ phase[k] \in {"shake", "serve"}
    /\ Goto(k, "over")
    /\ permits' = IF phase[k] = "serve" THEN permits + 1 ELSE permits
    /\ UNCHANGED <<loop, quic, backlog>>

\* handle_h2_connection returns, from the TLS handshake or from serving, with
\* an error or without; the permit is dropped.
H2Over(k) ==
    /\ phase[k] \in {"shake", "serve"}
    /\ Goto(k, "over")
    /\ permits' = permits + 1
    /\ UNCHANGED <<loop, quic, backlog>>

(***************************************************************************)
(* run_quic                                                                *)
(***************************************************************************)
QuicArrive(k) ==
    /\ phase[k] = "away" /\ quic = "accept"
    /\ Goto(k, "queued")
    /\ UNCHANGED <<loop, quic, backlog, permits>>

\* Mutant: QUIC connections share the semaphore.
QuicAcceptPermit(k) ==
    /\ phase[k] = "queued" /\ quic = "accept"
    /\ permits > 0
    /\ permits' = permits - 1
    /\ Goto(k, "shake")
    /\ UNCHANGED <<loop, quic, backlog>>

\* endpoint.accept and tokio::spawn; there is no limit.
QuicAccept(k) ==
    /\ phase[k] = "queued" /\ quic = "accept"
    /\ Goto(k, "shake")
    /\ UNCHANGED <<loop, quic, backlog, permits>>

\* The handshake fails, or accept_bi does.
QuicOver(k) ==
    /\ phase[k] \in {"shake", "serve"}
    /\ Goto(k, "over")
    /\ UNCHANGED <<loop, quic, backlog, permits>>

(***************************************************************************)
(* The specification                                                       *)
(***************************************************************************)
Peers ==
    \/ \E k \in H2Conns : Arrive(k) \/ H2Over(k)
    \/ \E k \in QuicConns : QuicArrive(k) \/ QuicOver(k)
    \/ \E k \in Conns : Established(k)

\* Connections are made once, so a behaviour comes to its end; the server
\* itself goes on waiting.
Waiting ==
    /\ loop = "accept" => backlog = <<>>
    /\ loop = "permit" => permits = 0
    /\ UNCHANGED vars

Next ==
    \/ Accept \/ AcceptFails \/ Permit
    \/ \E k \in QuicConns : QuicAccept(k)
    \/ Peers
    \/ Waiting

Spec == Init /\ [][Next]_vars

\* The runtime polls the two loops.  Of the connections nothing is
\* assumed: a handshake has no timeout, and serving may take for ever.
FairSpec ==
    /\ Spec
    /\ WF_vars(Accept) /\ WF_vars(Permit)
    /\ \A k \in QuicConns : WF_vars(QuicAccept(k))

(***************************************************************************)
(* Properties                                                              *)
(***************************************************************************)

Handled(K) == {k \in K : phase[k] \in {"shake", "serve"}}

\* A permit is out for each TCP connection that is handled and for no other,
\* whichever way the handling ended: a failed handshake must not keep one, and
\* QUIC connections, which max_concurrent_tasks does not limit, must not take one.
\* The loop holds one accepted connection exactly while it waits.
PermitLaw ==
    /\ permits + Cardinality(Handled(H2Conns)) = MaxTasks
    /\ Cardinality({k \in H2Conns : phase[k] = "hand"}) = (IF loop = "permit" THEN 1 ELSE 0)

\* If no TCP connection is handled for ever, every one that arrives is handled,
\* or refused because accept failed: the loop of run_h2, which waits for a
\* permit with a connection in hand, does not block itself.
ArrivalsServed ==
    (\A k \in H2Conns : phase[k] \in {"shake", "serve"} ~> phase[k] = "over")
        => \A k \in H2Conns : phase[k] = "queued" ~> phase[k] \notin {"queued", "hand"}

=============================================================================
