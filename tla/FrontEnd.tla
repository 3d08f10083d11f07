------------------------------ MODULE FrontEnd ------------------------------
(***************************************************************************)
(* How a request of a proxy user reaches a handler, and its answer the     *)
(* user: the listener and handle_connection (src/client/src/proxy.rs), the *)
(* names PeerInfo makes of what was asked for (src/client/src/metric.rs)   *)
(* and the HTTP proxy client (src/lib/src/proxy_client).                   *)
(*                                                                         *)
(* A CONNECT is answered 200 and then becomes a tunnel.  Any other request *)
(* is given to an HTTP client whose connector dials the proxy's own        *)
(* listener and sends it a CONNECT (TunnelConnect and Tunnel): such a      *)
(* request is served by two connections, <<u, "user">> and <<u, "self">>,  *)
(* and by two handlers, the first of which waits for the second.           *)
(*                                                                         *)
(* Which backend a CONNECT gets is Routing.tla, what becomes of the tunnel *)
(* is Tunnel.tla; here a route is found, or is not, and a tunnel ends.     *)
(***************************************************************************)
EXTENDS Naturals, Sequences, FiniteSetsExt, SequencesExt

CONSTANTS
    Users,       \* proxy users, each with one request
    Word,        \* the parts names are made of: labels, ports and the colon
    Hosts,       \* what they ask for: [name, port], port "none" if not given
    Rules,       \* the host rules by name: [rewrite, direct]
    ConnectLen   \* units in which the CONNECT of the self connection is written

ASSUME FrontEndAssumption ==
    /\ {":", "80"} \subseteq Word
    /\ \A x \in Hosts : x.name \in Seq(Word) /\ x.port \in (Word \ {":"}) \cup {"none"}
    /\ \A n \in DOMAIN Rules :
         Rules[n].rewrite \in Seq(Word) /\ Rules[n].direct \in BOOLEAN
    /\ ConnectLen \in Nat \ {0}

VARIABLES
    kind,        \* the method of each user's request
    host,        \* the host it names
    svc,         \* the listener's service for each connection
    queue,       \* the channel from the listener to listening_proxy
    handler,     \* handle_connection for each connection
    unsent,      \* what the Tunnel future of a self connection has yet to write
    wire,        \* what was sent to it and is not read
    buf,         \* what it has read
    via,         \* whose self connection carries a user's request
    asked,       \* history: the address a connection's route was asked for
    spoke,       \* history: the target of a self connection spoke unasked
    answer       \* what a user was answered

shake == <<unsent, wire, buf>>
vars == <<kind, host, svc, queue, handler, shake, via, asked, spoke, answer>>

Conns == Users \X {"user", "self"}
User(u) == <<u, "user">>
Self(u) == <<u, "self">>

IsConnect(c) == c[2] = "self" \/ kind[c[1]] = "CONNECT"

(***************************************************************************)
(* The names.  A host is a sequence of parts, ":" being one.               *)
(***************************************************************************)

\* What the request's authority looks like.
Authority(x) == IF x.port = "none" THEN x.name ELSE x.name \o <<":", x.port>>

\* Mutant: the port begins at the first colon.
PortIndexFirst(s) ==
    LET colons == {i \in DOMAIN s : s[i] = ":"} IN
    IF colons = {} THEN 0 ELSE Min(colons)

\* HostPortIndex::new; 0 is Default.
PortIndex(s) ==
    LET colons == {i \in DOMAIN s : s[i] = ":"} IN
    IF colons = {} THEN 0 ELSE Max(colons)

Hostname(s) == IF PortIndex(s) = 0 THEN s ELSE SubSeq(s, 1, PortIndex(s) - 1)

PortStr(s) == IF PortIndex(s) = 0 THEN <<"80">> ELSE SubSeq(s, PortIndex(s) + 1, Len(s))

ValidHost(s) == IF PortIndex(s) = 0 THEN s \o <<":">> \o PortStr(s) ELSE s

\* find_rule, for a file of which HostRuler::new kept Rules
FindRule(s) ==
    IF Hostname(s) \in DOMAIN Rules THEN Rules[Hostname(s)]
    ELSE [rewrite |-> <<>>, direct |-> FALSE]

HostByRule(s) ==
    IF FindRule(s).rewrite # <<>> THEN FindRule(s).rewrite \o <<":">> \o PortStr(s)
    ELSE ValidHost(s)

\* The authority PeerInfo is made of: for a self connection it is what the
\* Tunnel future wrote, the authority of the user's URI.
Peer(c) == Authority(host[c[1]])

(***************************************************************************)
(* The head of the listener's reply to a CONNECT: its first 12 bytes, the  *)
(* status with the 13th, the rest, and the blank line.                     *)
(***************************************************************************)
ReplyHead(status) == <<"HTTP", status, "field", "blank">>

\* What may arrive on a self connection; "byte" is the target's.
ReplyPart == {"HTTP", "200", "431", "field", "blank", "byte"}

\* Mutant: the status line is enough.
VerdictOnStatus(s) ==
    IF Len(s) < 2 THEN "more" ELSE IF s[2] = "200" THEN "ok" ELSE "unsuccessful"

\* What Tunnel makes of the bytes it has; two parts are read.len() > 12.
Verdict(s) ==
    IF Len(s) < 2 THEN "more"
    ELSE IF s[2] # "200" THEN "unsuccessful"
    ELSE IF Last(s) = "blank" THEN "ok" ELSE "more"

-----------------------------------------------------------------------------
TypeOK ==
    /\ kind \in [Users -> {"CONNECT", "other"}]
    /\ host \in [Users -> Hosts]
    /\ svc \in [Conns -> {"none", "upgrading", "upgraded", "waiting", "over"}]
    /\ queue \in Seq(Conns)
    /\ handler \in [Conns -> {"none", "ask", "shake", "sent", "route", "carry", "over"}]
    /\ unsent \in [Users -> 0..ConnectLen]
    /\ wire \in [Users -> Seq(ReplyPart)]
    /\ buf \in [Users -> Seq(ReplyPart)]
    /\ via \in [Users -> Users]
    /\ asked \in [Conns -> Seq(Word)]
    /\ spoke \in [Users -> BOOLEAN]
    /\ answer \in [Users -> {"none", "bad", "200", "error", "response"}]

Init ==
    /\ kind \in [Users -> {"CONNECT", "other"}]
    /\ host \in [Users -> Hosts]
    /\ svc = [c \in Conns |-> "none"]
    /\ queue = <<>>
    /\ handler = [c \in Conns |-> "none"]
    /\ unsent = [u \in Users |-> ConnectLen]
    /\ wire = [u \in Users |-> <<>>]
    /\ buf = [u \in Users |-> <<>>]
    /\ via = [u \in Users |-> u]
    /\ asked = [c \in Conns |-> <<>>]
    /\ spoke = [u \in Users |-> FALSE]
    /\ answer = [u \in Users |-> "none"]

(***************************************************************************)
(* The listener                                                            *)
(***************************************************************************)

\* A request without an authority is refused, and goes no further.
BadRequest(u) ==
    /\ svc[User(u)] = "none"
    /\ svc' = [svc EXCEPT ![User(u)] = "over"]
    /\ answer' = [answer EXCEPT ![u] = "bad"]
    /\ UNCHANGED <<kind, host, queue, handler, shake, via, asked, spoke>>

\* A CONNECT is answered at once; a task waits for the upgrade.  The listener
\* of a self connection has its request when all of it is written.
Connect(c) ==
    /\ IsConnect(c)
    /\ svc[c] = "none"
    /\ svc' = [svc EXCEPT ![c] = "upgrading"]
    /\ \/ /\ c[2] = "user"
          /\ answer' = [answer EXCEPT ![c[1]] = "200"]
          /\ UNCHANGED wire
       \/ /\ c[2] = "self"
          /\ handler[User(c[1])] = "shake"
          /\ unsent[c[1]] = 0
          /\ wire' = [wire EXCEPT ![c[1]] = ReplyHead("200")]
          /\ UNCHANGED answer
    /\ UNCHANGED <<kind, host, queue, handler, unsent, buf, via, asked, spoke>>

\* The HTTP server itself may answer with an error and close, before or after
\* it has the whole request (too long a line, too large a head).
Refuse(u) ==
    /\ handler[User(u)] = "shake"
    /\ unsent[u] < ConnectLen
    /\ svc[Self(u)] = "none"
    /\ svc' = [svc EXCEPT ![Self(u)] = "over"]
    /\ wire' = [wire EXCEPT ![u] = ReplyHead("431")]
    /\ UNCHANGED <<kind, host, queue, handler, unsent, buf, via, asked, spoke, answer>>

\* hyper::upgrade::on gives the connection.
Upgrade(c) ==
    /\ svc[c] = "upgrading"
    /\ svc' = [svc EXCEPT ![c] = "upgraded"]
    /\ queue' = Append(queue, c)
    /\ UNCHANGED <<kind, host, handler, shake, via, asked, spoke, answer>>

\* Any other request waits for what the oneshot channel brings.
NonConnect(u) ==
    /\ ~IsConnect(User(u))
    /\ svc[User(u)] = "none"
    /\ svc' = [svc EXCEPT ![User(u)] = "waiting"]
    /\ queue' = Append(queue, User(u))
    /\ UNCHANGED <<kind, host, handler, shake, via, asked, spoke, answer>>

\* A user who goes away before the upgrade makes it fail, and one who waits
\* takes the receiver along.
UserLeaves(u) ==
    /\ svc[User(u)] \in {"upgrading", "waiting"}
    /\ svc' = [svc EXCEPT ![User(u)] = "over"]
    /\ UNCHANGED <<kind, host, queue, handler, shake, via, asked, spoke, answer>>

(***************************************************************************)
(* listening_proxy                                                         *)
(***************************************************************************)
TakeOver(c) ==
    /\ queue # <<>> /\ c = queue[1]
    /\ queue' = Tail(queue)
    /\ handler' = [handler EXCEPT ![c] = IF IsConnect(c) THEN "route" ELSE "ask"]
    /\ UNCHANGED <<kind, host, svc, shake, via, asked, spoke, answer>>

\* Mutant: handle_connection is awaited, not spawned.
ReceiveInline(c) ==
    /\ \A d \in Conns : handler[d] \in {"none", "over"}
    /\ TakeOver(c)

Receive(c) == TakeOver(c)

(***************************************************************************)
(* handle_connection for a request that is not a CONNECT                   *)
(***************************************************************************)

\* Mutant: an error ends the handler, and with it the sender.
EndOnlyResponse(u, a) ==
    /\ handler' = [handler EXCEPT ![User(u)] = "over"]
    /\ IF a = "response" /\ svc[User(u)] = "waiting"
       THEN /\ svc' = [svc EXCEPT ![User(u)] = "over"]
            /\ answer' = [answer EXCEPT ![u] = a]
       ELSE UNCHANGED <<svc, answer>>

\* tx.send(res): an error of the client is a response too.
EndWith(u, a) ==
    /\ handler' = [handler EXCEPT ![User(u)] = "over"]
    /\ IF svc[User(u)] = "waiting"
       THEN /\ svc' = [svc EXCEPT ![User(u)] = "over"]
            /\ answer' = [answer EXCEPT ![u] = a]
       ELSE UNCHANGED <<svc, answer>>

\* ProxyConnector::call: the own listener is dialled.
Call(u) ==
    /\ handler[User(u)] = "ask"
    /\ handler' = [handler EXCEPT ![User(u)] = "shake"]
    /\ UNCHANGED <<kind, host, svc, queue, shake, via, asked, spoke, answer>>

CallFails(u) ==
    /\ handler[User(u)] = "ask"
    /\ EndWith(u, "error")
    /\ UNCHANGED <<kind, host, queue, shake, via, asked, spoke>>

\* The client takes an idle connection of its pool: one made for the same host
\* that still carries and has answered its requests.
Idle(v) ==
    /\ handler[Self(v)] = "carry"
    /\ \A w \in Users : via[w] = v => handler[User(w)] = "over"

Reuse(u, v) ==
    /\ handler[User(u)] = "ask"
    /\ host[u] = host[v] /\ Idle(v)
    /\ via' = [via EXCEPT ![u] = v]
    /\ handler' = [handler EXCEPT ![User(u)] = "sent"]
    /\ UNCHANGED <<kind, host, svc, queue, shake, asked, spoke, answer>>

\* Mutant: every write begins at the start of the buffer.
TunnelWritesAnew(u) ==
    /\ handler[User(u)] = "shake"
    /\ svc[Self(u)] = "none" /\ unsent[u] > 0
    /\ \E n \in 1..ConnectLen : unsent' = [unsent EXCEPT ![u] = @ - n]
    /\ UNCHANGED <<kind, host, svc, queue, handler, wire, buf, via, asked, spoke, answer>>

\* Tunnel, Writing: some of what is left goes out.
TunnelWrites(u) ==
    /\ handler[User(u)] = "shake"
    /\ svc[Self(u)] = "none"
    /\ \E n \in 1..unsent[u] : unsent' = [unsent EXCEPT ![u] = @ - n]
    /\ UNCHANGED <<kind, host, svc, queue, handler, wire, buf, via, asked, spoke, answer>>

\* Nothing more goes out of a connection that the listener has closed.
TunnelWriteFails(u) ==
    /\ handler[User(u)] = "shake"
    /\ unsent[u] > 0 /\ svc[Self(u)] = "over"
    /\ EndWith(u, "error")
    /\ UNCHANGED <<kind, host, queue, shake, via, asked, spoke>>

\* Tunnel, Reading: some of what has arrived is added to what was read.
TunnelReads(u) ==
    /\ handler[User(u)] = "shake"
    /\ unsent[u] = 0
    /\ \E n \in 1..Len(wire[u]) :
         LET s == buf[u] \o SubSeq(wire[u], 1, n) IN
         /\ buf' = [buf EXCEPT ![u] = s]
         /\ wire' = [wire EXCEPT ![u] = SubSeq(@, n + 1, Len(@))]
         /\ \/ /\ Verdict(s) = "more"
               /\ UNCHANGED <<handler, svc, answer>>
            \/ /\ Verdict(s) = "ok"
               /\ handler' = [handler EXCEPT ![User(u)] = "sent"]
               /\ UNCHANGED <<svc, answer>>
            \/ /\ Verdict(s) = "unsuccessful"
               /\ EndWith(u, "error")
    /\ UNCHANGED <<kind, host, queue, unsent, via, asked, spoke>>

SelfClosed(u) == svc[Self(u)] = "over" \/ handler[Self(u)] = "over"

TunnelReadsEnd(u) ==
    /\ handler[User(u)] = "shake"
    /\ unsent[u] = 0 /\ wire[u] = <<>> /\ SelfClosed(u)
    /\ EndWith(u, "error")
    /\ UNCHANGED <<kind, host, queue, shake, via, asked, spoke>>

\* Over the tunnel the target answers the request,
Response(u) ==
    /\ handler[User(u)] = "sent"
    /\ handler[Self(via[u])] = "carry"
    /\ EndWith(u, "response")
    /\ UNCHANGED <<kind, host, queue, shake, via, asked, spoke>>

\* or the tunnel ends first.
NoResponse(u) ==
    /\ handler[User(u)] = "sent"
    /\ SelfClosed(via[u])
    /\ EndWith(u, "error")
    /\ UNCHANGED <<kind, host, queue, shake, via, asked, spoke>>

(***************************************************************************)
(* handle_connection for a CONNECT                                         *)
(***************************************************************************)

Carry(c) ==
    /\ handler[c] = "route"
    /\ handler' = [handler EXCEPT ![c] = "carry"]
    /\ asked' = [asked EXCEPT ![c] = HostByRule(Peer(c))]
    /\ UNCHANGED <<kind, host, svc, queue, shake, via, spoke, answer>>

\* A backend has opened a stream to the host.
Proxied(c) == ~FindRule(Peer(c)).direct /\ Carry(c)

\* direct_connection has connected to it.
Direct(c) == FindRule(Peer(c)).direct /\ Carry(c)

\* Block, NoBackend, or direct_connection fails: the connection, long since
\* answered 200, is dropped.
Dropped(c) ==
    /\ handler[c] = "route"
    /\ handler' = [handler EXCEPT ![c] = "over"]
    /\ UNCHANGED <<kind, host, svc, queue, shake, via, asked, spoke, answer>>

\* A target may speak although nothing was asked of it yet.
Speaks(u) ==
    /\ handler[Self(u)] = "carry" /\ handler[User(u)] = "shake"
    /\ ~spoke[u]
    /\ spoke' = [spoke EXCEPT ![u] = TRUE]
    /\ \E s \in {"byte", "blank"} : wire' = [wire EXCEPT ![u] = Append(@, s)]
    /\ UNCHANGED <<kind, host, svc, queue, handler, unsent, buf, via, asked, answer>>

CarryEnds(c) ==
    /\ handler[c] = "carry"
    /\ handler' = [handler EXCEPT ![c] = "over"]
    /\ UNCHANGED <<kind, host, svc, queue, shake, via, asked, spoke, answer>>

-----------------------------------------------------------------------------
\* The steps of the program's own tasks, which do not wait for anyone.
Task(c) ==
    \/ Upgrade(c) \/ Receive(c)
    \/ /\ c[2] = "self"
       /\ Connect(c)
    \/ /\ c[2] = "user"
       /\ \/ Call(c[1]) \/ CallFails(c[1]) \/ \E v \in Users : Reuse(c[1], v)
          \/ TunnelWrites(c[1]) \/ TunnelWriteFails(c[1])
          \/ TunnelReads(c[1]) \/ TunnelReadsEnd(c[1])
          \/ NoResponse(c[1])

\* What users, targets and the way to them do.
Outside ==
    \/ \E u \in Users :
         \/ BadRequest(u) \/ Connect(User(u)) \/ NonConnect(u)
         \/ UserLeaves(u) \/ Refuse(u) \/ Response(u) \/ Speaks(u)
    \/ \E c \in Conns : Proxied(c) \/ Direct(c) \/ Dropped(c) \/ CarryEnds(c)

\* Every request of the behaviour is over.
Done ==
    /\ \A u \in Users : svc[User(u)] \in {"upgraded", "over"}
    /\ \A c \in Conns : handler[c] \in {"none", "over"}
    /\ queue = <<>>
    /\ UNCHANGED vars

Tasks == \E c \in Conns : Task(c)

Next == Tasks \/ Outside \/ Done

\* The runtime runs a task that can go on.  No task has an endless loop in a
\* behaviour with so many requests, so that fairness to each is not needed.
Spec == Init /\ [][Next]_vars /\ WF_vars(Tasks)

(***************************************************************************)
(* Properties                                                              *)
(***************************************************************************)

\* `rx.await.unwrap()' does not panic: while the service of a request waits,
\* the sender of its channel is in the queue or with a handler, in one of them
\* only, whatever errors the client meets.
AnswerOwned ==
    \A u \in Users : svc[User(u)] = "waiting" =>
        (User(u) \in Range(queue)) # (handler[User(u)] \in {"ask", "shake", "sent"})

\* When the Tunnel future is done, its CONNECT is written and the head of the
\* reply is read to its end, however both were cut, so that what the HTTP
\* client reads next is the target's; and unless the target spoke unasked,
\* nothing of the target's is lost.
HandshakeExact ==
    \A u \in Users : handler[User(u)] = "sent" /\ via[u] = u =>
        /\ unsent[u] = 0
        /\ IsPrefix(ReplyHead("200"), buf[u])
        /\ ~spoke[u] => buf[u] = ReplyHead("200") /\ wire[u] = <<>>

\* What a host asks for: a rule's name in place of its own, and port 80 if it
\* gives none.
Wanted(x) ==
    LET named == x.name \in DOMAIN Rules /\ Rules[x.name].rewrite # <<>> IN
    (IF named THEN Rules[x.name].rewrite ELSE x.name)
        \o <<":">> \o (IF x.port = "none" THEN <<"80">> ELSE <<x.port>>)

\* An address literal with colons of its own, and no port after them: rfind
\* takes its last colon for the one before a port.
Misread(x) == x.port = "none" /\ ":" \in Range(x.name)

\* A target is asked for under the name and the port that its user wrote or
\* the rules put in their place, a request that went through the proxy's own
\* listener included; and such a request is answered by the target of its own
\* host, over a connection made for another user too.
TargetAsked ==
    /\ \A c \in Conns : asked[c] # <<>> /\ ~Misread(host[c[1]]) =>
          asked[c] = Wanted(host[c[1]])
    /\ \A u \in Users : answer[u] = "response" /\ ~Misread(host[u]) =>
          asked[Self(via[u])] = Wanted(host[u])

\* No request waits for ever: if routes are found or given up, and tunnels
\* end, then every user who asked for something other than a tunnel is
\* answered or has left, although the handler of the request waits for another
\* handler that comes through the same queue.
RoutesEnd ==
    \A c \in Conns : []<>(handler[c] \notin {"route", "carry"})

PlainAnswered ==
    RoutesEnd => \A u \in Users : (svc[User(u)] = "waiting") ~> (svc[User(u)] = "over")

=============================================================================
