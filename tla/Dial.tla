-------------------------------- MODULE Dial --------------------------------
(***************************************************************************)
(* How a client finds its remote server: new_connection of both protocols  *)
(* (QuicConnConfig and H2ConnConfig in src/client/src/connector.rs), under *)
(* the mutex of Client.tla, while the server moves and its name resolves   *)
(* to other addresses.                                                     *)
(*                                                                         *)
(* HTTP/2 resolves the name for every dial and gives all its addresses one *)
(* timeout.  QUIC tries the addresses one by one, remembers the first that *)
(* worked in last_addrs, and from then on tries no other; it waits for a   *)
(* silent address for ever unless max_idle_timeout is configured.          *)
(***************************************************************************)
EXTENDS Naturals, Sequences, SequencesExt, Client

CONSTANTS
    Dialler,     \* the task that wants a stream
    Addrs,       \* socket addresses
    V6,          \* those that are IPv6
    MaxMoves,    \* bound: changes of the network and of the name
    MaxDrops,    \* bound: dials that the caller gives up
    MaxSwitches  \* bound: switches of the protocol

None == "None"

ASSUME DialAssumption ==
    /\ Dialler # NoTask
    /\ V6 \subseteq Addrs /\ None \notin Addrs
    /\ {MaxMoves, MaxDrops, MaxSwitches} \subseteq Nat

VARIABLES
    conf,        \* ipv4_only, use_0rtt, and whether there is a max_idle_timeout
    proto,       \* the protocol of the client
    last,        \* QuicConnConfig::last_addrs
    step,        \* where new_connection is
    todo,        \* the addresses connect_addr has yet to try
    at,          \* the address of the connection, or of the one being made
    resolved,    \* what the remote's name resolves to
    net,         \* how each address answers
    moves, drops, switches,
    proven,      \* history: addresses that completed a handshake of this client
    offered,     \* history: what the name resolved to for this dial
    failed       \* history: addresses that failed in this dial

bounds == <<moves, drops, switches>>
history == <<proven, offered, failed>>
vars == <<clientVars, conf, proto, last, step, todo, at, resolved, net, bounds, history>>

\* What QuicFileConfig::new_builder makes of the backend's file.
Settings == [ipv4_only : BOOLEAN, use_0rtt : BOOLEAN, idle : BOOLEAN]

\* What a name resolves to here: up to two addresses.
Answers == {s \in BoundedSeq(Addrs, 2) : IsInjective(s)}

TypeOK ==
    /\ inner \in ClientState /\ mutex \in {Dialler, NoTask}
    /\ conf \in Settings
    /\ proto \in {"Quic", "HTTP2"}
    /\ last \in Addrs \cup {None}
    /\ step \in {"rest", "look", "addr", "last", "tcp", "tls"}
    /\ todo \in BoundedSeq(Addrs, 2)
    /\ at \in Addrs \cup {None}
    /\ resolved \in Answers
    /\ net \in [Addrs -> {"up", "refuses", "silent"}]
    /\ moves \in 0..MaxMoves /\ drops \in 0..MaxDrops /\ switches \in 0..MaxSwitches
    /\ proven \subseteq Addrs /\ offered \subseteq Addrs /\ failed \subseteq Addrs

Init ==
    /\ ClientInit
    /\ conf \in Settings
    /\ proto \in {"Quic", "HTTP2"}
    /\ last = None /\ step = "rest" /\ todo = <<>> /\ at = None
    /\ resolved \in Answers
    /\ net \in [Addrs -> {"up", "refuses", "silent"}]
    /\ moves = 0 /\ drops = 0 /\ switches = 0
    /\ proven = {} /\ offered = {} /\ failed = {}

\* The addresses connect_addr does not pass over.
Allowed(a) == ~(conf.ipv4_only /\ a \in V6)

\* An attempt by QUIC at an address that is silent ends by the idle timeout.
GivesUp(a) == net[a] = "refuses" \/ (net[a] = "silent" /\ conf.idle)

-----------------------------------------------------------------------------
\* new_stream_fut finds no connection and calls new_connection.
Dial ==
    /\ StreamDial(Dialler)
    /\ step' = CASE proto = "HTTP2" -> "tcp"
                 [] proto = "Quic" /\ last = None -> "look"
                 [] proto = "Quic" /\ last # None -> "last"
    /\ offered' = {} /\ failed' = {}
    /\ UNCHANGED <<conf, proto, last, todo, at, resolved, net, bounds, proven>>

Connected(a) ==
    /\ DialOk(Dialler)
    /\ at' = a
    /\ step' = "rest" /\ todo' = <<>>
    /\ UNCHANGED <<conf, proto, resolved, net, bounds, offered, failed>>

Fails ==
    /\ DialErr(Dialler)
    /\ at' = None
    /\ step' = "rest" /\ todo' = <<>>
    /\ UNCHANGED <<conf, proto, last, resolved, net, bounds, history>>

(***************************************************************************)
(* QuicConnConfig                                                          *)
(***************************************************************************)
\* Mutant: every address is listed twice.
LookupHostTwice ==
    /\ step = "look" /\ resolved # <<>>
    /\ step' = "addr" /\ todo' = resolved \o resolved /\ offered' = Range(resolved)
    /\ UNCHANGED <<clientVars, conf, proto, last, at, resolved, net, bounds, proven, failed>>

LookupHost ==
    /\ step = "look" /\ resolved # <<>>
    /\ step' = "addr" /\ todo' = resolved /\ offered' = Range(resolved)
    /\ UNCHANGED <<clientVars, conf, proto, last, at, resolved, net, bounds, proven, failed>>

LookupFails == step = "look" /\ resolved = <<>> /\ Fails

\* Mutant: an IPv6 address ends the loop.
SkipReturns == step = "addr" /\ todo # <<>> /\ ~Allowed(todo[1]) /\ Fails

\* ipv4_only passes over an IPv6 address.
Skip ==
    /\ step = "addr" /\ todo # <<>> /\ ~Allowed(todo[1])
    /\ todo' = Tail(todo)
    /\ UNCHANGED <<clientVars, conf, proto, last, step, at, resolved, net, bounds, history>>

\* try_connect: an address that completes the handshake is remembered.
AddrConnects ==
    /\ step = "addr" /\ todo # <<>> /\ Allowed(todo[1])
    /\ net[todo[1]] = "up"
    /\ last' = todo[1]
    /\ proven' = proven \cup {todo[1]}
    /\ Connected(todo[1])

\* Mutant: the address is remembered before it has worked.
AddrFailsRemembered ==
    /\ step = "addr" /\ todo # <<>> /\ Allowed(todo[1])
    /\ GivesUp(todo[1])
    /\ last' = todo[1]
    /\ todo' = Tail(todo) /\ failed' = failed \cup {todo[1]}
    /\ UNCHANGED <<clientVars, conf, proto, step, at, resolved, net, bounds, proven, offered>>

\* Mutant: the first failure ends the loop.
AddrFailsReturns ==
    /\ step = "addr" /\ todo # <<>> /\ Allowed(todo[1])
    /\ GivesUp(todo[1])
    /\ Fails

\* The loop goes on to the next address.
AddrFails ==
    /\ step = "addr" /\ todo # <<>> /\ Allowed(todo[1])
    /\ GivesUp(todo[1])
    /\ todo' = Tail(todo) /\ failed' = failed \cup {todo[1]}
    /\ UNCHANGED <<clientVars, conf, proto, last, step, at, resolved, net, bounds, proven, offered>>

NoneLeft == step = "addr" /\ todo = <<>> /\ Fails

\* The remembered address: with 0-RTT, for which an earlier handshake may have
\* left a ticket, the connection is there before anything was heard of it.
LastConnects ==
    /\ step = "last"
    /\ net[last] = "up" \/ conf.use_0rtt
    /\ Connected(last)
    /\ UNCHANGED <<last, proven>>

LastFails == step = "last" /\ GivesUp(last) /\ Fails

(***************************************************************************)
(* H2ConnConfig                                                            *)
(***************************************************************************)

\* The place of the first address at which TcpStream::connect does not go on
\* to the next one.
Stops == {i \in DOMAIN resolved : net[resolved[i]] # "refuses"}
Stop == resolved[CHOOSE i \in Stops : \A j \in Stops : i <= j]

TcpConnects ==
    /\ step = "tcp" /\ Stops # {} /\ net[Stop] = "up"
    /\ step' = "tls" /\ at' = Stop
    /\ UNCHANGED <<clientVars, conf, proto, last, todo, resolved, net, bounds, history>>

\* All addresses refuse, or a silent one uses up the timeout.
TcpFails ==
    /\ step = "tcp" /\ (Stops # {} => net[Stop] = "silent")
    /\ Fails

\* The TLS and the HTTP/2 handshake; no timeout covers them.
TlsConnects ==
    /\ step = "tls" /\ net[at] = "up"
    /\ proven' = proven \cup {at}
    /\ Connected(at)
    /\ UNCHANGED last

TlsFails == step = "tls" /\ net[at] = "refuses" /\ Fails

(***************************************************************************)
(* Others                                                                  *)
(***************************************************************************)

\* The caller's future is dropped: the stream's request was cancelled.
Drop ==
    /\ mutex = Dialler /\ drops < MaxDrops
    /\ DropStream(Dialler)
    /\ drops' = drops + 1
    /\ step' = "rest" /\ todo' = <<>> /\ at' = None
    /\ UNCHANGED <<conf, proto, last, resolved, net, moves, switches, history>>

\* reset_client, by an operator or by retry_connect for a client that failed,
\* keeps the configuration, and last_addrs with it.
Reset ==
    /\ ResetClient
    /\ at' = None
    /\ UNCHANGED <<conf, proto, last, step, todo, resolved, net, bounds, history>>

\* switch_protocol builds a client with a configuration of its own.
Switch ==
    /\ mutex = NoTask /\ switches < MaxSwitches
    /\ switches' = switches + 1
    /\ proto' = IF proto = "Quic" THEN "HTTP2" ELSE "Quic"
    /\ inner' = "NotConnected"
    /\ last' = None /\ at' = None /\ proven' = {}
    /\ UNCHANGED <<mutex, conf, step, todo, resolved, net, moves, drops, offered, failed>>

\* The connection's task ends: the server closed it, or its loss was noticed.
Closes ==
    /\ ConnFinished
    /\ UNCHANGED <<conf, proto, last, step, todo, at, resolved, net, bounds, history>>

Move ==
    /\ moves < MaxMoves
    /\ moves' = moves + 1
    /\ \/ /\ \E a \in Addrs, s \in {"up", "refuses", "silent"} : net' = [net EXCEPT ![a] = s]
          /\ UNCHANGED resolved
       \/ /\ resolved' \in Answers
          /\ UNCHANGED net
    /\ UNCHANGED <<clientVars, conf, proto, last, step, todo, at, drops, switches, history>>

\* The dial waits for a silent address, and no timeout will end that.
Waits ==
    \/ step = "tls" /\ net[at] = "silent"
    \/ ~conf.idle /\ step = "addr" /\ todo # <<>> /\ net[todo[1]] = "silent"
    \/ ~conf.idle /\ step = "last" /\ net[last] = "silent"

Hang == Waits /\ UNCHANGED vars

\* The steps of a dial that is under way.
DialStep ==
    \/ LookupHost \/ LookupFails
    \/ Skip \/ AddrConnects \/ AddrFails \/ NoneLeft \/ LastConnects \/ LastFails
    \/ TcpConnects \/ TcpFails \/ TlsConnects \/ TlsFails

Next == Dial \/ DialStep \/ Drop \/ Reset \/ Switch \/ Closes \/ Move \/ Hang

-----------------------------------------------------------------------------
(***************************************************************************)
(* The caller polls a dial that is under way, and answers arrive.  Whether *)
(* anybody dials again is not assumed: connections do as they come, and    *)
(* retry_forever only until its max_retries are used up.                   *)
(***************************************************************************)
Spec == Init /\ [][Next]_vars /\ WF_vars(DialStep)

\* last_addrs is an address that once completed a handshake for this client's
\* configuration, and of a family it may use; an address that failed, or that
\* another protocol reached, is never remembered, whatever is dropped or moves
\* in between.  A connection is to such an address too.
CacheProven ==
    /\ last # None => last \in proven /\ Allowed(last)
    /\ inner = "Live" => at \in proven

\* Poisoned takes the backend out of service.  A QUIC dial that resolved the
\* name does that only when every address it may use has failed.
PoisonedTriedAll ==
    [][inner' = "Poisoned" /\ inner # "Poisoned" =>
         {a \in offered : Allowed(a)} \subseteq failed']_vars

\* The server can be found: by HTTP/2 if an address that answers comes before
\* any silent one; by QUIC if the remembered address answers or, while none is
\* remembered, if one does that comes before any silent one it waits for.
Findable ==
    IF proto = "HTTP2" THEN Stops # {} /\ net[Stop] = "up"
    ELSE IF last # None THEN net[last] = "up"
    ELSE \E i \in DOMAIN resolved :
           /\ Allowed(resolved[i]) /\ net[resolved[i]] = "up"
           /\ \A j \in 1..i - 1 :
                Allowed(resolved[j]) /\ net[resolved[j]] = "silent" => conf.idle

\* new_connection has begun, and has not looked for an address yet.
Begun == mutex = Dialler /\ step \in {"look", "last", "tcp"}

\* Every dial comes to an end and gives the client's mutex back, unless it waits
\* for a silent address with no timeout.  And one that begins when the server can
\* be found, while the network stays as it is, ends with a connection: it does
\* not poison the client, whatever earlier dials failed, remembered or left
\* behind.  It may be dropped by its caller.
DialReaches ==
    /\ mutex = Dialler ~> mutex = NoTask \/ Waits
    /\ \A m \in 0..MaxMoves :
         Begun /\ Findable /\ moves = m ~>
            (mutex = NoTask /\ inner # "Poisoned") \/ moves # m

=============================================================================
