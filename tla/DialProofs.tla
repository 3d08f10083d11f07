----------------------------- MODULE DialProofs -----------------------------
(***************************************************************************)
(* Proofs about Dial.tla: what QUIC's last_addrs may remember, and when a  *)
(* dial may take the backend out of service, for any set of addresses and  *)
(* however the network and the name move.                                  *)
(***************************************************************************)
EXTENDS Dial, SequenceTheorems, TLAPS

(***************************************************************************)
(* Short sequences                                                         *)
(***************************************************************************)
LEMMA BoundedSeqIsSeq ==
    ASSUME NEW S, NEW s
    PROVE  s \in BoundedSeq(S, 2) <=> s \in Seq(S) /\ Len(s) <= 2
<1>1. BoundedSeq(S, 2) = UNION {[1..m -> S] : m \in 0..2}
  BY DEF BoundedSeq, SeqOf
<1>2. ASSUME s \in BoundedSeq(S, 2) PROVE s \in Seq(S) /\ Len(s) <= 2
  <2>1. PICK m \in 0..2 : s \in [1..m -> S]
    BY <1>1, <1>2
  <2> QED
    BY <2>1
<1>3. ASSUME s \in Seq(S), Len(s) <= 2 PROVE s \in BoundedSeq(S, 2)
  <2>1. s \in [1..Len(s) -> S] /\ Len(s) \in Nat
    BY <1>3, LenProperties
  <2>2. Len(s) \in 0..2
    BY <1>3, <2>1
  <2> QED
    BY <1>1, <2>1, <2>2
<1> QED
  BY <1>2, <1>3

\* The loop of connect_addr over its addresses.
LEMMA TailOfBounded ==
    ASSUME NEW S, NEW s \in BoundedSeq(S, 2), s # <<>>
    PROVE  /\ s[1] \in S
           /\ Tail(s) \in BoundedSeq(S, 2)
           /\ Range(s) = {s[1]} \cup Range(Tail(s))
<1>1. s \in Seq(S) /\ Len(s) <= 2
  BY BoundedSeqIsSeq
<1>2. /\ Len(s) \in Nat \ {0} /\ DOMAIN s = 1..Len(s) /\ Tail(s) \in Seq(S)
      /\ Len(Tail(s)) = Len(s) - 1 /\ DOMAIN Tail(s) = 1..Len(s) - 1
      /\ \A i \in 1..Len(s) - 1 : Tail(s)[i] = s[i + 1]
  BY <1>1
<1>3. Tail(s) \in BoundedSeq(S, 2)
  <2>1. Len(Tail(s)) <= 2
    BY <1>1, <1>2
  <2> QED
    BY <1>2, <2>1, BoundedSeqIsSeq
<1>4. s[1] \in S
  BY <1>1, <1>2
<1>5. ASSUME NEW x \in Range(s) PROVE x \in {s[1]} \cup Range(Tail(s))
  <2>1. PICK i \in 1..Len(s) : x = s[i]
    BY <1>2 DEF Range
  <2>2. CASE i # 1
    <3>1. i - 1 \in 1..Len(s) - 1 /\ i = (i - 1) + 1
      BY <1>2, <2>1, <2>2
    <3>2. x = Tail(s)[i - 1]
      BY <1>2, <2>1, <3>1
    <3> QED
      BY <1>2, <3>1, <3>2 DEF Range
  <2> QED
    BY <2>1, <2>2
<1>6. ASSUME NEW x \in Range(Tail(s)) PROVE x \in Range(s)
  <2>1. PICK i \in 1..Len(s) - 1 : x = Tail(s)[i]
    BY <1>2 DEF Range
  <2>2. i + 1 \in 1..Len(s) /\ x = s[i + 1]
    BY <1>2, <2>1
  <2> QED
    BY <1>2, <2>2 DEF Range
<1>7. s[1] \in Range(s)
  BY <1>2 DEF Range
<1> QED
  BY <1>3, <1>4, <1>5, <1>6, <1>7

\* The address at which TcpStream::connect stops is one that the name has.
LEMMA StopIsAddr ==
    ASSUME resolved \in Answers, Stops # {}
    PROVE  Stop \in Addrs
<1>1. resolved \in Seq(Addrs) /\ Len(resolved) <= 2
  BY BoundedSeqIsSeq DEF Answers
<1>2. Stops \subseteq 1..2 /\ \A i \in Stops : resolved[i] \in Addrs
  BY <1>1 DEF Stops
<1>3. \E i \in Stops : \A j \in Stops : i <= j
  <2>1. CASE 1 \in Stops
    BY <1>2, <2>1
  <2>2. CASE 1 \notin Stops
    <3>1. \A i \in Stops : i = 2
      BY <1>2, <2>2
    <3> QED
      BY <3>1
  <2> QED
    BY <2>1, <2>2
<1> QED
  BY <1>2, <1>3 DEF Stop

(***************************************************************************)
(* The inductive invariant                                                 *)
(***************************************************************************)

\* new_connection runs under the mutex, and the client is not connected then.
Dialling ==
    /\ step # "rest" <=> mutex = Dialler
    /\ step # "rest" => inner = "NotConnected"
    /\ step = "last" => last # None
    /\ step = "tls" => at \in Addrs

\* In the loop over the addresses every one that may be used has failed or is
\* still to be tried; no other way to dial has resolved the name.
NoneForgotten ==
    /\ step \in {"look", "last", "tcp", "tls"} => offered = {}
    /\ step = "addr" => \A a \in offered : Allowed(a) => a \in failed \cup Range(todo)

Inv == TypeOK /\ Dialling /\ NoneForgotten /\ CacheProven

LEMMA InvInit == Init => Inv
<1> SUFFICES ASSUME Init PROVE Inv
  OBVIOUS
<1>1. todo \in BoundedSeq(Addrs, 2)
  <2>1. <<>> \in Seq(Addrs) /\ Len(<<>>) <= 2
    OBVIOUS
  <2> QED
    BY <2>1, BoundedSeqIsSeq DEF Init
<1>2. moves \in 0..MaxMoves /\ drops \in 0..MaxDrops /\ switches \in 0..MaxSwitches
  BY DialAssumption DEF Init
<1>3. TypeOK
  BY <1>1, <1>2 DEF Init, ClientInit, TypeOK, ClientState
<1> QED
  BY <1>3, DialAssumption
  DEF Inv, Init, ClientInit, Dialling, NoneForgotten, CacheProven

LEMMA FailsStep ==
    ASSUME Inv, Fails
    PROVE  Inv'
<1>1. todo' \in BoundedSeq(Addrs, 2)
  <2>1. <<>> \in Seq(Addrs) /\ Len(<<>>) <= 2
    OBVIOUS
  <2> QED
    BY <2>1, BoundedSeqIsSeq DEF Fails
<1>2. TypeOK'
  BY <1>1 DEF Inv, TypeOK, Fails, DialErr, ClientState, bounds, history
<1>3. Dialling' /\ NoneForgotten'
  BY DialAssumption DEF Fails, DialErr, Dialling, NoneForgotten
<1>4. CacheProven'
  BY DEF Inv, CacheProven, Allowed, Fails, DialErr, history
<1> QED
  BY <1>2, <1>3, <1>4 DEF Inv

LEMMA ConnectedStep ==
    ASSUME Inv, NEW a \in Addrs, Connected(a),
           a \in proven', proven \subseteq proven', proven' \subseteq Addrs,
           last' = last \/ (last' = a /\ Allowed(a))
    PROVE  Inv'
<1>1. todo' \in BoundedSeq(Addrs, 2)
  <2>1. <<>> \in Seq(Addrs) /\ Len(<<>>) <= 2
    OBVIOUS
  <2> QED
    BY <2>1, BoundedSeqIsSeq DEF Connected
<1>2. TypeOK'
  BY <1>1 DEF Inv, TypeOK, Connected, DialOk, ClientState, bounds
<1>3. Dialling' /\ NoneForgotten'
  BY DialAssumption DEF Connected, DialOk, Dialling, NoneForgotten
<1>4. CacheProven'
  BY DEF Inv, CacheProven, Allowed, Connected, DialOk
<1> QED
  BY <1>2, <1>3, <1>4 DEF Inv

LEMMA QuicStep ==
    ASSUME Inv, LookupHost \/ Skip \/ AddrConnects \/ AddrFails \/ LastConnects
    PROVE  Inv'
<1>0. todo \in BoundedSeq(Addrs, 2)
  BY DEF Inv, TypeOK
<1>1. CASE LookupHost
  <2>1. todo' \in BoundedSeq(Addrs, 2) /\ offered' = Range(todo') /\ offered' \subseteq Addrs
    <3>1. resolved \in BoundedSeq(Addrs, 2) /\ resolved \in Seq(Addrs)
      BY BoundedSeqIsSeq DEF Inv, TypeOK, Answers
    <3>2. Range(resolved) \subseteq Addrs
      BY <3>1 DEF Range
    <3> QED
      BY <1>1, <3>1, <3>2 DEF LookupHost
  <2>2. TypeOK'
    BY <1>1, <2>1 DEF LookupHost, Inv, TypeOK, clientVars, bounds
  <2>3. Dialling' /\ NoneForgotten' /\ CacheProven'
    BY <1>1, <2>1
    DEF LookupHost, Inv, Dialling, NoneForgotten, CacheProven, Allowed, clientVars
  <2> QED
    BY <2>2, <2>3 DEF Inv
<1>2. CASE Skip
  <2>1. todo' \in BoundedSeq(Addrs, 2) /\ Range(todo) = {todo[1]} \cup Range(todo')
        /\ ~Allowed(todo[1])
    BY <1>0, <1>2, TailOfBounded DEF Skip
  <2>2. TypeOK'
    BY <1>2, <2>1 DEF Skip, Inv, TypeOK, clientVars, bounds, history
  <2>3. Dialling' /\ NoneForgotten' /\ CacheProven'
    BY <1>2, <2>1
    DEF Skip, Inv, Dialling, NoneForgotten, CacheProven, Allowed, clientVars, history
  <2> QED
    BY <2>2, <2>3 DEF Inv
<1>3. CASE AddrConnects
  <2>1. todo[1] \in Addrs
    BY <1>0, <1>3, TailOfBounded DEF AddrConnects
  <2>2. proven \subseteq Addrs
    BY DEF Inv, TypeOK
  <2> QED
    BY <1>3, <2>1, <2>2, ConnectedStep DEF AddrConnects
<1>4. CASE AddrFails
  <2>1. todo' \in BoundedSeq(Addrs, 2) /\ Range(todo) = {todo[1]} \cup Range(todo')
        /\ todo[1] \in Addrs
    BY <1>0, <1>4, TailOfBounded DEF AddrFails
  <2>2. TypeOK'
    BY <1>4, <2>1 DEF AddrFails, Inv, TypeOK, clientVars, bounds
  <2>3. Dialling' /\ NoneForgotten' /\ CacheProven'
    BY <1>4, <2>1
    DEF AddrFails, Inv, Dialling, NoneForgotten, CacheProven, Allowed, clientVars
  <2> QED
    BY <2>2, <2>3 DEF Inv
<1>5. CASE LastConnects
  <2>1. last \in proven /\ last \in Addrs /\ proven \subseteq Addrs
    BY <1>5 DEF LastConnects, Inv, TypeOK, Dialling, CacheProven
  <2> QED
    BY <1>5, <2>1, ConnectedStep DEF LastConnects
<1> QED
  BY <1>1, <1>2, <1>3, <1>4, <1>5

LEMMA H2Step ==
    ASSUME Inv, TcpConnects \/ TlsConnects
    PROVE  Inv'
<1>1. CASE TcpConnects
  <2>1. Stop \in Addrs
    BY <1>1, StopIsAddr DEF TcpConnects, Inv, TypeOK
  <2>2. TypeOK'
    BY <1>1, <2>1 DEF TcpConnects, Inv, TypeOK, clientVars, bounds, history
  <2>3. Dialling' /\ NoneForgotten' /\ CacheProven'
    BY <1>1, <2>1
    DEF TcpConnects, Inv, Dialling, NoneForgotten, CacheProven, Allowed, clientVars, history
  <2> QED
    BY <2>2, <2>3 DEF Inv
<1>2. CASE TlsConnects
  <2>1. at \in Addrs /\ proven \subseteq Addrs
    BY <1>2 DEF TlsConnects, Inv, TypeOK, Dialling
  <2> QED
    BY <1>2, <2>1, ConnectedStep DEF TlsConnects
<1> QED
  BY <1>1, <1>2

LEMMA OtherStep ==
    ASSUME Inv, Dial \/ Drop \/ Reset \/ Switch \/ Closes \/ Move \/ Hang \/ UNCHANGED vars
    PROVE  Inv'
<1>0. <<>> \in BoundedSeq(Addrs, 2)
  <2>1. <<>> \in Seq(Addrs) /\ Len(<<>>) <= 2
    OBVIOUS
  <2> QED
    BY <2>1, BoundedSeqIsSeq
<1>1. CASE Dial
  <2>1. /\ step' \in {"look", "last", "tcp"} /\ (step' = "last" => last # None)
        /\ mutex' = Dialler /\ inner' = "NotConnected" /\ offered' = {} /\ failed' = {}
        /\ UNCHANGED <<conf, proto, last, todo, at, resolved, net, bounds, proven>>
    BY <1>1 DEF Dial, StreamDial, Inv, TypeOK
  <2>2. TypeOK'
    BY <2>1 DEF Inv, TypeOK, ClientState, bounds
  <2>3. Dialling' /\ NoneForgotten' /\ CacheProven'
    BY <2>1 DEF Inv, Dialling, NoneForgotten, CacheProven, Allowed
  <2> QED
    BY <2>2, <2>3 DEF Inv
<1>2. CASE Drop
  <2>1. /\ mutex' = NoTask /\ inner' = inner /\ inner # "Live"
        /\ step' = "rest" /\ todo' = <<>> /\ at' = None
        /\ UNCHANGED <<conf, proto, last, resolved, net, moves, switches, history>>
    BY <1>2 DEF Drop, DropStream, Inv, Dialling
  <2>2. drops' \in 0..MaxDrops
    BY <1>2, DialAssumption DEF Drop, Inv, TypeOK
  <2>3. TypeOK'
    BY <1>0, <2>1, <2>2 DEF Inv, TypeOK, history
  <2>4. Dialling' /\ NoneForgotten' /\ CacheProven'
    BY <2>1, DialAssumption DEF Inv, Dialling, NoneForgotten, CacheProven, Allowed, history
  <2> QED
    BY <2>3, <2>4 DEF Inv
<1>3. CASE Reset
  <2>1. TypeOK'
    BY <1>3 DEF Reset, ResetClient, Inv, TypeOK, ClientState, bounds, history
  <2>2. Dialling' /\ NoneForgotten' /\ CacheProven'
    BY <1>3, DialAssumption
    DEF Reset, ResetClient, Inv, Dialling, NoneForgotten, CacheProven, Allowed, history
  <2> QED
    BY <2>1, <2>2 DEF Inv
<1>4. CASE Switch
  <2>1. switches' \in 0..MaxSwitches
    BY <1>4, DialAssumption DEF Switch, Inv, TypeOK
  <2>2. TypeOK'
    BY <1>4, <2>1 DEF Switch, Inv, TypeOK, ClientState
  <2>3. Dialling' /\ NoneForgotten' /\ CacheProven'
    BY <1>4, DialAssumption DEF Switch, Inv, Dialling, NoneForgotten, CacheProven, Allowed
  <2> QED
    BY <2>2, <2>3 DEF Inv
<1>5. CASE Closes
  <2>1. TypeOK'
    BY <1>5 DEF Closes, ConnFinished, Inv, TypeOK, ClientState, bounds, history
  <2>2. Dialling' /\ NoneForgotten' /\ CacheProven'
    BY <1>5
    DEF Closes, ConnFinished, Inv, Dialling, NoneForgotten, CacheProven, Allowed, history
  <2> QED
    BY <2>1, <2>2 DEF Inv
<1>6. CASE Move
  <2>1. moves' \in 0..MaxMoves
    BY <1>6, DialAssumption DEF Move, Inv, TypeOK
  <2>2. net' \in [Addrs -> {"up", "refuses", "silent"}] /\ resolved' \in Answers
    BY <1>6 DEF Move, Inv, TypeOK
  <2>3. TypeOK'
    BY <1>6, <2>1, <2>2 DEF Move, Inv, TypeOK, clientVars, history
  <2>4. Dialling' /\ NoneForgotten' /\ CacheProven'
    BY <1>6 DEF Move, Inv, Dialling, NoneForgotten, CacheProven, Allowed, clientVars, history
  <2> QED
    BY <2>3, <2>4 DEF Inv
<1>7. CASE Hang \/ UNCHANGED vars
  BY <1>7
  DEF Hang, vars, clientVars, bounds, history, Inv, TypeOK, Dialling, NoneForgotten,
      CacheProven, Allowed
<1> QED
  BY <1>1, <1>2, <1>3, <1>4, <1>5, <1>6, <1>7

LEMMA InvStep == Inv /\ [Next]_vars => Inv'
<1> SUFFICES ASSUME Inv, [Next]_vars PROVE Inv'
  OBVIOUS
<1>1. CASE LookupFails \/ NoneLeft \/ LastFails \/ TcpFails \/ TlsFails
  BY <1>1, FailsStep DEF LookupFails, NoneLeft, LastFails, TcpFails, TlsFails
<1> QED
  BY <1>1, QuicStep, H2Step, OtherStep DEF Next, DialStep

LEMMA Invariance == Spec => []Inv
BY InvInit, InvStep, PTL DEF Spec

\* The state of the dial keeps its type.
THEOREM TypeCorrect == Spec => []TypeOK
<1>1. Inv => TypeOK
  BY DEF Inv
<1> QED
  BY <1>1, Invariance, PTL

\* QuicConnConfig::last_addrs is an address that completed a handshake for this
\* configuration and is of a family it may use, and so is that of every
\* connection, whatever is dropped, reset or switched and wherever the server goes.
THEOREM CacheIsProven == Spec => []CacheProven
<1>1. Inv => CacheProven
  BY DEF Inv
<1> QED
  BY <1>1, Invariance, PTL

\* new_connection that resolved the name fails, and so poisons the client, only
\* when every address that connect_addr may use has failed in this dial.
THEOREM PoisonTriesAll == Spec => PoisonedTriedAll
<1>1. Inv /\ [Next]_vars =>
        [inner' = "Poisoned" /\ inner # "Poisoned" =>
           {a \in offered : Allowed(a)} \subseteq failed']_vars
  <2> SUFFICES ASSUME Inv, Next, inner' = "Poisoned", inner # "Poisoned"
               PROVE  {a \in offered : Allowed(a)} \subseteq failed'
    BY DEF vars, clientVars
  <2>1. LookupFails \/ NoneLeft \/ LastFails \/ TcpFails \/ TlsFails
    BY DEF Next, DialStep, Dial, StreamDial, LookupHost, Skip, AddrConnects, AddrFails,
           LastConnects, TcpConnects, TlsConnects, Connected, DialOk, Drop,
           DropStream, Reset, ResetClient, Switch, Closes, ConnFinished, Move, Hang, vars,
           clientVars
  <2>2. failed' = failed
    BY <2>1 DEF LookupFails, NoneLeft, LastFails, TcpFails, TlsFails, Fails, history
  <2>3. CASE NoneLeft
    <3>1. Range(todo) = {}
      BY <2>3 DEF NoneLeft, Range
    <3> QED
      BY <2>2, <2>3, <3>1 DEF NoneLeft, Inv, NoneForgotten
  <2>4. CASE ~NoneLeft
    <3>1. offered = {}
      BY <2>1, <2>4 DEF LookupFails, LastFails, TcpFails, TlsFails, Inv, NoneForgotten
    <3> QED
      BY <3>1
  <2> QED
    BY <2>3, <2>4
<1> QED
  BY <1>1, Invariance, PTL DEF Spec, PoisonedTriedAll

=============================================================================
