--------------------------- MODULE FrontEndProofs ---------------------------
(***************************************************************************)
(* Proofs about FrontEnd.tla: a request has one owner, the self            *)
(* connection's handshake is exact and a target is asked for by its name,  *)
(* for any number of users, any hosts and any rules.                       *)
(***************************************************************************)
EXTENDS FrontEnd, NaturalsInduction, WellFoundedInduction, SequenceTheorems, TLAPS

(***************************************************************************)
(* Connections and steps                                                   *)
(***************************************************************************)
LEMMA ConnFacts ==
    /\ \A u \in Users : User(u) \in Conns /\ Self(u) \in Conns
    /\ \A u, v \in Users : User(u) # Self(v)
    /\ \A u, v \in Users : User(u) = User(v) => u = v
    /\ \A u, v \in Users : Self(u) = Self(v) => u = v
    /\ \A u : User(u)[1] = u /\ Self(u)[1] = u /\ User(u)[2] = "user" /\ Self(u)[2] = "self"
    /\ \A c \in Conns : c[1] \in Users /\ c[2] \in {"user", "self"}
    /\ \A c \in Conns : c[2] = "user" => c = User(c[1])
    /\ \A c \in Conns : c[2] = "self" => c = Self(c[1])
BY DEF Conns, User, Self

\* The steps of one connection, and those of one user's request.
ConnStep(c) ==
    Connect(c) \/ Upgrade(c) \/ Receive(c) \/ Carry(c) \/ Dropped(c) \/ CarryEnds(c)

ListenerStep(u) == BadRequest(u) \/ NonConnect(u) \/ UserLeaves(u) \/ Refuse(u)

\* The steps of the handler of a request that is not a CONNECT, up to the end of
\* its handshake, and those that end it.
AskStep(u) ==
    Call(u) \/ (\E v \in Users : Reuse(u, v)) \/ TunnelWrites(u) \/ TunnelReads(u) \/ Speaks(u)

EndStep(u) ==
    CallFails(u) \/ TunnelWriteFails(u) \/ TunnelReadsEnd(u) \/ Response(u) \/ NoResponse(u)

LEMMA Steps ==
    ASSUME [Next]_vars
    PROVE  \/ \E c \in Conns : ConnStep(c)
           \/ \E u \in Users : ListenerStep(u) \/ AskStep(u) \/ EndStep(u)
           \/ UNCHANGED vars
<1>1. CASE \E c \in Conns : Task(c)
  <2>1. PICK c \in Conns : Task(c)
    BY <1>1
  <2>2. c[1] \in Users
    BY ConnFacts
  <2> QED
    BY <2>1, <2>2 DEF Task, ConnStep, AskStep, EndStep
<1>2. CASE Outside
  BY <1>2, ConnFacts
  DEF Outside, ConnStep, ListenerStep, AskStep, EndStep, Proxied, Direct
<1> QED
  BY <1>1, <1>2 DEF Next, Tasks, Done

(***************************************************************************)
(* Names                                                                   *)
(***************************************************************************)
LEMMA LeastNat ==
    ASSUME NEW T, T \subseteq Nat, T # {}
    PROVE  \E x \in T : \A y \in T : x <= y
<1>1. PICK x \in T : \A y \in T : ~(<<y, x>> \in OpToRel(<, Nat))
  BY NatLessThanWellFounded, WFMin
<1>2. \A y \in T : ~(y < x)
  BY <1>1 DEF OpToRel
<1> QED
  BY <1>2

LEMMA MaxFacts ==
    ASSUME NEW n \in Nat, NEW S, S \subseteq 1..n, S # {}
    PROVE  Max(S) \in S /\ \A y \in S : Max(S) >= y
<1> DEFINE T == {n - x : x \in S}
<1>1. T \subseteq Nat /\ T # {}
  <2>1. ASSUME NEW x \in S PROVE n - x \in Nat
    OBVIOUS
  <2>2. T \subseteq Nat
    BY <2>1
  <2>3. T # {}
    OBVIOUS
  <2> QED
    BY <2>2, <2>3
<1>2. PICK t \in T : \A y \in T : t <= y
  BY <1>1, LeastNat
<1>3. PICK x \in S : t = n - x
  BY <1>2
<1>4. \A y \in S : n - x <= n - y
  BY <1>2, <1>3
<1>5. \A y \in S : x >= y
  BY <1>4
<1> QED
  BY <1>3, <1>5 DEF Max

Colons(s) == {i \in DOMAIN s : s[i] = ":"}

LEMMA PortIndexFacts ==
    ASSUME NEW s \in Seq(Word)
    PROVE  /\ Colons(s) = {} => PortIndex(s) = 0
           /\ Colons(s) # {} => /\ PortIndex(s) \in 1..Len(s)
                                /\ s[PortIndex(s)] = ":"
                                /\ \A i \in Colons(s) : i <= PortIndex(s)
<1>1. Len(s) \in Nat /\ Colons(s) \subseteq 1..Len(s)
  BY DEF Colons
<1>2. PortIndex(s) = IF Colons(s) = {} THEN 0 ELSE Max(Colons(s))
  BY DEF PortIndex, Colons
<1>3. ASSUME Colons(s) # {}
      PROVE  Max(Colons(s)) \in Colons(s) /\ \A i \in Colons(s) : Max(Colons(s)) >= i
  BY <1>1, <1>3, MaxFacts
<1>4. \A i \in Colons(s) : i \in 1..Len(s) /\ s[i] = ":"
  BY DEF Colons
<1> QED
  BY <1>1, <1>2, <1>3, <1>4

Words(s) == s \in Seq(Word)

LEMMA WordsConcat ==
    ASSUME NEW s, NEW t, Words(s), Words(t)
    PROVE  /\ Words(s \o t)
           /\ Len(s \o t) = Len(s) + Len(t) /\ Len(s) \in Nat /\ Len(t) \in Nat
           /\ \A i \in 1..Len(s) : (s \o t)[i] = s[i]
           /\ \A i \in 1..Len(t) : (s \o t)[Len(s) + i] = t[i]
<1>1. /\ s \o t \in Seq(Word) /\ Len(s \o t) = Len(s) + Len(t)
      /\ \A i \in 1..Len(s) + Len(t) :
           (s \o t)[i] = IF i <= Len(s) THEN s[i] ELSE t[i - Len(s)]
  BY ConcatProperties DEF Words
<1>2. Len(s) \in Nat /\ Len(t) \in Nat
  BY DEF Words
<1>3. \A i \in 1..Len(s) : i \in 1..Len(s) + Len(t) /\ i <= Len(s)
  BY <1>2
<1>4. \A i \in 1..Len(t) :
        /\ Len(s) + i \in 1..Len(s) + Len(t) /\ ~(Len(s) + i <= Len(s))
        /\ Len(s) + i - Len(s) = i
  BY <1>2
<1> QED
  BY <1>1, <1>2, <1>3, <1>4 DEF Words

LEMMA WordsSub ==
    ASSUME NEW s, Words(s), NEW m \in 1..Len(s) + 1, NEW n \in 0..Len(s)
    PROVE  Words(SubSeq(s, m, n))
<1>1. Len(s) \in Nat
  BY DEF Words
<1>2. \A i \in m..n : i \in 1..Len(s)
  BY <1>1
<1>3. \A i \in m..n : s[i] \in Word
  BY <1>2 DEF Words
<1>4. m \in Int /\ n \in Int
  BY <1>1
<1> QED
  BY <1>3, <1>4, SubSeqProperties DEF Words

\* Every name PeerInfo makes of a host is a name.
LEMMA NamesAreWords ==
    ASSUME NEW s, Words(s)
    PROVE  Words(PortStr(s)) /\ Words(HostByRule(s))
<1>1. Len(s) \in Nat /\ PortIndex(s) \in 0..Len(s)
  BY PortIndexFacts DEF Words
<1>0. ":" \in Word /\ "80" \in Word
  BY FrontEndAssumption
<1>2. Words(PortStr(s))
  <2>1. CASE PortIndex(s) = 0
    BY <1>0, <2>1 DEF PortStr, Words
  <2>2. CASE PortIndex(s) # 0
    <3>1. PortIndex(s) + 1 \in 1..Len(s) + 1 /\ Len(s) \in 0..Len(s)
      BY <1>1
    <3>2. Words(SubSeq(s, PortIndex(s) + 1, Len(s)))
      BY <3>1, WordsSub
    <3> QED
      BY <2>2, <3>2 DEF PortStr
  <2> QED
    BY <2>1, <2>2
<1>3. Words(<<":">>)
  BY <1>0 DEF Words
<1>4. Words(ValidHost(s))
  BY <1>2, <1>3, WordsConcat DEF ValidHost
<1>5. Words(FindRule(s).rewrite)
  BY FrontEndAssumption DEF FindRule, Words
<1>6. Words(FindRule(s).rewrite \o <<":">> \o PortStr(s))
  BY <1>2, <1>3, <1>5, WordsConcat
<1> QED
  BY <1>2, <1>4, <1>6 DEF HostByRule

LEMMA AuthorityIsWords ==
    ASSUME NEW x \in Hosts
    PROVE  Words(Authority(x)) /\ Words(x.name) /\ (x.port # "none" => x.port \in Word /\ x.port # ":")
<1>1. Words(x.name) /\ (x.port # "none" => x.port \in Word /\ x.port # ":")
  BY FrontEndAssumption DEF Words
<1>2. ASSUME x.port # "none" PROVE Words(<<":", x.port>>)
  <2>1. ":" \in Word /\ x.port \in Word
    BY <1>1, <1>2, FrontEndAssumption
  <2> QED
    BY <2>1 DEF Words
<1> QED
  BY <1>1, <1>2, WordsConcat DEF Authority

\* rfind(':') finds the colon before the port, whatever colons the name has.
LEMMA PortFound ==
    ASSUME NEW x \in Hosts, x.port # "none"
    PROVE  /\ PortIndex(Authority(x)) = Len(x.name) + 1
           /\ Hostname(Authority(x)) = x.name
           /\ PortStr(Authority(x)) = <<x.port>>
           /\ Authority(x) = x.name \o <<":">> \o <<x.port>>
<1> DEFINE s == x.name \o <<":", x.port>>  n == Len(x.name)
<1>1. Authority(x) = s /\ Words(x.name) /\ x.port \in Word /\ x.port # ":" /\ ":" \in Word
  BY AuthorityIsWords, FrontEndAssumption DEF Authority
<1>2. Words(<<":", x.port>>) /\ Len(<<":", x.port>>) = 2
      /\ <<":", x.port>>[1] = ":" /\ <<":", x.port>>[2] = x.port
  <2>1. x.port \in Word /\ ":" \in Word
    BY <1>1
  <2> QED
    BY <2>1 DEF Words
<1>3. /\ Words(s) /\ n \in Nat /\ Len(s) = n + 2
      /\ \A i \in 1..n : s[i] = x.name[i]
      /\ s[n + 1] = ":" /\ s[n + 2] = x.port
  <2> DEFINE p == <<":", x.port>>
  <2>1. Words(p) /\ Len(p) = 2 /\ p[1] = ":" /\ p[2] = x.port
    BY <1>2
  <2> HIDE DEF p
  <2>2. /\ Words(x.name \o p) /\ Len(x.name \o p) = n + Len(p) /\ n \in Nat
        /\ \A i \in 1..n : (x.name \o p)[i] = x.name[i]
        /\ \A i \in 1..Len(p) : (x.name \o p)[n + i] = p[i]
    <3> DEFINE a == x.name
    <3>1. Words(a) /\ Words(p)
      BY <1>1, <2>1
    <3> HIDE DEF a
    <3>2. /\ Words(a \o p) /\ Len(a \o p) = Len(a) + Len(p) /\ Len(a) \in Nat
          /\ \A i \in 1..Len(a) : (a \o p)[i] = a[i]
          /\ \A i \in 1..Len(p) : (a \o p)[Len(a) + i] = p[i]
      BY <3>1, WordsConcat
    <3> QED
      BY <3>2 DEF a
  <2>3. s = x.name \o p
    BY DEF p
  <2>4. 1 \in 1..Len(p) /\ 2 \in 1..Len(p)
    BY <2>1
  <2>5. s[n + 1] = p[1] /\ s[n + 2] = p[2]
    BY <2>2, <2>3, <2>4
  <2> QED
    BY <2>1, <2>2, <2>3, <2>5
<1> HIDE DEF s
<1>4. PortIndex(s) = n + 1
  <2>1. n + 1 \in Colons(s) /\ DOMAIN s = 1..n + 2
    BY <1>3 DEF Colons, Words
  <2>2. PortIndex(s) \in 1..n + 2 /\ s[PortIndex(s)] = ":" /\ n + 1 <= PortIndex(s)
    BY <1>3, <2>1, PortIndexFacts DEF Words
  <2>3. PortIndex(s) # n + 2
    BY <1>1, <1>3, <2>2
  <2> QED
    BY <1>3, <2>2, <2>3
<1>5. Hostname(s) = x.name
  <2> DEFINE h == SubSeq(s, 1, n)
  <2>1. Hostname(s) = h
    BY <1>3, <1>4 DEF Hostname
  <2>2. \A i \in 1..n : s[i] \in Word
    BY <1>3 DEF Words
  <2>3. h \in Seq(Word) /\ Len(h) = n /\ \A i \in 1..n : h[i] = s[i]
    BY <1>3, <2>2, SubSeqProperties
  <2> HIDE DEF h
  <2>4. h = x.name
    <3>1. x.name \in Seq(Word) /\ \A i \in 1..n : h[i] = x.name[i]
      BY <1>1, <1>3, <2>3 DEF Words
    <3> QED
      BY <2>3, <3>1, SeqEqual
  <2> QED
    BY <2>1, <2>4
<1>6. PortStr(s) = <<x.port>>
  <2> DEFINE h == SubSeq(s, n + 2, n + 2)
  <2>1. PortStr(s) = h
    BY <1>3, <1>4 DEF PortStr
  <2>2. h \in Seq(Word) /\ Len(h) = 1 /\ h[1] = s[n + 2]
    <3>1. \A i \in n + 2..n + 2 : s[i] \in Word
      BY <1>1, <1>3
    <3>2. n + 2 \in Int /\ n + 2 <= n + 2 /\ n + 2 - (n + 2) + 1 = 1 /\ n + 2 + 1 - 1 = n + 2
      BY <1>3
    <3> QED
      BY <3>1, <3>2, SubSeqProperties
  <2> HIDE DEF h
  <2>3. h = <<x.port>>
    BY <1>3, <2>2
  <2> QED
    BY <2>1, <2>3
<1>7. s = x.name \o <<":">> \o <<x.port>>
  <2>1. <<":", x.port>> = <<":">> \o <<x.port>>
    BY <1>1
  <2>2. x.name \in Seq(Word) /\ <<":">> \in Seq(Word) /\ <<x.port>> \in Seq(Word)
    BY <1>1 DEF Words
  <2>3. x.name \o <<":">> \o <<x.port>> = x.name \o (<<":">> \o <<x.port>>)
    BY <2>2, ConcatAssociative
  <2> QED
    BY <2>1, <2>3 DEF s
<1> QED
  BY <1>1, <1>4, <1>5, <1>6, <1>7

\* Without a port and without a colon in the name there is nothing to take for
\* a port.
LEMMA NoPortFound ==
    ASSUME NEW x \in Hosts, x.port = "none", ~Misread(x)
    PROVE  /\ PortIndex(Authority(x)) = 0 /\ Hostname(Authority(x)) = x.name
           /\ PortStr(Authority(x)) = <<"80">> /\ Authority(x) = x.name
<1>1. Authority(x) = x.name /\ x.name \in Seq(Word)
  BY AuthorityIsWords DEF Authority, Words
<1>2. Colons(x.name) = {}
  BY DEF Misread, Range, Colons
<1>3. PortIndex(x.name) = 0
  BY <1>1, <1>2, PortIndexFacts
<1> QED
  BY <1>1, <1>3 DEF Hostname, PortStr

\* A host is asked for under the name and port that are wanted.
LEMMA HostByRuleIsWanted ==
    ASSUME NEW x \in Hosts, ~Misread(x)
    PROVE  HostByRule(Authority(x)) = Wanted(x)
<1> DEFINE s == Authority(x)
<1>1. /\ Hostname(s) = x.name
      /\ PortStr(s) = IF x.port = "none" THEN <<"80">> ELSE <<x.port>>
      /\ ValidHost(s) = x.name \o <<":">> \o PortStr(s)
  <2>1. CASE x.port = "none"
    BY <2>1, NoPortFound DEF ValidHost
  <2>2. CASE x.port # "none"
    <3>1. PortIndex(s) = Len(x.name) + 1
      BY <2>2, PortFound
    <3>2. PortIndex(s) # 0
      <4>1. x.name \in Seq(Word)
        BY AuthorityIsWords DEF Words
      <4>2. Len(x.name) \in Nat
        BY <4>1
      <4> QED
        BY <3>1, <4>2
    <3> QED
      BY <2>2, <3>2, PortFound DEF ValidHost
  <2> QED
    BY <2>1, <2>2
<1> HIDE DEF s
<1>2. FindRule(s) = IF x.name \in DOMAIN Rules THEN Rules[x.name]
                    ELSE [rewrite |-> <<>>, direct |-> FALSE]
  BY <1>1 DEF FindRule
<1> DEFINE p == PortStr(s)  r == FindRule(s).rewrite
           named == x.name \in DOMAIN Rules /\ Rules[x.name].rewrite # <<>>
<1>3. HostByRule(s) = IF r # <<>> THEN r \o <<":">> \o p ELSE x.name \o <<":">> \o p
  BY <1>1 DEF HostByRule
<1>4. Wanted(x) = (IF named THEN Rules[x.name].rewrite ELSE x.name) \o <<":">> \o p
  BY <1>1 DEF Wanted
<1>5. (named <=> r # <<>>) /\ (named => r = Rules[x.name].rewrite)
  BY <1>2
<1> HIDE DEF p, r, named
<1>6. HostByRule(s) = Wanted(x)
  BY <1>3, <1>4, <1>5
<1> QED
  BY <1>6 DEF s

(***************************************************************************)
(* Types                                                                   *)
(***************************************************************************)
StateOK ==
    /\ kind \in [Users -> {"CONNECT", "other"}]
    /\ host \in [Users -> Hosts]
    /\ svc \in [Conns -> {"none", "upgrading", "upgraded", "waiting", "over"}]
    /\ handler \in [Conns -> {"none", "ask", "shake", "sent", "route", "carry", "over"}]
    /\ via \in [Users -> Users]
    /\ spoke \in [Users -> BOOLEAN]
    /\ answer \in [Users -> {"none", "bad", "200", "error", "response"}]

ShakeOK ==
    /\ unsent \in [Users -> 0..ConnectLen]
    /\ wire \in [Users -> Seq(ReplyPart)]
    /\ buf \in [Users -> Seq(ReplyPart)]

QueueOK == queue \in Seq(Conns)

AskedOK == asked \in [Conns -> Seq(Word)]

LEMMA TypeParts == TypeOK <=> StateOK /\ ShakeOK /\ QueueOK /\ AskedOK
BY DEF TypeOK, StateOK, ShakeOK, QueueOK, AskedOK

\* What the steps do to the state but for the handshake.
LEMMA EndWithState ==
    ASSUME StateOK, NEW u \in Users, NEW a \in {"error", "response"}, EndWith(u, a)
    PROVE  /\ svc' \in [Conns -> {"none", "upgrading", "upgraded", "waiting", "over"}]
           /\ handler' \in [Conns -> {"none", "ask", "shake", "sent", "route", "carry", "over"}]
           /\ answer' \in [Users -> {"none", "bad", "200", "error", "response"}]
<1>1. User(u) \in Conns
  BY ConnFacts
<1>2. handler' \in [Conns -> {"none", "ask", "shake", "sent", "route", "carry", "over"}]
  BY <1>1 DEF StateOK, EndWith
<1>3. svc' \in [Conns -> {"none", "upgrading", "upgraded", "waiting", "over"}]
  BY <1>1 DEF StateOK, EndWith
<1>4. answer' \in [Users -> {"none", "bad", "200", "error", "response"}]
  BY DEF StateOK, EndWith
<1> QED
  BY <1>2, <1>3, <1>4

LEMMA StateStep ==
    ASSUME StateOK, [Next]_vars
    PROVE  StateOK'
<1>1. ASSUME NEW c \in Conns, ConnStep(c) PROVE StateOK'
  <2>1. CASE Connect(c)
    BY <2>1, ConnFacts DEF Connect, StateOK
  <2>2. CASE Upgrade(c) \/ Carry(c) \/ Dropped(c) \/ CarryEnds(c)
    BY <2>2 DEF Upgrade, Carry, Dropped, CarryEnds, StateOK
  <2>3. CASE Receive(c)
    BY <2>3 DEF Receive, TakeOver, StateOK
  <2> QED
    BY <1>1, <2>1, <2>2, <2>3 DEF ConnStep
<1>2. ASSUME NEW u \in Users, ListenerStep(u) PROVE StateOK'
  <2>0. User(u) \in Conns /\ Self(u) \in Conns
    BY ConnFacts
  <2>1. CASE BadRequest(u)
    BY <2>0, <2>1 DEF BadRequest, StateOK
  <2>2. CASE NonConnect(u)
    BY <2>0, <2>2 DEF NonConnect, StateOK
  <2>3. CASE UserLeaves(u)
    BY <2>0, <2>3 DEF UserLeaves, StateOK
  <2>4. CASE Refuse(u)
    BY <2>0, <2>4 DEF Refuse, StateOK
  <2> QED
    BY <1>2, <2>1, <2>2, <2>3, <2>4 DEF ListenerStep
<1>3. ASSUME NEW u \in Users, AskStep(u) PROVE StateOK'
  <2>0. User(u) \in Conns /\ Self(u) \in Conns
    BY ConnFacts
  <2>1. CASE Call(u)
    BY <2>0, <2>1 DEF Call, StateOK
  <2>4. CASE TunnelWrites(u)
    BY <2>4 DEF TunnelWrites, StateOK
  <2>5. CASE Speaks(u)
    BY <2>5 DEF Speaks, StateOK
  <2>2. CASE \E v \in Users : Reuse(u, v)
    BY <2>2, ConnFacts DEF Reuse, StateOK
  <2>3. CASE TunnelReads(u)
    <3>1. /\ UNCHANGED <<kind, host, via, spoke>>
          /\ \/ UNCHANGED <<handler, svc, answer>>
             \/ /\ handler' = [handler EXCEPT ![User(u)] = "sent"]
                /\ UNCHANGED <<svc, answer>>
             \/ EndWith(u, "error")
      BY <2>3 DEF TunnelReads
    <3> QED
      BY <3>1, ConnFacts, EndWithState DEF StateOK
  <2> QED
    BY <1>3, <2>1, <2>2, <2>3, <2>4, <2>5 DEF AskStep
<1>4. ASSUME NEW u \in Users, EndStep(u) PROVE StateOK'
  <2>1. UNCHANGED <<kind, host, via, spoke>> /\ \E a \in {"error", "response"} : EndWith(u, a)
    BY <1>4 DEF EndStep, CallFails, TunnelWriteFails, TunnelReadsEnd, Response, NoResponse
  <2> QED
    BY <2>1, EndWithState DEF StateOK
<1>5. CASE UNCHANGED vars
  BY <1>5 DEF vars, StateOK
<1> QED
  BY <1>1, <1>2, <1>3, <1>4, <1>5, Steps

\* A queue loses its first element or gets a new last one.
LEMMA QueueSteps ==
    ASSUME [Next]_vars
    PROVE  \/ UNCHANGED queue
           \/ queue # <<>> /\ queue' = Tail(queue)
           \/ \E c \in Conns : queue' = Append(queue, c)
<1>1. ASSUME NEW c \in Conns, ConnStep(c)
      PROVE  \/ UNCHANGED queue \/ (queue # <<>> /\ queue' = Tail(queue))
             \/ queue' = Append(queue, c)
  BY <1>1 DEF ConnStep, Connect, Upgrade, Receive, TakeOver, Carry, Dropped, CarryEnds
<1>2. ASSUME NEW u \in Users, ListenerStep(u)
      PROVE  UNCHANGED queue \/ queue' = Append(queue, User(u))
  BY <1>2 DEF ListenerStep, BadRequest, NonConnect, UserLeaves, Refuse
<1>3. ASSUME NEW u \in Users, AskStep(u) PROVE UNCHANGED queue
  BY <1>3 DEF AskStep, Call, Reuse, TunnelWrites, TunnelReads, Speaks
<1>4. ASSUME NEW u \in Users, EndStep(u) PROVE UNCHANGED queue
  BY <1>4 DEF EndStep, CallFails, TunnelWriteFails, TunnelReadsEnd, Response, NoResponse
<1>5. CASE UNCHANGED vars
  BY <1>5 DEF vars
<1> QED
  BY <1>1, <1>2, <1>3, <1>4, <1>5, Steps, ConnFacts

LEMMA QueueStep == QueueOK /\ [Next]_vars => QueueOK'
<1> SUFFICES ASSUME QueueOK, [Next]_vars PROVE QueueOK'
  OBVIOUS
<1>1. CASE UNCHANGED queue
  BY <1>1 DEF QueueOK
<1>2. CASE queue # <<>> /\ queue' = Tail(queue)
  BY <1>2 DEF QueueOK
<1>3. CASE \E c \in Conns : queue' = Append(queue, c)
  BY <1>3 DEF QueueOK
<1> QED
  BY <1>1, <1>2, <1>3, QueueSteps

\* Only a handler that has a route asks for an address.
LEMMA AskedSteps ==
    ASSUME [Next]_vars
    PROVE  \/ UNCHANGED asked
           \/ \E c \in Conns : handler[c] = "route" /\ Carry(c)
<1>1. ASSUME NEW c \in Conns, ConnStep(c) PROVE UNCHANGED asked \/ (handler[c] = "route" /\ Carry(c))
  BY <1>1 DEF ConnStep, Connect, Upgrade, Receive, TakeOver, Carry, Dropped, CarryEnds
<1>2. ASSUME NEW u \in Users, ListenerStep(u) PROVE UNCHANGED asked
  BY <1>2 DEF ListenerStep, BadRequest, NonConnect, UserLeaves, Refuse
<1>3. ASSUME NEW u \in Users, AskStep(u) PROVE UNCHANGED asked
  BY <1>3 DEF AskStep, Call, Reuse, TunnelWrites, TunnelReads, Speaks
<1>4. ASSUME NEW u \in Users, EndStep(u) PROVE UNCHANGED asked
  BY <1>4 DEF EndStep, CallFails, TunnelWriteFails, TunnelReadsEnd, Response, NoResponse
<1>5. CASE UNCHANGED vars
  BY <1>5 DEF vars
<1> QED
  BY <1>1, <1>2, <1>3, <1>4, <1>5, Steps

LEMMA AskedStep ==
    ASSUME StateOK, AskedOK, [Next]_vars
    PROVE  AskedOK'
<1>1. CASE UNCHANGED asked
  BY <1>1 DEF AskedOK
<1>2. CASE \E c \in Conns : handler[c] = "route" /\ Carry(c)
  <2>1. PICK c \in Conns : Carry(c)
    BY <1>2
  <2>2. host[c[1]] \in Hosts
    BY ConnFacts DEF StateOK
  <2>3. HostByRule(Peer(c)) \in Seq(Word)
    BY <2>2, AuthorityIsWords, NamesAreWords DEF Peer, Words
  <2>4. asked' = [asked EXCEPT ![c] = HostByRule(Peer(c))]
    BY <2>1 DEF Carry
  <2> QED
    BY <2>3, <2>4 DEF AskedOK
<1> QED
  BY <1>1, <1>2, AskedSteps

\* What may become of the handshake of a user's self connection.
LEMMA ShakeSteps ==
    ASSUME [Next]_vars
    PROVE  \/ UNCHANGED shake
           \/ \E u \in Users : \E t \in {"200", "431"} :
                wire' = [wire EXCEPT ![u] = ReplyHead(t)] /\ UNCHANGED <<unsent, buf>>
           \/ \E u \in Users : TunnelWrites(u)
           \/ \E u \in Users : TunnelReads(u)
           \/ \E u \in Users : Speaks(u)
<1>1. ASSUME NEW c \in Conns, ConnStep(c)
      PROVE  \/ UNCHANGED shake
             \/ wire' = [wire EXCEPT ![c[1]] = ReplyHead("200")] /\ UNCHANGED <<unsent, buf>>
  BY <1>1 DEF ConnStep, Connect, Upgrade, Receive, TakeOver, Carry, Dropped, CarryEnds, shake
<1>2. ASSUME NEW u \in Users, ListenerStep(u)
      PROVE  \/ UNCHANGED shake
             \/ wire' = [wire EXCEPT ![u] = ReplyHead("431")] /\ UNCHANGED <<unsent, buf>>
  BY <1>2 DEF ListenerStep, BadRequest, NonConnect, UserLeaves, Refuse, shake
<1>3. ASSUME NEW u \in Users, AskStep(u)
      PROVE  UNCHANGED shake \/ TunnelWrites(u) \/ TunnelReads(u) \/ Speaks(u)
  BY <1>3 DEF AskStep, Call, Reuse, shake
<1>4. ASSUME NEW u \in Users, EndStep(u) PROVE UNCHANGED shake
  BY <1>4 DEF EndStep, CallFails, TunnelWriteFails, TunnelReadsEnd, Response, NoResponse, shake
<1>5. CASE UNCHANGED vars
  BY <1>5 DEF vars, shake
<1>6. \A c \in Conns : c[1] \in Users
  BY ConnFacts
<1> QED
  BY <1>1, <1>2, <1>3, <1>4, <1>5, <1>6, Steps

\* Tunnel's read moves the first n parts from the wire to the buffer.
LEMMA ReadMoves ==
    ASSUME NEW b \in Seq(ReplyPart), NEW w \in Seq(ReplyPart), NEW n \in 1..Len(w)
    PROVE  LET s == b \o SubSeq(w, 1, n)
               r == SubSeq(w, n + 1, Len(w)) IN
           /\ Len(w) \in Nat /\ Len(b) \in Nat /\ n \in Nat
           /\ s \in Seq(ReplyPart) /\ Len(s) = Len(b) + n
           /\ \A i \in 1..Len(b) : s[i] = b[i]
           /\ \A i \in 1..n : s[Len(b) + i] = w[i]
           /\ r \in Seq(ReplyPart) /\ Len(r) = Len(w) - n
           /\ \A i \in 1..Len(w) - n : r[i] = w[n + i]
<1> DEFINE f == SubSeq(w, 1, n)  r == SubSeq(w, n + 1, Len(w))
<1>1. Len(w) \in Nat /\ Len(b) \in Nat /\ n \in Nat /\ n >= 1 /\ n <= Len(w)
      /\ \A i \in 1..Len(w) : w[i] \in ReplyPart
  OBVIOUS
<1>2. f \in Seq(ReplyPart) /\ Len(f) = n /\ \A i \in 1..n : f[i] = w[i]
  BY <1>1, SubSeqProperties
<1>3. r \in Seq(ReplyPart) /\ Len(r) = Len(w) - n /\ \A i \in 1..Len(w) - n : r[i] = w[n + i]
  <2>1. /\ r \in Seq(ReplyPart)
        /\ Len(r) = IF n + 1 <= Len(w) THEN Len(w) - (n + 1) + 1 ELSE 0
        /\ \A i \in 1..Len(w) - (n + 1) + 1 : r[i] = w[n + 1 + i - 1]
    BY <1>1, SubSeqProperties
  <2>2. Len(w) - (n + 1) + 1 = Len(w) - n /\ \A i \in 1..Len(w) - n : n + 1 + i - 1 = n + i
    BY <1>1
  <2> HIDE DEF r
  <2>3. Len(r) = Len(w) - n
    BY <1>1, <2>1
  <2> QED
    BY <2>1, <2>2, <2>3
<1> HIDE DEF f, r
<1>4. /\ b \o f \in Seq(ReplyPart) /\ Len(b \o f) = Len(b) + Len(f)
      /\ \A i \in 1..Len(b) + Len(f) : (b \o f)[i] = IF i <= Len(b) THEN b[i] ELSE f[i - Len(b)]
  <2>1. b \in Seq(ReplyPart) /\ f \in Seq(ReplyPart)
    BY <1>2
  <2> QED
    BY <2>1, ConcatProperties
<1>5. \A i \in 1..Len(b) : (b \o f)[i] = b[i]
  BY <1>1, <1>2, <1>4
<1>6. \A i \in 1..n : /\ Len(b) + i \in 1..Len(b) + n /\ ~(Len(b) + i <= Len(b))
                      /\ Len(b) + i - Len(b) = i
  BY <1>1
<1>7. \A i \in 1..n : (b \o f)[Len(b) + i] = w[i]
  BY <1>2, <1>4, <1>6
<1>8. Len(b \o f) = Len(b) + n
  BY <1>2, <1>4
<1> QED
  BY <1>1, <1>3, <1>4, <1>5, <1>7, <1>8 DEF f, r

LEMMA ReplyHeadFacts ==
    ASSUME NEW t \in {"200", "431"}
    PROVE  /\ ReplyHead(t) \in Seq(ReplyPart) /\ Len(ReplyHead(t)) = 4
           /\ ReplyHead(t)[1] = "HTTP" /\ ReplyHead(t)[2] = t
           /\ ReplyHead(t)[3] = "field" /\ ReplyHead(t)[4] = "blank"
BY DEF ReplyHead, ReplyPart

LEMMA ShakeStep ==
    ASSUME ShakeOK, [Next]_vars
    PROVE  ShakeOK'
<1>1. CASE UNCHANGED shake
  BY <1>1 DEF shake, ShakeOK
<1>2. ASSUME NEW u \in Users, NEW t \in {"200", "431"},
             wire' = [wire EXCEPT ![u] = ReplyHead(t)], UNCHANGED <<unsent, buf>>
      PROVE  ShakeOK'
  BY <1>2, ReplyHeadFacts DEF ShakeOK
<1>3. ASSUME NEW u \in Users, TunnelWrites(u) PROVE ShakeOK'
  <2>1. PICK n \in 1..unsent[u] : unsent' = [unsent EXCEPT ![u] = @ - n]
    BY <1>3 DEF TunnelWrites
  <2>2. unsent[u] - n \in 0..ConnectLen
    BY FrontEndAssumption DEF ShakeOK
  <2> QED
    BY <1>3, <2>1, <2>2 DEF TunnelWrites, ShakeOK
<1>4. ASSUME NEW u \in Users, TunnelReads(u) PROVE ShakeOK'
  <2>1. PICK n \in 1..Len(wire[u]) :
          /\ buf' = [buf EXCEPT ![u] = buf[u] \o SubSeq(wire[u], 1, n)]
          /\ wire' = [wire EXCEPT ![u] = SubSeq(wire[u], n + 1, Len(wire[u]))]
    BY <1>4 DEF TunnelReads
  <2>2. buf[u] \in Seq(ReplyPart) /\ wire[u] \in Seq(ReplyPart)
    BY DEF ShakeOK
  <2>3. /\ buf[u] \o SubSeq(wire[u], 1, n) \in Seq(ReplyPart)
        /\ SubSeq(wire[u], n + 1, Len(wire[u])) \in Seq(ReplyPart)
    BY <2>2, ReadMoves
  <2> QED
    BY <1>4, <2>1, <2>3 DEF TunnelReads, ShakeOK
<1>5. ASSUME NEW u \in Users, Speaks(u) PROVE ShakeOK'
  <2>1. PICK s \in {"byte", "blank"} : wire' = [wire EXCEPT ![u] = Append(wire[u], s)]
    BY <1>5 DEF Speaks
  <2>2. Append(wire[u], s) \in Seq(ReplyPart)
    BY DEF ShakeOK, ReplyPart
  <2> QED
    BY <1>5, <2>1, <2>2 DEF Speaks, ShakeOK
<1> QED
  BY <1>1, <1>2, <1>3, <1>4, <1>5, ShakeSteps

LEMMA TypeInit == Init => TypeOK
<1> SUFFICES ASSUME Init PROVE TypeOK
  OBVIOUS
<1>1. StateOK
  BY DEF Init, StateOK
<1>2. ShakeOK
  BY FrontEndAssumption DEF Init, ShakeOK
<1>3. QueueOK /\ AskedOK
  BY DEF Init, QueueOK, AskedOK
<1> QED
  BY <1>1, <1>2, <1>3, TypeParts

LEMMA TypeStep == TypeOK /\ [Next]_vars => TypeOK'
<1> SUFFICES ASSUME TypeOK, [Next]_vars PROVE TypeOK'
  OBVIOUS
<1>1. StateOK' /\ ShakeOK' /\ QueueOK' /\ AskedOK'
  BY TypeParts, StateStep, ShakeStep, QueueStep, AskedStep
<1> QED
  BY <1>1 DEF TypeOK, StateOK, ShakeOK, QueueOK, AskedOK

LEMMA TypeInvariance == Init /\ [][Next]_vars => []TypeOK
BY TypeInit, TypeStep, PTL

\* Listener, queue, handlers and self connections keep their types; the address
\* a route is asked for is made of the parts of names and nothing else.
THEOREM TypeCorrect == Spec => []TypeOK
BY TypeInvariance, PTL DEF Spec

(***************************************************************************)
(* Who owns the sender of a request's channel                              *)
(***************************************************************************)
Distinct(q) == \A i, j \in DOMAIN q : q[i] = q[j] => i = j

LEMMA AppendDistinct ==
    ASSUME NEW q \in Seq(Conns), NEW c \in Conns, Distinct(q), c \notin Range(q)
    PROVE  Distinct(Append(q, c)) /\ Range(Append(q, c)) = Range(q) \cup {c}
<1>1. /\ Len(q) \in Nat /\ DOMAIN q = 1..Len(q) /\ DOMAIN Append(q, c) = 1..Len(q) + 1
      /\ Append(q, c)[Len(q) + 1] = c
      /\ \A i \in 1..Len(q) : Append(q, c)[i] = q[i]
  OBVIOUS
<1>2. \A i \in 1..Len(q) + 1 : i \in 1..Len(q) \/ i = Len(q) + 1
  BY <1>1
<1>3. \A i \in 1..Len(q) : i \in 1..Len(q) + 1 /\ q[i] # c
  BY <1>1 DEF Range
<1>4. Len(q) + 1 \in 1..Len(q) + 1
  BY <1>1
<1>5. Distinct(Append(q, c))
  BY <1>1, <1>2, <1>3 DEF Distinct
<1>6. Range(Append(q, c)) = Range(q) \cup {c}
  BY <1>1, <1>2, <1>3, <1>4 DEF Range
<1> QED
  BY <1>5, <1>6

LEMMA TailDistinct ==
    ASSUME NEW q \in Seq(Conns), q # <<>>, Distinct(q)
    PROVE  Distinct(Tail(q)) /\ Range(Tail(q)) = Range(q) \ {q[1]} /\ q[1] \in Range(q)
<1>1. /\ Len(q) \in Nat /\ Len(q) >= 1 /\ DOMAIN q = 1..Len(q) /\ DOMAIN Tail(q) = 1..Len(q) - 1
      /\ \A i \in 1..Len(q) - 1 : Tail(q)[i] = q[i + 1]
  OBVIOUS
<1>2. \A i \in 1..Len(q) - 1 : i + 1 \in 1..Len(q) /\ i + 1 # 1
  BY <1>1
<1>3. \A i \in 1..Len(q) : i # 1 => i - 1 \in 1..Len(q) - 1 /\ i - 1 + 1 = i
  BY <1>1
<1>4. Distinct(Tail(q))
  <2> SUFFICES ASSUME NEW i \in 1..Len(q) - 1, NEW j \in 1..Len(q) - 1, Tail(q)[i] = Tail(q)[j]
               PROVE  i = j
    BY <1>1 DEF Distinct
  <2>1. q[i + 1] = q[j + 1]
    BY <1>1
  <2>2. i + 1 = j + 1
    BY <1>1, <1>2, <2>1 DEF Distinct
  <2> QED
    BY <2>2
<1>5. 1 \in 1..Len(q) /\ \A i \in 1..Len(q) : i # 1 => q[i] # q[1]
  BY <1>1 DEF Distinct
<1>6. ASSUME NEW x \in Range(Tail(q)) PROVE x \in Range(q) \ {q[1]}
  BY <1>1, <1>2, <1>5 DEF Range
<1>7. ASSUME NEW x \in Range(q) \ {q[1]} PROVE x \in Range(Tail(q))
  <2>1. PICK i \in 1..Len(q) : x = q[i] /\ i # 1
    BY <1>1 DEF Range
  <2>2. Tail(q)[i - 1] = x /\ i - 1 \in DOMAIN Tail(q)
    BY <1>1, <1>3, <2>1
  <2> QED
    BY <2>2 DEF Range
<1> QED
  BY <1>1, <1>4, <1>5, <1>6, <1>7 DEF Range

Queued == Range(queue)

\* A connection is in the queue once, after its request and before its handler.
QueuedOnce ==
    /\ Distinct(queue)
    /\ \A c \in Queued :
         c \in Conns /\ handler[c] = "none" /\ svc[c] \notin {"none", "upgrading"}
    /\ \A c \in Conns : svc[c] \in {"none", "upgrading"} => handler[c] = "none"

\* The sender of a request that waits is in the queue or with its handler, which
\* is not the handler of a CONNECT.
Senders ==
    \A u \in Users :
        /\ svc[User(u)] = "waiting" =>
             /\ kind[u] = "other"
             /\ User(u) \in Queued \/ handler[User(u)] \in {"ask", "shake", "sent"}
        /\ handler[User(u)] \in {"route", "carry"} => kind[u] = "CONNECT"

Owned == QueuedOnce /\ Senders

LEMMA OwnedInit == Init => Owned
<1> SUFFICES ASSUME Init PROVE Owned
  OBVIOUS
<1>1. Distinct(queue) /\ Queued = {}
  BY DEF Init, Distinct, Queued, Range
<1> QED
  BY <1>1, ConnFacts DEF Init, Owned, QueuedOnce, Senders

\* Steps that leave the queue alone.
LEMMA OwnedFrame ==
    ASSUME Owned, UNCHANGED <<kind, queue>>,
           \A c \in Conns : svc'[c] \in {"none", "upgrading"} =>
                              svc[c] \in {"none", "upgrading"} /\ handler'[c] = handler[c],
           \A c \in Conns : handler'[c] # handler[c] =>
                              handler[c] # "none"
                              /\ (handler'[c] = "carry" => handler[c] = "route")
                              /\ handler'[c] # "route",
           \A u \in Users : svc'[User(u)] = "waiting" =>
                              /\ svc[User(u)] = "waiting"
                              /\ handler'[User(u)] = handler[User(u)]
                                 \/ handler'[User(u)] \in {"shake", "sent"}
                                 \/ handler[User(u)] \in {"route", "carry"}
    PROVE  Owned'
<1>1. Queued' = Queued /\ (Distinct(queue) => Distinct(queue'))
  BY DEF Queued, Distinct
<1>2. QueuedOnce'
  <2>1. \A c \in Queued : c \in Conns /\ handler'[c] = "none" /\ svc'[c] \notin {"none", "upgrading"}
    BY DEF Owned, QueuedOnce
  <2>2. \A c \in Conns : svc'[c] \in {"none", "upgrading"} => handler'[c] = "none"
    BY DEF Owned, QueuedOnce
  <2> QED
    BY <1>1, <2>1, <2>2 DEF Owned, QueuedOnce
<1>3. Senders'
  <2> SUFFICES ASSUME NEW u \in Users
               PROVE  /\ svc'[User(u)] = "waiting" =>
                           /\ kind[u] = "other"
                           /\ User(u) \in Queued \/ handler'[User(u)] \in {"ask", "shake", "sent"}
                      /\ handler'[User(u)] \in {"route", "carry"} => kind[u] = "CONNECT"
    BY <1>1 DEF Senders
  <2>1. User(u) \in Conns
    BY ConnFacts
  <2> QED
    BY <2>1 DEF Owned, Senders
<1> QED
  BY <1>2, <1>3 DEF Owned

\* tx.send answers a request that waits, and ends its handler.
LEMMA EndWithOwned ==
    ASSUME StateOK, Owned, NEW u \in Users, NEW a, EndWith(u, a), UNCHANGED <<kind, queue>>,
           handler[User(u)] \in {"ask", "shake", "sent"}
    PROVE  Owned'
<1>0. User(u) \in Conns /\ \A v \in Users : User(v) \in Conns /\ (User(v) = User(u) => v = u)
  BY ConnFacts
<1>1. handler' = [handler EXCEPT ![User(u)] = "over"]
  BY DEF EndWith
<1>2. /\ svc' \in [Conns -> {"none", "upgrading", "upgraded", "waiting", "over"}]
      /\ \A c \in Conns : svc'[c] = svc[c] \/ (c = User(u) /\ svc'[c] = "over")
      /\ svc'[User(u)] # "waiting"
  BY <1>0 DEF EndWith, StateOK
<1>3. \A c \in Conns : handler'[c] = IF c = User(u) THEN "over" ELSE handler[c]
  BY <1>1 DEF StateOK
<1>4. svc[User(u)] \notin {"none", "upgrading"}
  BY <1>0 DEF Owned, QueuedOnce
<1> QED
  BY <1>0, <1>2, <1>3, <1>4, OwnedFrame

\* A connection enters the queue.
LEMMA EnqueueOwned ==
    ASSUME StateOK, QueueOK, Owned, NEW c \in Conns, UNCHANGED <<kind, handler>>,
           queue' = Append(queue, c), svc[c] \in {"none", "upgrading"},
           \/ svc' = [svc EXCEPT ![c] = "upgraded"]
           \/ svc' = [svc EXCEPT ![c] = "waiting"] /\ kind[c[1]] = "other"
    PROVE  Owned'
<1>1. c \notin Queued /\ handler[c] = "none"
  BY DEF Owned, QueuedOnce
<1>2. Distinct(queue') /\ Queued' = Queued \cup {c}
  <2>1. queue \in Seq(Conns) /\ Distinct(queue) /\ c \notin Range(queue)
    BY <1>1 DEF QueueOK, Owned, QueuedOnce, Queued
  <2> QED
    BY <2>1, AppendDistinct DEF Queued
<1>3. svc'[c] \in {"upgraded", "waiting"} /\ \A d \in Conns : d # c => svc'[d] = svc[d]
  BY DEF StateOK
<1>4. QueuedOnce'
  BY <1>1, <1>2, <1>3 DEF Owned, QueuedOnce
<1>5. Senders'
  <2> SUFFICES ASSUME NEW u \in Users, svc'[User(u)] = "waiting"
               PROVE  /\ kind[u] = "other"
                      /\ User(u) \in Queued \cup {c} \/ handler[User(u)] \in {"ask", "shake", "sent"}
    BY <1>2 DEF Owned, Senders
  <2>1. User(u) \in Conns /\ User(u)[1] = u
    BY ConnFacts
  <2>2. CASE User(u) = c
    BY <2>1, <2>2 DEF StateOK
  <2>3. CASE User(u) # c
    BY <1>3, <2>1, <2>3 DEF Owned, Senders
  <2> QED
    BY <2>2, <2>3
<1> QED
  BY <1>4, <1>5 DEF Owned

\* listening_proxy takes the first connection out of the queue and spawns its
\* handler.
LEMMA ReceiveOwned ==
    ASSUME StateOK, QueueOK, Owned, NEW c \in Conns, Receive(c)
    PROVE  Owned'
<1>1. /\ queue # <<>> /\ c = queue[1] /\ queue' = Tail(queue) /\ UNCHANGED <<kind, svc>>
      /\ handler' = [handler EXCEPT ![c] = IF IsConnect(c) THEN "route" ELSE "ask"]
  BY DEF Receive, TakeOver
<1>2. Distinct(queue') /\ Queued' = Queued \ {c} /\ c \in Queued
  <2>1. queue \in Seq(Conns) /\ Distinct(queue)
    BY DEF QueueOK, Owned, QueuedOnce
  <2> QED
    BY <1>1, <2>1, TailDistinct DEF Queued
<1>3. /\ handler'[c] = (IF IsConnect(c) THEN "route" ELSE "ask")
      /\ \A d \in Conns : d # c => handler'[d] = handler[d]
  BY <1>1 DEF StateOK
<1>4. QueuedOnce'
  BY <1>1, <1>2, <1>3 DEF Owned, QueuedOnce
<1>5. Senders'
  <2> SUFFICES ASSUME NEW u \in Users
               PROVE  /\ svc[User(u)] = "waiting" =>
                           /\ kind[u] = "other"
                           /\ User(u) \in Queued \ {c} \/ handler'[User(u)] \in {"ask", "shake", "sent"}
                      /\ handler'[User(u)] \in {"route", "carry"} => kind[u] = "CONNECT"
    BY <1>1, <1>2 DEF Senders
  <2>1. User(u) \in Conns /\ User(u)[1] = u /\ User(u)[2] = "user" /\ kind[u] \in {"CONNECT", "other"}
    BY ConnFacts DEF StateOK
  <2>2. CASE User(u) = c
    <3>1. IsConnect(c) <=> kind[u] = "CONNECT"
      BY <2>1, <2>2 DEF IsConnect
    <3> QED
      BY <1>3, <2>1, <2>2, <3>1 DEF Owned, Senders
  <2>3. CASE User(u) # c
    BY <1>3, <2>1, <2>3 DEF Owned, Senders
  <2> QED
    BY <2>2, <2>3
<1> QED
  BY <1>4, <1>5 DEF Owned

LEMMA OwnedStep ==
    ASSUME StateOK, QueueOK, Owned, [Next]_vars
    PROVE  Owned'
<1>0. \A u \in Users : /\ User(u) \in Conns /\ Self(u) \in Conns /\ User(u)[1] = u
                       /\ \A v \in Users : User(v) # Self(u) /\ (User(v) = User(u) => v = u)
  BY ConnFacts
<1>1. ASSUME NEW c \in Conns, ConnStep(c) PROVE Owned'
  <2>1. CASE Connect(c)
    <3>1. UNCHANGED <<kind, queue, handler>> /\ svc[c] = "none"
          /\ \A d \in Conns : svc'[d] = IF d = c THEN "upgrading" ELSE svc[d]
      BY <2>1 DEF Connect, StateOK
    <3> QED
      BY <1>0, <3>1, OwnedFrame
  <2>2. CASE Upgrade(c)
    BY <2>2, EnqueueOwned DEF Upgrade
  <2>3. CASE Receive(c)
    BY <2>3, ReceiveOwned
  <2>4. CASE Carry(c) \/ Dropped(c) \/ CarryEnds(c)
    <3>1. /\ UNCHANGED <<kind, queue, svc>> /\ handler[c] \in {"route", "carry"}
          /\ \E h \in {"carry", "over"} :
               /\ \A d \in Conns : handler'[d] = IF d = c THEN h ELSE handler[d]
               /\ h = "carry" => handler[c] = "route"
      BY <2>4 DEF Carry, Dropped, CarryEnds, StateOK
    <3>2. svc[c] \notin {"none", "upgrading"}
      BY <3>1 DEF Owned, QueuedOnce
    <3> QED
      BY <1>0, <3>1, <3>2, OwnedFrame
  <2> QED
    BY <1>1, <2>1, <2>2, <2>3, <2>4 DEF ConnStep
<1>2. ASSUME NEW u \in Users, ListenerStep(u) PROVE Owned'
  <2>1. CASE NonConnect(u)
    <3>1. kind[u] = "other"
      BY <1>0, <2>1 DEF NonConnect, IsConnect, StateOK
    <3> QED
      BY <1>0, <2>1, <3>1, EnqueueOwned DEF NonConnect
  <2>2. CASE BadRequest(u) \/ UserLeaves(u) \/ Refuse(u)
    <3>1. UNCHANGED <<kind, queue, handler>>
          /\ \A d \in Conns : svc'[d] = svc[d] \/ svc'[d] = "over"
      BY <1>0, <2>2 DEF BadRequest, UserLeaves, Refuse, StateOK
    <3> QED
      BY <1>0, <3>1, OwnedFrame
  <2> QED
    BY <1>2, <2>1, <2>2 DEF ListenerStep
<1>3. ASSUME NEW u \in Users, AskStep(u) PROVE Owned'
  <2>1. CASE \/ UNCHANGED <<kind, queue, svc, handler>>
             \/ /\ UNCHANGED <<kind, queue, svc>> /\ handler[User(u)] \in {"ask", "shake"}
                /\ \E h \in {"shake", "sent"} : handler' = [handler EXCEPT ![User(u)] = h]
    <3>1. CASE UNCHANGED <<kind, queue, svc, handler>>
      BY <1>0, <3>1, OwnedFrame
    <3>2. CASE /\ UNCHANGED <<kind, queue, svc>> /\ handler[User(u)] \in {"ask", "shake"}
               /\ \E h \in {"shake", "sent"} : handler' = [handler EXCEPT ![User(u)] = h]
      <4>1. PICK h \in {"shake", "sent"} : handler' = [handler EXCEPT ![User(u)] = h]
        BY <3>2
      <4>2. \A d \in Conns : handler'[d] = IF d = User(u) THEN h ELSE handler[d]
        BY <4>1 DEF StateOK
      <4>3. svc[User(u)] \notin {"none", "upgrading"}
        BY <1>0, <3>2 DEF Owned, QueuedOnce
      <4> QED
        BY <1>0, <3>2, <4>2, <4>3, OwnedFrame
    <3> QED
      BY <2>1, <3>1, <3>2
  <2>2. CASE Call(u) \/ (\E v \in Users : Reuse(u, v)) \/ TunnelWrites(u) \/ Speaks(u)
    BY <2>1, <2>2 DEF Call, Reuse, TunnelWrites, Speaks
  <2>3. CASE TunnelReads(u)
    <3>1. /\ UNCHANGED <<kind, queue>> /\ handler[User(u)] = "shake"
          /\ \/ UNCHANGED <<handler, svc, answer>>
             \/ handler' = [handler EXCEPT ![User(u)] = "sent"] /\ UNCHANGED <<svc, answer>>
             \/ EndWith(u, "error")
      BY <2>3 DEF TunnelReads
    <3> QED
      BY <2>1, <3>1, EndWithOwned
  <2> QED
    BY <1>3, <2>2, <2>3 DEF AskStep
<1>4. ASSUME NEW u \in Users, EndStep(u) PROVE Owned'
  <2>1. /\ UNCHANGED <<kind, queue>> /\ handler[User(u)] \in {"ask", "shake", "sent"}
        /\ \E a \in {"error", "response"} : EndWith(u, a)
    BY <1>4 DEF EndStep, CallFails, TunnelWriteFails, TunnelReadsEnd, Response, NoResponse
  <2> QED
    BY <2>1, EndWithOwned
<1>5. CASE UNCHANGED vars
  BY <1>0, <1>5, OwnedFrame DEF vars
<1> QED
  BY <1>1, <1>2, <1>3, <1>4, <1>5, Steps

LEMMA OwnedInvariance == Init /\ [][Next]_vars => [](TypeOK /\ Owned)
<1>1. Init => TypeOK /\ Owned
  BY TypeInit, OwnedInit
<1>2. TypeOK /\ Owned /\ [Next]_vars => TypeOK' /\ Owned'
  BY TypeStep, OwnedStep, TypeParts
<1> QED
  BY <1>1, <1>2, PTL

\* AnswerOwned of FrontEnd.tla: the unwrap of `rx.await' does not panic, since
\* the sender of a request that waits is never dropped, and has one owner.
THEOREM SenderHasOneOwner == Spec => []AnswerOwned
<1>1. Owned => AnswerOwned
  <2> SUFFICES ASSUME Owned, NEW u \in Users, svc[User(u)] = "waiting"
               PROVE  (User(u) \in Queued) # (handler[User(u)] \in {"ask", "shake", "sent"})
    BY DEF AnswerOwned, Queued
  <2>1. User(u) \in Queued => handler[User(u)] = "none"
    BY DEF Owned, QueuedOnce
  <2>2. User(u) \in Queued \/ handler[User(u)] \in {"ask", "shake", "sent"}
    BY DEF Owned, Senders
  <2> QED
    BY <2>1, <2>2
<1> QED
  BY <1>1, OwnedInvariance, PTL DEF Spec

(***************************************************************************)
(* What a target is asked for                                              *)
(***************************************************************************)
LEMMA HostStays ==
    ASSUME [Next]_vars
    PROVE  UNCHANGED <<kind, host>>
<1>1. ASSUME NEW c \in Conns, ConnStep(c) PROVE UNCHANGED <<kind, host>>
  BY <1>1 DEF ConnStep, Connect, Upgrade, Receive, TakeOver, Carry, Dropped, CarryEnds
<1>2. ASSUME NEW u \in Users, ListenerStep(u) PROVE UNCHANGED <<kind, host>>
  BY <1>2 DEF ListenerStep, BadRequest, NonConnect, UserLeaves, Refuse
<1>3. ASSUME NEW u \in Users, AskStep(u) PROVE UNCHANGED <<kind, host>>
  BY <1>3 DEF AskStep, Call, Reuse, TunnelWrites, TunnelReads, Speaks
<1>4. ASSUME NEW u \in Users, EndStep(u) PROVE UNCHANGED <<kind, host>>
  BY <1>4 DEF EndStep, CallFails, TunnelWriteFails, TunnelReadsEnd, Response, NoResponse
<1> QED
  BY <1>1, <1>2, <1>3, <1>4, Steps DEF vars

\* A handler carries because a route was found, and what is over stays over.
LEMMA HandlerSteps ==
    ASSUME StateOK, QueueOK, Owned, [Next]_vars, NEW d \in Conns
    PROVE  /\ handler'[d] = "carry" => handler[d] = "carry" \/ Carry(d)
           /\ handler[d] = "over" => handler'[d] = "over"
<1>0. \A u \in Users : User(u) \in Conns
  BY ConnFacts
<1>1. ASSUME NEW c \in Conns, ConnStep(c)
      PROVE  /\ handler'[d] = "carry" => handler[d] = "carry" \/ Carry(d)
             /\ handler[d] = "over" => handler'[d] = "over"
  <2>1. CASE Connect(c) \/ Upgrade(c)
    BY <2>1 DEF Connect, Upgrade
  <2>2. CASE Receive(c)
    <3>1. handler[c] = "none"
      <4>1. c \in Queued
        <5>1. queue # <<>> /\ c = queue[1] /\ queue \in Seq(Conns) /\ Distinct(queue)
          BY <2>2 DEF Receive, TakeOver, QueueOK, Owned, QueuedOnce
        <5> QED
          BY <5>1, TailDistinct DEF Queued
      <4> QED
        BY <4>1 DEF Owned, QueuedOnce
    <3> QED
      BY <2>2, <3>1 DEF Receive, TakeOver, StateOK
  <2>3. CASE Carry(c)
    BY <2>3 DEF Carry, StateOK
  <2>4. CASE Dropped(c) \/ CarryEnds(c)
    BY <2>4 DEF Dropped, CarryEnds, StateOK
  <2> QED
    BY <1>1, <2>1, <2>2, <2>3, <2>4 DEF ConnStep
<1>2. ASSUME NEW u \in Users, ListenerStep(u) PROVE UNCHANGED handler
  BY <1>2 DEF ListenerStep, BadRequest, NonConnect, UserLeaves, Refuse
<1>3. ASSUME NEW u \in Users, AskStep(u) \/ EndStep(u)
      PROVE  \/ UNCHANGED handler
             \/ /\ handler[User(u)] \in {"ask", "shake", "sent"}
                /\ \E h \in {"shake", "sent", "over"} : handler' = [handler EXCEPT ![User(u)] = h]
  <2>1. CASE AskStep(u)
    BY <2>1 DEF AskStep, Call, Reuse, TunnelWrites, TunnelReads, Speaks, EndWith
  <2>2. CASE EndStep(u)
    BY <2>2
    DEF EndStep, CallFails, TunnelWriteFails, TunnelReadsEnd, Response, NoResponse, EndWith
  <2> QED
    BY <1>3, <2>1, <2>2
<1>4. ASSUME NEW u \in Users, AskStep(u) \/ EndStep(u)
      PROVE  /\ handler'[d] = "carry" => handler[d] = "carry"
             /\ handler[d] = "over" => handler'[d] = "over"
  BY <1>0, <1>3, <1>4 DEF StateOK
<1> QED
  BY <1>1, <1>2, <1>4, Steps DEF vars

\* A request is carried by its own connection until an idle one is reused, and a
\* response is one that came over a connection that carries.
LEMMA ViaSteps ==
    ASSUME StateOK, [Next]_vars, NEW u \in Users
    PROVE  /\ \/ via'[u] = via[u]
              \/ \E v \in Users : Reuse(u, v) /\ via'[u] = v
           /\ answer'[u] = "response" =>
                \/ answer[u] = "response"
                \/ Response(u) /\ handler'[User(u)] = "over" /\ via' = via
<1>0. \A v \in Users : User(v) \in Conns
  BY ConnFacts
<1>1. ASSUME NEW c \in Conns, ConnStep(c)
      PROVE  UNCHANGED via /\ (answer'[u] = "response" => answer[u] = "response")
  <2>1. CASE Connect(c)
    BY <2>1, ConnFacts DEF Connect, StateOK
  <2>2. CASE ~Connect(c)
    BY <1>1, <2>2 DEF ConnStep, Upgrade, Receive, TakeOver, Carry, Dropped, CarryEnds
  <2> QED
    BY <2>1, <2>2
<1>2. ASSUME NEW v \in Users, ListenerStep(v)
      PROVE  UNCHANGED via /\ (answer'[u] = "response" => answer[u] = "response")
  BY <1>2 DEF ListenerStep, BadRequest, NonConnect, UserLeaves, Refuse, StateOK
<1>3. ASSUME NEW v \in Users, AskStep(v)
      PROVE  /\ answer'[u] = "response" => answer[u] = "response"
             /\ \/ via'[u] = via[u]
                \/ \E w \in Users : Reuse(u, w) /\ via'[u] = w
  <2>1. CASE \E w \in Users : Reuse(v, w)
    BY <2>1 DEF Reuse, StateOK
  <2>2. CASE Call(v) \/ TunnelWrites(v) \/ Speaks(v)
    BY <2>2 DEF Call, TunnelWrites, Speaks
  <2>3. CASE TunnelReads(v)
    <3>1. UNCHANGED via /\ (UNCHANGED answer \/ answer' = [answer EXCEPT ![v] = "error"])
      BY <2>3 DEF TunnelReads, EndWith
    <3> QED
      BY <3>1 DEF StateOK
  <2> QED
    BY <1>3, <2>1, <2>2, <2>3 DEF AskStep
<1>4. ASSUME NEW v \in Users, EndStep(v)
      PROVE  /\ UNCHANGED via
             /\ answer'[u] = "response" =>
                  answer[u] = "response" \/ (Response(u) /\ handler'[User(u)] = "over")
  <2>1. CASE Response(v)
    BY <1>0, <2>1 DEF Response, EndWith, StateOK
  <2>2. CASE CallFails(v) \/ TunnelWriteFails(v) \/ TunnelReadsEnd(v) \/ NoResponse(v)
    <3>1. UNCHANGED via /\ (UNCHANGED answer \/ answer' = [answer EXCEPT ![v] = "error"])
      BY <2>2 DEF CallFails, TunnelWriteFails, TunnelReadsEnd, NoResponse, EndWith
    <3> QED
      BY <3>1 DEF StateOK
  <2> QED
    BY <1>4, <2>1, <2>2 DEF EndStep
<1>5. CASE UNCHANGED vars
  BY <1>5 DEF vars
<1> QED
  BY <1>1, <1>2, <1>3, <1>4, <1>5, Steps

\* What a connection asks for is the address of its own host, and what answered
\* a request was asked for that.
AskedRight ==
    /\ \A c \in Conns : asked[c] \in {<<>>, HostByRule(Peer(c))}
    /\ \A c \in Conns : handler[c] = "carry" => asked[c] = HostByRule(Peer(c))
    /\ \A u \in Users : host[via[u]] = host[u]
    /\ \A u \in Users : answer[u] = "response" =>
         /\ handler[User(u)] = "over"
         /\ asked[Self(via[u])] = HostByRule(Peer(Self(via[u])))

LEMMA AskedRightInit == Init => AskedRight
BY ConnFacts DEF Init, AskedRight

LEMMA AskedRightStep ==
    ASSUME StateOK, QueueOK, AskedOK, Owned, AskedRight, [Next]_vars
    PROVE  AskedRight'
<1> DEFINE W(c) == HostByRule(Peer(c))
<1>0. \A u \in Users : User(u) \in Conns /\ Self(u) \in Conns
  BY ConnFacts
<1>1. host' = host /\ \A c : Peer(c)' = Peer(c)
  BY HostStays DEF Peer
<1>2. \A c : W(c)' = W(c)
  BY <1>1 DEF HostByRule, Peer
<1>3. \A c \in Conns : asked'[c] = asked[c] \/ asked'[c] = W(c)
  BY AskedSteps DEF Carry, AskedOK
<1>4. \A c \in Conns : Carry(c) => asked'[c] = W(c)
  BY DEF Carry, AskedOK
<1> HIDE DEF W
<1>5. /\ \A c \in Conns : asked[c] \in {<<>>, W(c)}
      /\ \A c \in Conns : handler[c] = "carry" => asked[c] = W(c)
      /\ \A u \in Users : host[via[u]] = host[u]
      /\ \A u \in Users : answer[u] = "response" =>
           handler[User(u)] = "over" /\ asked[Self(via[u])] = W(Self(via[u]))
  BY DEF AskedRight, W
<1>6. \A c \in Conns : asked'[c] \in {<<>>, W(c)}
  BY <1>3, <1>5
<1>7. \A c \in Conns : handler'[c] = "carry" => asked'[c] = W(c)
  BY <1>3, <1>4, <1>5, HandlerSteps
<1>8. ASSUME NEW u \in Users PROVE host[via'[u]] = host[u]
  BY <1>5, ViaSteps DEF Reuse
<1>9. ASSUME NEW u \in Users, answer'[u] = "response"
      PROVE  handler'[User(u)] = "over" /\ asked'[Self(via'[u])] = W(Self(via'[u]))
  <2>0. via[u] \in Users
    BY DEF StateOK
  <2>1. CASE answer[u] = "response"
    <3>1. handler[User(u)] = "over" /\ asked[Self(via[u])] = W(Self(via[u]))
      BY <1>5, <2>1
    <3>2. via'[u] = via[u]
      BY <3>1, ViaSteps DEF Reuse
    <3>3. handler'[User(u)] = "over"
      BY <1>0, <3>1, HandlerSteps
    <3> QED
      BY <1>0, <1>3, <2>0, <3>1, <3>2, <3>3
  <2>2. CASE Response(u) /\ handler'[User(u)] = "over" /\ via' = via
    <3>1. handler[Self(via[u])] = "carry"
      BY <2>2 DEF Response
    <3> QED
      BY <1>0, <1>3, <1>5, <2>0, <2>2, <3>1
  <2> QED
    BY <1>9, <2>1, <2>2, ViaSteps
<1>10. \A c : W(c)' = W(c) /\ W(c) = HostByRule(Peer(c))
  BY <1>2 DEF W
<1> QED
  BY <1>1, <1>6, <1>7, <1>8, <1>9, <1>10 DEF AskedRight, HostByRule, Peer

LEMMA AskedInvariance == Init /\ [][Next]_vars => [](TypeOK /\ Owned /\ AskedRight)
<1>1. Init => AskedRight
  BY AskedRightInit
<1>2. TypeOK /\ Owned /\ AskedRight /\ [Next]_vars => AskedRight'
  BY AskedRightStep, TypeParts
<1> QED
  BY <1>1, <1>2, OwnedInvariance, PTL

\* TargetAsked of FrontEnd.tla: HostPortIndex, get_valid_host and
\* get_host_by_rule give every host that is not misread the name and port its
\* user or the rules want, for a request through the proxy's own listener and
\* over a reused connection too.
THEOREM TargetsAskedRight == Spec => []TargetAsked
<1>1. TypeOK /\ AskedRight => TargetAsked
  <2> SUFFICES ASSUME TypeOK, AskedRight PROVE TargetAsked
    OBVIOUS
  <2>0. \A u \in Users : host[u] \in Hosts /\ via[u] \in Users
    BY TypeParts DEF StateOK
  <2>1. ASSUME NEW c \in Conns, asked[c] # <<>>, ~Misread(host[c[1]])
        PROVE  asked[c] = Wanted(host[c[1]])
    <3>1. asked[c] = HostByRule(Authority(host[c[1]]))
      BY <2>1 DEF AskedRight, Peer
    <3>2. host[c[1]] \in Hosts
      BY <2>0, ConnFacts
    <3> QED
      BY <2>1, <3>1, <3>2, HostByRuleIsWanted
  <2>2. ASSUME NEW u \in Users, answer[u] = "response", ~Misread(host[u])
        PROVE  asked[Self(via[u])] = Wanted(host[u])
    <3>1. asked[Self(via[u])] = HostByRule(Peer(Self(via[u]))) /\ host[via[u]] = host[u]
      BY <2>2 DEF AskedRight
    <3>2. Peer(Self(via[u])) = Authority(host[u])
      BY <3>1, ConnFacts DEF Peer
    <3> QED
      BY <2>0, <2>2, <3>1, <3>2, HostByRuleIsWanted
  <2> QED
    BY <2>1, <2>2 DEF TargetAsked
<1> QED
  BY <1>1, AskedInvariance, PTL DEF Spec

(***************************************************************************)
(* The handshake of a self connection: what Tunnel has read, and what is   *)
(* still on the wire, are the head of the listener's reply, followed by    *)
(* what the target has said unasked.                                       *)
(***************************************************************************)
Status(u) == IF svc[Self(u)] = "over" THEN "431" ELSE "200"
Extra(u) == IF spoke[u] THEN 1 ELSE 0

ReplyOnWire(u) ==
    /\ Len(buf[u]) + Len(wire[u]) = 4 + Extra(u)
    /\ \A i \in 1..Len(buf[u]) : i <= 4 => buf[u][i] = ReplyHead(Status(u))[i]
    /\ \A i \in 1..Len(wire[u]) :
         Len(buf[u]) + i <= 4 => wire[u][i] = ReplyHead(Status(u))[Len(buf[u]) + i]

Exchange(u) ==
    /\ svc[Self(u)] = "none" => wire[u] = <<>> /\ buf[u] = <<>> /\ ~spoke[u]
    /\ svc[Self(u)] # "none" => ReplyOnWire(u)

\* The handshake is on the user's own connection, and ends when Tunnel finds it
\* done.
ShakenBy(u) ==
    /\ handler[User(u)] \in {"none", "ask", "shake"} => via[u] = u
    /\ handler[User(u)] = "sent" /\ via[u] = u =>
         unsent[u] = 0 /\ svc[Self(u)] # "none" /\ Verdict(buf[u]) = "ok"

Shaken == \A u \in Users : Exchange(u) /\ ShakenBy(u)

LEMMA ShakenInit == Init => Shaken
BY ConnFacts DEF Init, Shaken, Exchange, ShakenBy

\* What a step can do to the handshake of u, if it is not one of the handshake's
\* own.
Aside(u) ==
    /\ wire'[u] = wire[u] /\ buf'[u] = buf[u] /\ spoke'[u] = spoke[u] /\ unsent'[u] = unsent[u]
    /\ \/ svc'[Self(u)] = svc[Self(u)]
       \/ svc[Self(u)] = "upgrading" /\ svc'[Self(u)] = "upgraded"
    /\ handler'[User(u)] \in {"none", "ask", "shake"} =>
         handler[User(u)] \in {"none", "ask", "shake"} /\ via'[u] = via[u]
    /\ handler'[User(u)] = "sent" /\ via'[u] = u => handler[User(u)] = "sent" /\ via[u] = u

Own(u) == Connect(Self(u)) \/ Refuse(u) \/ TunnelWrites(u) \/ TunnelReads(u) \/ Speaks(u)

LEMMA ShakenAside ==
    ASSUME NEW u \in Users, Exchange(u), ShakenBy(u), Aside(u)
    PROVE  Exchange(u)' /\ ShakenBy(u)'
<1>1. Status(u)' = Status(u) /\ Extra(u)' = Extra(u)
  BY DEF Aside, Status, Extra
<1>2. Exchange(u)'
  <2>1. svc'[Self(u)] = "none" <=> svc[Self(u)] = "none"
    BY DEF Aside
  <2>2. ReplyOnWire(u) => ReplyOnWire(u)'
    BY <1>1 DEF Aside, ReplyOnWire
  <2> QED
    BY <2>1, <2>2 DEF Aside, Exchange
<1>3. ShakenBy(u)'
  BY DEF Aside, ShakenBy, Verdict
<1> QED
  BY <1>2, <1>3

LEMMA AsideOrOwn ==
    ASSUME StateOK, ShakeOK, QueueOK, Owned, Shaken, [Next]_vars, NEW u \in Users
    PROVE  Aside(u) \/ Own(u)
<1>0. /\ User(u) \in Conns /\ Self(u) \in Conns /\ User(u) # Self(u)
      /\ \A v \in Users : /\ User(v) \in Conns /\ Self(v) \in Conns
                          /\ User(v) # Self(u) /\ User(u) # Self(v)
                          /\ (v # u => User(v) # User(u) /\ Self(v) # Self(u))
  BY ConnFacts
<1>s. ASSUME NEW v \in Users, UNCHANGED <<shake, spoke, via>>,
             \A d \in Conns : d # User(v) => svc'[d] = svc[d] /\ handler'[d] = handler[d],
             \/ UNCHANGED handler
             \/ handler'[User(v)] = "over"
             \/ handler[User(v)] \in {"none", "ask"} /\ handler'[User(v)] \in {"ask", "shake"}
      PROVE  Aside(u)
  BY <1>0, <1>s DEF Aside, shake
<1>1. ASSUME NEW c \in Conns, ConnStep(c) PROVE Aside(u) \/ Own(u)
  <2>1. CASE Connect(c)
    <3>1. CASE c[2] = "user"
      BY <1>0, <2>1, <3>1, ConnFacts DEF Connect, StateOK, Aside
    <3>2. CASE c[2] = "self"
      <4>1. c = Self(c[1]) /\ c[1] \in Users
        BY <3>2, ConnFacts
      <4>2. CASE c[1] = u
        BY <2>1, <4>1, <4>2 DEF Own
      <4>3. CASE c[1] # u
        <5>1. c # Self(u) /\ c # User(u)
          BY <1>0, <4>1, <4>3
        <5> QED
          BY <1>0, <2>1, <3>2, <4>1, <4>3, <5>1 DEF Connect, StateOK, ShakeOK, Aside
      <4> QED
        BY <4>2, <4>3
    <3> QED
      BY <3>1, <3>2, ConnFacts
  <2>2. CASE Upgrade(c)
    BY <1>0, <2>2 DEF Upgrade, StateOK, Aside, shake
  <2>3. CASE Receive(c)
    <3>1. handler[c] = "none"
      <4>1. queue # <<>> /\ c = queue[1] /\ queue \in Seq(Conns) /\ Distinct(queue)
        BY <2>3 DEF Receive, TakeOver, QueueOK, Owned, QueuedOnce
      <4>2. c \in Queued
        BY <4>1, TailDistinct DEF Queued
      <4> QED
        BY <4>2 DEF Owned, QueuedOnce
    <3>2. /\ UNCHANGED <<svc, shake, via, spoke>>
          /\ \E h \in {"route", "ask"} : handler' = [handler EXCEPT ![c] = h]
      BY <2>3 DEF Receive, TakeOver
    <3> QED
      BY <1>0, <3>1, <3>2 DEF StateOK, Aside, shake
  <2>4. CASE Carry(c) \/ Dropped(c) \/ CarryEnds(c)
    <3>1. /\ UNCHANGED <<svc, shake, via, spoke>>
          /\ \E h \in {"carry", "over"} : handler' = [handler EXCEPT ![c] = h]
      BY <2>4 DEF Carry, Dropped, CarryEnds
    <3> QED
      BY <1>0, <3>1 DEF StateOK, Aside, shake
  <2> QED
    BY <1>1, <2>1, <2>2, <2>3, <2>4 DEF ConnStep
<1>2. ASSUME NEW v \in Users, ListenerStep(v) PROVE Aside(u) \/ Own(u)
  <2>1. CASE BadRequest(v) \/ NonConnect(v) \/ UserLeaves(v)
    <3>1. UNCHANGED <<shake, spoke, via, handler>>
          /\ \A d \in Conns : d # User(v) => svc'[d] = svc[d]
      BY <2>1 DEF BadRequest, NonConnect, UserLeaves, StateOK
    <3> QED
      BY <1>s, <3>1
  <2>2. CASE Refuse(v)
    <3>1. CASE v = u
      BY <2>2, <3>1 DEF Own
    <3>2. CASE v # u
      BY <1>0, <2>2, <3>2 DEF Refuse, StateOK, ShakeOK, Aside
    <3> QED
      BY <3>1, <3>2
  <2> QED
    BY <1>2, <2>1, <2>2 DEF ListenerStep
<1>3. ASSUME NEW v \in Users, AskStep(v) PROVE Aside(u) \/ Own(u)
  <2>1. CASE Call(v)
    <3>1. /\ UNCHANGED <<shake, spoke, via, svc>>
          /\ handler[User(v)] = "ask" /\ handler'[User(v)] = "shake"
          /\ \A d \in Conns : d # User(v) => handler'[d] = handler[d]
      BY <1>0, <2>1 DEF Call, StateOK
    <3> QED
      BY <1>s, <3>1
  <2>2. CASE \E w \in Users : Reuse(v, w)
    <3>1. PICK w \in Users : Reuse(v, w)
      BY <2>2
    <3>2. v # w
      BY <3>1 DEF Reuse, Idle, Shaken, ShakenBy
    <3>3. /\ UNCHANGED <<shake, spoke, svc>> /\ via' = [via EXCEPT ![v] = w]
          /\ handler' = [handler EXCEPT ![User(v)] = "sent"]
      BY <3>1 DEF Reuse
    <3> QED
      BY <1>0, <3>2, <3>3 DEF StateOK, Aside, shake
  <2>3. CASE (TunnelWrites(v) \/ TunnelReads(v) \/ Speaks(v)) /\ v = u
    BY <2>3 DEF Own
  <2>4. CASE TunnelWrites(v) /\ v # u
    BY <1>0, <2>4 DEF TunnelWrites, ShakeOK, Aside
  <2>5. CASE Speaks(v) /\ v # u
    BY <1>0, <2>5 DEF Speaks, StateOK, ShakeOK, Aside
  <2>6. CASE TunnelReads(v) /\ v # u
    <3>1. /\ UNCHANGED <<unsent, spoke, via>> /\ buf'[u] = buf[u] /\ wire'[u] = wire[u]
      BY <2>6 DEF TunnelReads, ShakeOK
    <3>2. \A d \in Conns : d # User(v) => svc'[d] = svc[d] /\ handler'[d] = handler[d]
      <4>1. \/ UNCHANGED <<handler, svc>>
            \/ handler' = [handler EXCEPT ![User(v)] = "sent"] /\ UNCHANGED svc
            \/ EndWith(v, "error")
        BY <2>6 DEF TunnelReads
      <4> QED
        BY <4>1 DEF EndWith, StateOK
    <3> QED
      BY <1>0, <2>6, <3>1, <3>2 DEF Aside
  <2> QED
    BY <1>3, <2>1, <2>2, <2>3, <2>4, <2>5, <2>6 DEF AskStep
<1>4. ASSUME NEW v \in Users, EndStep(v) PROVE Aside(u)
  <2>1. UNCHANGED <<shake, spoke, via>> /\ \E a \in {"error", "response"} : EndWith(v, a)
    BY <1>4 DEF EndStep, CallFails, TunnelWriteFails, TunnelReadsEnd, Response, NoResponse
  <2>2. handler'[User(v)] = "over"
        /\ \A d \in Conns : d # User(v) => svc'[d] = svc[d] /\ handler'[d] = handler[d]
    BY <1>0, <2>1 DEF EndWith, StateOK
  <2> QED
    BY <1>s, <2>1, <2>2
<1>5. CASE UNCHANGED vars
  BY <1>5 DEF vars, Aside, shake
<1> QED
  BY <1>1, <1>2, <1>3, <1>4, <1>5, Steps

\* The listener puts the head of its reply on an empty wire.
LEMMA ReplyShaken ==
    ASSUME StateOK, ShakeOK, NEW u \in Users, Exchange(u), ShakenBy(u),
           NEW t \in {"200", "431"}, Status(u)' = t,
           svc[Self(u)] = "none", svc'[Self(u)] # "none", handler[User(u)] = "shake",
           wire' = [wire EXCEPT ![u] = ReplyHead(t)],
           UNCHANGED <<handler, unsent, buf, via, spoke>>
    PROVE  Exchange(u)' /\ ShakenBy(u)'
<1>1. buf'[u] = <<>> /\ Len(buf'[u]) = 0 /\ wire'[u] = ReplyHead(t) /\ ~spoke'[u]
  BY DEF Exchange, ShakeOK
<1>2. Len(wire'[u]) = 4
  BY <1>1, ReplyHeadFacts
<1>3. Extra(u)' = 0
  BY <1>1 DEF Extra
<1>4. \A i \in 1..Len(wire'[u]) : wire'[u][i] = ReplyHead(t)[0 + i]
  BY <1>1, <1>2
<1>5. ReplyOnWire(u)'
  <2>1. Len(buf'[u]) + Len(wire'[u]) = 4 + Extra(u)'
    BY <1>1, <1>2, <1>3
  <2>2. \A i \in 1..Len(buf'[u]) : FALSE
    BY <1>1
  <2> QED
    BY <1>1, <1>4, <2>1, <2>2 DEF ReplyOnWire
<1> QED
  BY <1>5 DEF Exchange, ShakenBy

LEMMA ReadsShaken ==
    ASSUME StateOK, ShakeOK, NEW u \in Users, Exchange(u), ShakenBy(u), TunnelReads(u)
    PROVE  Exchange(u)' /\ ShakenBy(u)'
<1>0. User(u) \in Conns /\ Self(u) \in Conns /\ User(u) # Self(u)
  BY ConnFacts
<1>1. PICK n \in 1..Len(wire[u]) :
        /\ buf' = [buf EXCEPT ![u] = buf[u] \o SubSeq(wire[u], 1, n)]
        /\ wire' = [wire EXCEPT ![u] = SubSeq(wire[u], n + 1, Len(wire[u]))]
        /\ \/ UNCHANGED <<handler, svc, answer>>
           \/ /\ Verdict(buf[u] \o SubSeq(wire[u], 1, n)) = "ok"
              /\ handler' = [handler EXCEPT ![User(u)] = "sent"]
              /\ UNCHANGED <<svc, answer>>
           \/ EndWith(u, "error")
  BY DEF TunnelReads
<1>2. handler[User(u)] = "shake" /\ unsent[u] = 0 /\ UNCHANGED <<unsent, via, spoke>>
  BY DEF TunnelReads
<1>3. /\ Len(wire[u]) \in Nat /\ Len(buf[u]) \in Nat /\ n \in Nat
      /\ Len(buf'[u]) = Len(buf[u]) + n
      /\ \A i \in 1..Len(buf[u]) : buf'[u][i] = buf[u][i]
      /\ \A i \in 1..n : buf'[u][Len(buf[u]) + i] = wire[u][i]
      /\ Len(wire'[u]) = Len(wire[u]) - n
      /\ \A i \in 1..Len(wire[u]) - n : wire'[u][i] = wire[u][n + i]
  <2>1. buf[u] \in Seq(ReplyPart) /\ wire[u] \in Seq(ReplyPart)
    BY DEF ShakeOK
  <2>2. /\ buf'[u] = buf[u] \o SubSeq(wire[u], 1, n)
        /\ wire'[u] = SubSeq(wire[u], n + 1, Len(wire[u]))
    BY <1>1 DEF ShakeOK
  <2> QED
    BY <2>1, <2>2, ReadMoves
<1>4. svc'[Self(u)] = svc[Self(u)]
  BY <1>0, <1>1 DEF EndWith, StateOK
<1>5. svc[Self(u)] # "none"
  <2>1. Len(wire[u]) # 0
    BY <1>3
  <2> QED
    BY <2>1 DEF Exchange
<1>6. ReplyOnWire(u) /\ Status(u)' = Status(u) /\ Extra(u)' = Extra(u)
  BY <1>2, <1>4, <1>5 DEF Exchange, Status, Extra
<1>7. ReplyOnWire(u)'
  <2> DEFINE b == Len(buf[u])  w == Len(wire[u])  e == Extra(u)  h == ReplyHead(Status(u))
  <2>1. b \in Nat /\ w \in Nat /\ n \in Nat /\ n >= 1 /\ n <= w /\ e \in Nat /\ b + w = 4 + e
    <3>1. b \in Nat /\ w \in Nat /\ n \in Nat /\ n \in 1..w
      BY <1>3
    <3>2. e \in Nat
      BY DEF Extra
    <3>3. b + w = 4 + e
      BY <1>6 DEF ReplyOnWire
    <3> HIDE DEF b, w, e
    <3> QED
      BY <3>1, <3>2, <3>3
  <2>2. \A i \in 1..b : i <= 4 => buf[u][i] = h[i]
    BY <1>6 DEF ReplyOnWire
  <2>3. \A i \in 1..w : b + i <= 4 => wire[u][i] = h[b + i]
    BY <1>6 DEF ReplyOnWire
  <2> HIDE DEF b, w, e, h
  <2>4. Len(buf'[u]) = b + n /\ Len(wire'[u]) = w - n
    BY <1>3 DEF b, w
  <2>5. ASSUME NEW i \in 1..b + n, i <= 4 PROVE buf'[u][i] = h[i]
    <3>1. CASE i \in 1..b
      BY <1>3, <2>2, <2>5, <3>1 DEF b
    <3>2. CASE i \notin 1..b
      <4> DEFINE j == i - b
      <4>1. j \in 1..n /\ j \in 1..w /\ b + j = i
        BY <2>1, <3>2
      <4> HIDE DEF j
      <4>2. buf'[u][b + j] = wire[u][j]
        BY <1>3, <4>1 DEF b
      <4> QED
        BY <2>3, <2>5, <4>1, <4>2
    <3> QED
      BY <3>1, <3>2
  <2>6. ASSUME NEW i \in 1..w - n, b + n + i <= 4 PROVE wire'[u][i] = h[b + n + i]
    <3> DEFINE j == n + i
    <3>1. j \in 1..w /\ b + j = b + n + i
      BY <2>1
    <3>2. wire'[u][i] = wire[u][j]
      BY <1>3 DEF w
    <3> HIDE DEF j
    <3> QED
      BY <2>3, <2>6, <3>1, <3>2
  <2>7. b + n + (w - n) = 4 + e
    BY <2>1
  <2> QED
    BY <1>6, <2>4, <2>5, <2>6, <2>7 DEF ReplyOnWire, e, h
<1>8. ShakenBy(u)'
  <2>1. handler'[User(u)] = "sent" => Verdict(buf[u] \o SubSeq(wire[u], 1, n)) = "ok"
    BY <1>0, <1>1, <1>2 DEF EndWith, StateOK
  <2>2. buf'[u] = buf[u] \o SubSeq(wire[u], 1, n)
    BY <1>1 DEF ShakeOK
  <2>3. handler'[User(u)] = "sent" => Verdict(buf[u])' = "ok"
    BY <2>1, <2>2 DEF Verdict
  <2> QED
    BY <1>2, <1>4, <1>5, <2>3 DEF ShakenBy
<1> QED
  BY <1>4, <1>5, <1>7, <1>8 DEF Exchange

LEMMA SpeaksShaken ==
    ASSUME StateOK, ShakeOK, Owned, NEW u \in Users, Exchange(u), ShakenBy(u), Speaks(u)
    PROVE  Exchange(u)' /\ ShakenBy(u)'
<1>0. User(u) \in Conns /\ Self(u) \in Conns /\ User(u) # Self(u)
  BY ConnFacts
<1>1. /\ UNCHANGED <<svc, handler, unsent, buf, via>> /\ handler[User(u)] = "shake"
      /\ ~spoke[u] /\ spoke'[u] /\ \E s \in {"byte", "blank"} : wire'[u] = Append(wire[u], s)
  BY DEF Speaks, StateOK, ShakeOK
<1>2. svc[Self(u)] # "none"
  BY <1>0 DEF Speaks, Owned, QueuedOnce
<1>3. ReplyOnWire(u) /\ Status(u)' = Status(u) /\ Extra(u) = 0 /\ Extra(u)' = 1
  BY <1>1, <1>2 DEF Exchange, Status, Extra
<1>4. /\ Len(wire[u]) \in Nat /\ Len(buf[u]) \in Nat /\ Len(wire'[u]) = Len(wire[u]) + 1
      /\ \A i \in 1..Len(wire[u]) : wire'[u][i] = wire[u][i]
  <2>1. wire[u] \in Seq(ReplyPart) /\ buf[u] \in Seq(ReplyPart)
    BY DEF ShakeOK
  <2>2. PICK s \in {"byte", "blank"} : wire'[u] = Append(wire[u], s)
    BY <1>1
  <2> QED
    BY <2>1, <2>2
<1> DEFINE b == Len(buf[u])  w == Len(wire[u])  h == ReplyHead(Status(u))
<1>5. b \in Nat /\ w \in Nat /\ b + w = 4 + 0
  BY <1>3, <1>4 DEF ReplyOnWire
<1>6. /\ \A i \in 1..b : i <= 4 => buf[u][i] = h[i]
      /\ \A i \in 1..w : b + i <= 4 => wire[u][i] = h[b + i]
  BY <1>3 DEF ReplyOnWire
<1> HIDE DEF b, w, h
<1>7. b + (w + 1) = 4 + 1 /\ \A i \in 1..w + 1 : b + i <= 4 => i \in 1..w
  BY <1>5
<1>8. ReplyOnWire(u)'
  <2>1. Len(buf'[u]) = b /\ Len(wire'[u]) = w + 1 /\ \A i \in 1..w : wire'[u][i] = wire[u][i]
    BY <1>1, <1>4 DEF b, w
  <2>2. ReplyHead(Status(u)') = h
    BY <1>3 DEF h
  <2>3. \A i \in 1..w + 1 : b + i <= 4 => wire'[u][i] = h[b + i]
    BY <1>6, <1>7, <2>1
  <2> QED
    BY <1>1, <1>3, <1>6, <1>7, <2>1, <2>2, <2>3 DEF ReplyOnWire
<1> QED
  BY <1>1, <1>2, <1>8 DEF Exchange, ShakenBy

LEMMA ShakenStep ==
    ASSUME StateOK, ShakeOK, QueueOK, Owned, Shaken, [Next]_vars
    PROVE  Shaken'
<1> SUFFICES ASSUME NEW u \in Users PROVE Exchange(u)' /\ ShakenBy(u)'
  BY DEF Shaken
<1>0. User(u) \in Conns /\ Self(u) \in Conns /\ User(u) # Self(u) /\ Self(u)[1] = u /\ Self(u)[2] = "self"
  BY ConnFacts
<1>1. Exchange(u) /\ ShakenBy(u)
  BY DEF Shaken
<1>2. CASE Aside(u)
  BY <1>1, <1>2, ShakenAside
<1>3. CASE Connect(Self(u))
  <2>1. svc'[Self(u)] = "upgrading"
    BY <1>0, <1>3 DEF Connect, StateOK
  <2>2. Status(u)' = "200"
    BY <2>1 DEF Status
  <2> QED
    BY <1>0, <1>1, <1>3, <2>1, <2>2, ReplyShaken DEF Connect
<1>4. CASE Refuse(u)
  <2>1. svc'[Self(u)] = "over"
    BY <1>0, <1>4 DEF Refuse, StateOK
  <2>2. Status(u)' = "431"
    BY <2>1 DEF Status
  <2> QED
    BY <1>0, <1>1, <1>4, <2>1, <2>2, ReplyShaken DEF Refuse
<1>5. CASE TunnelWrites(u)
  <2>1. UNCHANGED <<svc, handler, wire, buf, via, spoke>> /\ svc[Self(u)] = "none"
        /\ handler[User(u)] = "shake"
    BY <1>5 DEF TunnelWrites
  <2> QED
    BY <1>1, <2>1 DEF Exchange, ShakenBy
<1>6. CASE TunnelReads(u)
  BY <1>1, <1>6, ReadsShaken
<1>7. CASE Speaks(u)
  BY <1>1, <1>7, SpeaksShaken
<1> QED
  BY <1>2, <1>3, <1>4, <1>5, <1>6, <1>7, AsideOrOwn DEF Own

LEMMA ShakenInvariance == Init /\ [][Next]_vars => [](TypeOK /\ Owned /\ Shaken)
<1>1. Init => Shaken
  BY ShakenInit
<1>2. TypeOK /\ Owned /\ Shaken /\ [Next]_vars => Shaken'
  BY ShakenStep, TypeParts
<1> QED
  BY <1>1, <1>2, OwnedInvariance, PTL

\* HandshakeExact of FrontEnd.tla: the Tunnel future is done only when all of the
\* listener's reply is read, and if the target has not spoken, when nothing else
\* is, however the reply was cut.
THEOREM HandshakeIsExact == Spec => []HandshakeExact
<1>1. TypeOK /\ Shaken => HandshakeExact
  <2> SUFFICES ASSUME TypeOK, Shaken, NEW u \in Users, handler[User(u)] = "sent", via[u] = u
               PROVE  /\ unsent[u] = 0
                      /\ IsPrefix(ReplyHead("200"), buf[u])
                      /\ ~spoke[u] => buf[u] = ReplyHead("200") /\ wire[u] = <<>>
    BY DEF HandshakeExact
  <2> DEFINE b == buf[u]  w == wire[u]  h == ReplyHead("200")
  <2>1. b \in Seq(ReplyPart) /\ w \in Seq(ReplyPart) /\ Len(b) \in Nat /\ Len(w) \in Nat
    BY TypeParts DEF ShakeOK
  <2>2. unsent[u] = 0 /\ ReplyOnWire(u) /\ Verdict(b) = "ok"
    BY DEF Shaken, Exchange, ShakenBy
  <2>3. Len(b) >= 2 /\ b[2] = "200" /\ b[Len(b)] = "blank"
    BY <2>1, <2>2 DEF Verdict, Last
  <2>4. Status(u) = "200"
    <3>1. Status(u) \in {"200", "431"}
      BY DEF Status
    <3>2. b[2] = ReplyHead(Status(u))[2]
      BY <2>1, <2>2, <2>3 DEF ReplyOnWire
    <3> QED
      BY <2>3, <3>1, <3>2, ReplyHeadFacts
  <2>5. /\ h \in Seq(ReplyPart) /\ Len(h) = 4 /\ h[2] = "200" /\ h[3] = "field"
    BY ReplyHeadFacts
  <2>6. \A i \in 1..Len(b) : i <= 4 => b[i] = h[i]
    BY <2>2, <2>4 DEF ReplyOnWire
  <2>7. Len(b) + Len(w) = 4 + Extra(u) /\ Extra(u) \in {0, 1} /\ (~spoke[u] => Extra(u) = 0)
    BY <2>2 DEF ReplyOnWire, Extra
  <2> HIDE DEF b, w, h
  <2>8. Len(b) >= 4
    <3>1. Len(b) # 2
      BY <2>3
    <3>2. Len(b) # 3
      BY <2>1, <2>3, <2>5, <2>6
    <3> DEFINE n == Len(b)
    <3>3. n \in Nat /\ n >= 2 /\ n # 2 /\ n # 3
      BY <2>1, <2>3, <3>1, <3>2
    <3> HIDE DEF n
    <3>4. n >= 4
      BY <3>3
    <3> QED
      BY <3>4 DEF n
  <2>9. \A i \in 1..4 : b[i] = h[i]
    BY <2>1, <2>6, <2>8
  <2>10. IsPrefix(h, b)
    <3>1. SubSeq(h, 1, 4) = SubSeq(b, 1, 4)
      <4> DEFINE p == SubSeq(h, 1, 4)  q == SubSeq(b, 1, 4)
      <4>1. (\A i \in 1..4 : h[i] \in ReplyPart) /\ (\A i \in 1..4 : b[i] \in ReplyPart)
        <5>1. \A i \in 1..4 : i \in 1..Len(h)
          BY <2>5
        <5>2. \A i \in 1..4 : h[i] \in ReplyPart
          <6>1. h \in Seq(ReplyPart)
            BY <2>5
          <6> QED
            BY <5>1, <6>1, ElementOfSeq
        <5> QED
          BY <2>9, <5>2
      <4>2. p \in Seq(ReplyPart) /\ Len(p) = 4 /\ \A i \in 1..4 : p[i] = h[i]
        BY <4>1, SubSeqProperties
      <4>3. q \in Seq(ReplyPart) /\ Len(q) = 4 /\ \A i \in 1..4 : q[i] = b[i]
        BY <4>1, SubSeqProperties
      <4> HIDE DEF p, q
      <4>4. Len(p) = Len(q) /\ \A i \in 1..Len(p) : p[i] = q[i]
        BY <2>9, <4>2, <4>3
      <4>5. p = q
        BY <4>2, <4>3, <4>4, SeqEqual
      <4> QED
        BY <4>5 DEF p, q
    <3> QED
      BY <2>5, <2>8, <3>1 DEF IsPrefix
  <2>11. ASSUME ~spoke[u] PROVE b = h /\ w = <<>>
    <3>1. Len(b) = 4 /\ Len(w) = 0
      <4> DEFINE m == Len(b)  n == Len(w)
      <4>1. m \in Nat /\ n \in Nat /\ m >= 4 /\ m + n = 4 + 0
        BY <2>1, <2>7, <2>8, <2>11
      <4> HIDE DEF m, n
      <4>2. m = 4 /\ n = 0
        BY <4>1
      <4> QED
        BY <4>2 DEF m, n
    <3>2. b = h
      BY <2>1, <2>5, <2>9, <3>1, SeqEqual
    <3> QED
      BY <2>1, <3>1, <3>2
  <2> QED
    BY <2>2, <2>10, <2>11 DEF b, w, h
<1> QED
  BY <1>1, ShakenInvariance, PTL DEF Spec

=============================================================================
