---------------------------- MODULE TunnelProofs ----------------------------
(***************************************************************************)
(* Proofs about Tunnel.tla: what crosses a stream, for every host and      *)
(* whatever the user and the target say.                                   *)
(***************************************************************************)
EXTENDS Tunnel, SequenceTheorems, TLAPS

(***************************************************************************)
(* Sequences, byte by byte                                                 *)
(***************************************************************************)
LEMMA FirstFacts ==
    ASSUME NEW S, NEW s \in Seq(S), NEW k \in 0..Len(s)
    PROVE  /\ First(s, k) \in Seq(S) /\ Len(First(s, k)) = k
           /\ \A i \in 1..k : First(s, k)[i] = s[i]
<1>1. Len(s) \in Nat /\ k \in Nat /\ \A i \in 1..k : s[i] \in S
  OBVIOUS
<1> QED
  BY <1>1, SubSeqProperties DEF First

LEMMA DropFacts ==
    ASSUME NEW S, NEW s \in Seq(S), NEW k \in 0..Len(s)
    PROVE  /\ Drop(s, k) \in Seq(S) /\ Len(Drop(s, k)) = Len(s) - k
           /\ \A i \in 1..Len(s) - k : Drop(s, k)[i] = s[k + i]
<1>1. Len(s) \in Nat /\ k \in Nat /\ \A i \in k + 1..Len(s) : s[i] \in S
  OBVIOUS
<1>2. /\ Drop(s, k) \in Seq(S)
      /\ Len(Drop(s, k)) = IF k + 1 <= Len(s) THEN Len(s) - (k + 1) + 1 ELSE 0
      /\ \A i \in 1..Len(s) - (k + 1) + 1 : Drop(s, k)[i] = s[k + 1 + i - 1]
  BY <1>1, SubSeqProperties DEF Drop
<1>3. Len(s) - (k + 1) + 1 = Len(s) - k
  BY <1>1
<1>4. \A i \in 1..Len(s) - k : k + 1 + i - 1 = k + i
  BY <1>1
<1>5. Len(Drop(s, k)) = Len(s) - k
  <2> DEFINE d == Len(Drop(s, k))
  <2>1. d = IF k + 1 <= Len(s) THEN Len(s) - (k + 1) + 1 ELSE 0
    BY <1>2
  <2> HIDE DEF d
  <2>2. d = Len(s) - k
    BY <1>1, <2>1
  <2> QED
    BY <2>2 DEF d
<1> QED
  BY <1>2, <1>3, <1>4, <1>5

\* What ConnectHeadBuf puts on the stream, and what read_u16 makes of it.
LEMMA HeadFacts ==
    /\ ConnectHeadBuf(Host) \in Seq(Byte)
    /\ Len(ConnectHeadBuf(Host)) = Len(Host) + 2
    /\ \A i \in 1..Len(Host) : ConnectHeadBuf(Host)[i + 2] = Host[i]
    /\ 256 * ConnectHeadBuf(Host)[1] + ConnectHeadBuf(Host)[2] = Len(Host)
<1> DEFINE n == Len(Host)  a == (n % 65536) \div 256  b == n % 256  p == <<a, b>>
<1>1. n \in Nat /\ n < 65536 /\ Host \in Seq(Byte)
  BY TunnelAssumption DEF U16
<1> HIDE DEF n
<1>2. a \in Nat /\ a < 256 /\ b \in Nat /\ b < 256 /\ 256 * a + b = n
  <2>1. n % 65536 = n
    BY <1>1
  <2> QED
    BY <1>1, <2>1
<1> HIDE DEF a, b
<1>3. p \in Seq(Byte) /\ Len(p) = 2 /\ p[1] = a /\ p[2] = b
  BY <1>2 DEF Byte
<1>4. ConnectHeadBuf(Host) = p \o Host
  BY DEF ConnectHeadBuf, p, a, b, n
<1> HIDE DEF p
<1>5. /\ p \o Host \in Seq(Byte) /\ Len(p \o Host) = 2 + n
      /\ \A i \in 1..2 + n : (p \o Host)[i] = IF i <= 2 THEN p[i] ELSE Host[i - 2]
  <2>1. /\ p \o Host \in Seq(Byte) /\ Len(p \o Host) = Len(p) + Len(Host)
        /\ \A i \in 1..Len(p) + Len(Host) :
             (p \o Host)[i] = IF i <= Len(p) THEN p[i] ELSE Host[i - Len(p)]
    <3>1. p \in Seq(Byte) /\ Host \in Seq(Byte)
      BY <1>1, <1>3
    <3> QED
      BY <3>1, ConcatProperties
  <2>2. Len(p) = 2 /\ Len(Host) = n
    BY <1>3 DEF n
  <2> QED
    BY <2>1, <2>2
<1>6. \A i \in 1..n : i + 2 \in 1..2 + n /\ ~(i + 2 <= 2) /\ i + 2 - 2 = i
  BY <1>1
<1>7. (p \o Host)[1] = a /\ (p \o Host)[2] = b
  BY <1>1, <1>3, <1>5
<1>8. Len(p \o Host) = n + 2
  BY <1>1, <1>5
<1>9. \A i \in 1..n : (p \o Host)[i + 2] = Host[i]
  BY <1>5, <1>6
<1> QED
  BY <1>2, <1>4, <1>5, <1>7, <1>8, <1>9 DEF n

(***************************************************************************)
(* Types                                                                   *)
(***************************************************************************)
Bytes(s) == s \in Seq(Byte)

LEMMA BytesFacts ==
    ASSUME NEW s, Bytes(s)
    PROVE  /\ Len(s) \in Nat
           /\ \A k \in 0..Len(s) : Bytes(First(s, k)) /\ Bytes(Drop(s, k))
           /\ \A t : Bytes(t) => Bytes(s \o t)
           /\ \A x \in Byte : Bytes(Append(s, x))
           /\ s # <<>> => Head(s) \in Byte /\ Bytes(Tail(s))
<1>1. s \in Seq(Byte)
  BY DEF Bytes
<1>2. \A k \in 0..Len(s) : Bytes(First(s, k)) /\ Bytes(Drop(s, k))
  BY <1>1, FirstFacts, DropFacts DEF Bytes
<1>3. \A t : Bytes(t) => Bytes(s \o t)
  BY <1>1 DEF Bytes
<1>4. \A x \in Byte : Bytes(Append(s, x))
  BY <1>1 DEF Bytes
<1>5. s # <<>> => Head(s) \in Byte /\ Bytes(Tail(s))
  BY <1>1 DEF Bytes
<1> QED
  BY <1>1, <1>2, <1>3, <1>4, <1>5

\* The sequences of bytes, and the rest of the state.
SeqsOK ==
    Bytes(rest) /\ Bytes(up) /\ Bytes(down) /\ Bytes(url) /\ Bytes(got) /\ Bytes(heard)

PlacesOK ==
    /\ kind \in {"H2", "Quic"} /\ ask \in BOOLEAN
    /\ cpc \in {"init", "asked", "write", "read", "copy", "alive", "end", "err"}
    /\ spc \in {"idle", "ok", "len", "host", "connect", "copy", "end", "err"}
    /\ fin \subseteq Directions /\ lost \in BOOLEAN
    /\ cut \subseteq {"host", "ok"}

CountsOK ==
    /\ urlLen \in U16
    /\ said \in 0..Len(Said) /\ replied \in 0..Len(Reply)
    /\ partial \in 0..MaxPartial

LEMMA TypeParts == TypeOK <=> SeqsOK /\ PlacesOK /\ CountsOK
BY DEF TypeOK, SeqsOK, PlacesOK, CountsOK, Bytes

LEMMA TypeInit == Init => TypeOK
<1> SUFFICES ASSUME Init PROVE SeqsOK /\ PlacesOK /\ CountsOK
  BY TypeParts
<1>1. SeqsOK
  BY DEF Init, SeqsOK, Bytes
<1>2. PlacesOK
  BY DEF Init, PlacesOK
<1>3. CountsOK
  BY TunnelAssumption DEF Init, CountsOK, U16
<1> QED
  BY <1>1, <1>2, <1>3

LEMMA PlacesStep ==
    ASSUME PlacesOK, [Next]_vars
    PROVE  PlacesOK'
<1> USE DEF PlacesOK, Directions
<1>1. CASE NewStream \/ Upgraded \/ WriteH2 \/ WriteQuic \/ ReadOk \/ CopyDown
  BY <1>1 DEF NewStream, Upgraded, WriteH2, WriteQuic, ReadOk, CopyDown, streamVars
<1>2. CASE ClientShutdown \/ ClientDone \/ ClientFails \/ ClientDropped
  BY <1>2 DEF ClientShutdown, ClientDone, ClientFails, ClientDropped, streamVars
<1>3. CASE ServerAccepts \/ WriteOk \/ ReadLen \/ ReadHost \/ CopyUp
  BY <1>3 DEF ServerAccepts, WriteOk, ReadLen, ReadHost, CopyUp, streamVars
<1>4. CASE Connect \/ ServerShutdown \/ ServerDone \/ ServerFails \/ TargetFails
  BY <1>4
  DEF Connect, ServerShutdown, ServerDone, ServerFails, TargetFails, ServerDrops, streamVars
<1>5. CASE UserSays \/ TargetSays \/ ConnectionLost \/ Over \/ UNCHANGED vars
  BY <1>5 DEF UserSays, TargetSays, ConnectionLost, Over, vars, streamVars
<1> QED
  BY <1>1, <1>2, <1>3, <1>4, <1>5 DEF Next, ClientStep, ServerStep, Outside

\* The actions that move no bytes.
Moves ==
    \/ NewStream \/ WriteH2 \/ WriteQuic \/ ReadOk \/ UserSays \/ CopyDown
    \/ WriteOk \/ ReadLen \/ ReadHost \/ CopyUp \/ TargetSays

LEMMA OthersMoveNothing ==
    ASSUME [Next]_vars, ~Moves
    PROVE  UNCHANGED <<rest, up, down, headVars, endVars, partial, cut>>
<1>1. CASE Upgraded \/ ClientShutdown \/ ClientDone \/ ClientFails \/ ClientDropped
  BY <1>1
  DEF Upgraded, ClientShutdown, ClientDone, ClientFails, ClientDropped, streamVars
<1>2. CASE ServerAccepts \/ Connect \/ ServerShutdown \/ ServerDone \/ ServerFails \/ TargetFails
  BY <1>2
  DEF ServerAccepts, Connect, ServerShutdown, ServerDone, ServerFails, TargetFails,
      ServerDrops, streamVars
<1>3. CASE ConnectionLost \/ Over \/ UNCHANGED vars
  BY <1>3 DEF ConnectionLost, Over, vars, streamVars
<1> QED
  BY <1>1, <1>2, <1>3 DEF Next, ClientStep, ServerStep, Outside, Moves

LEMMA TypeStep == TypeOK /\ [Next]_vars => TypeOK'
<1>a. ASSUME SeqsOK', PlacesOK', CountsOK' PROVE TypeOK'
  BY <1>a DEF TypeOK, SeqsOK, PlacesOK, CountsOK, Bytes
<1> SUFFICES ASSUME SeqsOK, PlacesOK, CountsOK, [Next]_vars PROVE SeqsOK' /\ CountsOK'
  BY <1>a, TypeParts, PlacesStep
<1>0. /\ Said \in Seq(Byte) /\ Reply \in Seq(Byte) /\ Len(Said) \in Nat /\ Len(Reply) \in Nat
      /\ MaxPartial \in Nat
  BY TunnelAssumption
<1>e. Bytes(<<>>)
  BY DEF Bytes
<1>1. CASE NewStream
  <2>1. Bytes(ConnectHeadBuf(Host))
    BY HeadFacts DEF Bytes
  <2>2. Bytes(rest')
    BY <1>1, <1>e, <2>1 DEF NewStream
  <2> QED
    BY <1>1, <2>2 DEF NewStream, SeqsOK, CountsOK, streamVars, headVars, endVars
<1>2. CASE WriteH2
  <2>1. PICK k \in 1..Len(rest) : up' = up \o First(rest, k) /\ rest' = Drop(rest, k)
    BY <1>2 DEF WriteH2
  <2>2. k \in 0..Len(rest)
    BY BytesFacts DEF SeqsOK
  <2>3. Bytes(First(rest, k)) /\ Bytes(Drop(rest, k))
    BY <2>2, BytesFacts DEF SeqsOK
  <2>4. Bytes(up') /\ Bytes(rest')
    BY <2>1, <2>3, BytesFacts DEF SeqsOK
  <2> QED
    BY <1>2, <2>4 DEF WriteH2, SeqsOK, CountsOK, headVars, endVars
<1>3. CASE WriteQuic
  <2>1. Bytes(up')
    <3>1. CASE up' = up \o rest
      BY <3>1, BytesFacts DEF SeqsOK
    <3>2. CASE \E k \in 1..Len(rest) - 1 : up' = up \o First(rest, k)
      <4>1. PICK k \in 1..Len(rest) - 1 : up' = up \o First(rest, k)
        BY <3>2
      <4>2. k \in 0..Len(rest)
        BY BytesFacts DEF SeqsOK
      <4>3. Bytes(First(rest, k))
        BY <4>2, BytesFacts DEF SeqsOK
      <4> QED
        BY <4>1, <4>3, BytesFacts DEF SeqsOK
    <3> QED
      BY <1>3, <3>1, <3>2 DEF WriteQuic
  <2>2. Bytes(rest') /\ partial' \in 0..MaxPartial
    <3>1. rest' = rest \/ rest' = <<>>
      BY <1>3 DEF WriteQuic
    <3>2. partial' = partial \/ (partial < MaxPartial /\ partial' = partial + 1)
      BY <1>3 DEF WriteQuic
    <3> QED
      BY <1>0, <1>e, <3>1, <3>2 DEF SeqsOK, CountsOK
  <2> QED
    BY <1>3, <2>1, <2>2 DEF WriteQuic, SeqsOK, CountsOK, headVars, endVars
<1>4. CASE ReadOk
  <2>1. Bytes(down')
    <3>1. CASE \E k \in 1..2 : k <= Len(down) /\ down' = Drop(down, k)
      <4>1. PICK k \in 1..2 : k <= Len(down) /\ down' = Drop(down, k)
        BY <3>1
      <4>2. k \in 0..Len(down)
        BY <4>1, BytesFacts DEF SeqsOK
      <4> QED
        BY <4>1, <4>2, BytesFacts DEF SeqsOK
    <3> QED
      BY <1>4, <3>1 DEF ReadOk, SeqsOK
  <2> QED
    BY <1>4, <2>1 DEF ReadOk, SeqsOK, CountsOK, headVars, endVars
<1>5. CASE UserSays
  <2>1. CASE said < Len(Said) /\ said' = said + 1 /\ up' = Append(up, Said[said + 1])
    <3>1. said' \in 0..Len(Said) /\ said + 1 \in 1..Len(Said)
      BY <1>0, <2>1 DEF CountsOK
    <3>2. Said[said + 1] \in Byte
      BY <1>0, <3>1
    <3>3. Bytes(up')
      BY <2>1, <3>2, BytesFacts DEF SeqsOK
    <3> QED
      BY <1>5, <3>1, <3>3 DEF UserSays, SeqsOK, CountsOK, headVars
  <2>2. CASE UNCHANGED <<said, up>>
    BY <1>5, <2>2 DEF UserSays, SeqsOK, CountsOK, headVars
  <2> QED
    BY <1>5, <2>1, <2>2 DEF UserSays
<1>6. CASE CopyDown
  <2>1. Bytes(heard') /\ Bytes(down')
    BY <1>6, BytesFacts DEF CopyDown, SeqsOK
  <2> QED
    BY <1>6, <2>1 DEF CopyDown, SeqsOK, CountsOK, headVars
<1>7. CASE WriteOk
  <2>1. Bytes(OK)
    BY DEF Bytes, OK, Byte
  <2>2. Bytes(down')
    BY <1>7, <2>1, BytesFacts DEF WriteOk, SeqsOK
  <2> QED
    BY <1>7, <2>2 DEF WriteOk, SeqsOK, CountsOK, headVars, endVars
<1>8. CASE ReadLen
  <2>1. Len(up) >= 2 /\ Len(up) \in Nat /\ up \in Seq(Byte)
    BY <1>8, BytesFacts DEF ReadLen, SeqsOK, Bytes
  <2>2. 2 \in 0..Len(up) /\ up[1] \in Byte /\ up[2] \in Byte
    BY <2>1
  <2>3. Bytes(up')
    BY <1>8, <2>2, BytesFacts DEF ReadLen, SeqsOK
  <2>4. urlLen' \in U16
    <3> DEFINE a == up[1]  b == up[2]
    <3>1. a \in Nat /\ a < 256 /\ b \in Nat /\ b < 256 /\ urlLen' = 256 * a + b
      BY <1>8, <2>2 DEF ReadLen, ReadU16, Byte
    <3> HIDE DEF a, b
    <3> QED
      BY <3>1 DEF U16
  <2> QED
    BY <1>8, <2>3, <2>4 DEF ReadLen, SeqsOK, CountsOK, endVars
<1>9. CASE ReadHost
  <2>1. Bytes(url') /\ Bytes(up')
    <3>1. CASE \E k \in 1..Len(up) : url' = First(up, k) /\ up' = Drop(up, k)
      <4>1. PICK k \in 1..Len(up) : url' = First(up, k) /\ up' = Drop(up, k)
        BY <3>1
      <4>2. k \in 0..Len(up)
        BY BytesFacts DEF SeqsOK
      <4> QED
        BY <4>1, <4>2, BytesFacts DEF SeqsOK
    <3>2. CASE url' = <<>> /\ up' = up
      BY <1>e, <3>2 DEF SeqsOK
    <3> QED
      BY <1>9, <3>1, <3>2 DEF ReadHost
  <2> QED
    BY <1>9, <2>1 DEF ReadHost, SeqsOK, CountsOK, endVars
<1>10. CASE CopyUp
  <2>1. Bytes(got') /\ Bytes(up')
    BY <1>10, BytesFacts DEF CopyUp, SeqsOK
  <2> QED
    BY <1>10, <2>1 DEF CopyUp, SeqsOK, CountsOK, headVars
<1>11. CASE TargetSays
  <2>1. CASE replied < Len(Reply) /\ replied' = replied + 1 /\ down' = Append(down, Reply[replied + 1])
    <3>1. replied' \in 0..Len(Reply) /\ replied + 1 \in 1..Len(Reply)
      BY <1>0, <2>1 DEF CountsOK
    <3>2. Reply[replied + 1] \in Byte
      BY <1>0, <3>1
    <3>3. Bytes(down')
      BY <2>1, <3>2, BytesFacts DEF SeqsOK
    <3> QED
      BY <1>11, <3>1, <3>3 DEF TargetSays, SeqsOK, CountsOK, headVars
  <2>2. CASE UNCHANGED <<replied, down>>
    BY <1>11, <2>2 DEF TargetSays, SeqsOK, CountsOK, headVars
  <2> QED
    BY <1>11, <2>1, <2>2 DEF TargetSays
<1>12. CASE ~Moves
  BY <1>12, OthersMoveNothing DEF SeqsOK, CountsOK, headVars, endVars
<1> QED
  BY <1>1, <1>2, <1>3, <1>4, <1>5, <1>6, <1>7, <1>8, <1>9, <1>10, <1>11, <1>12 DEF Moves

LEMMA TypeInvariance == Spec => []TypeOK
BY TypeInit, TypeStep, PTL DEF Spec

\* The state of the stream and of its two ends keeps its type: what is read from
\* the stream as a u16 or as a host is one.
THEOREM TypeCorrect == Spec => []TypeOK
BY TypeInvariance

(***************************************************************************)
(* The control state                                                       *)
(***************************************************************************)
Unsent == cpc \in {"init", "asked", "write", "read", "alive"}
Unserved == spc \in {"idle", "ok", "len", "host", "connect"}

ClientControl ==
    /\ cpc \in {"write", "read", "copy", "end"} => ask
    /\ cpc = "read" => kind = "Quic"
    /\ cpc = "asked" => kind = "H2"
    /\ cpc \in {"init", "read", "copy", "alive", "end"} \/ ~ask => rest = <<>>
    /\ Unsent => said = 0 /\ heard = <<>> /\ {"user", "told"} \cap fin = {}
    /\ "ok" \in cut => kind = "Quic" /\ ~Unsent

ServerControl ==
    /\ Unserved => got = <<>> /\ replied = 0 /\ {"target", "shut", "down"} \cap fin = {}
    /\ spc \in {"idle", "ok", "len", "host"} => url = <<>> /\ "host" \notin cut
    /\ spc = "ok" => kind = "Quic"
    /\ spc \in {"copy", "end"} => url # <<>>

\* The order of closing: an end is passed on after what came before it, unless
\* the stream was dropped.
Closing ==
    ~Broken =>
        /\ "up" \in fin => "user" \in fin /\ cpc \in {"copy", "end"}
        /\ "shut" \in fin => "up" \in fin /\ up = <<>>
        /\ "down" \in fin => "target" \in fin
        /\ "told" \in fin => "down" \in fin /\ down = <<>>

Control == ClientControl /\ ServerControl /\ Closing

LEMMA ControlInit == Init => Control
BY DEF Init, Control, ClientControl, ServerControl, Closing, Unsent, Unserved

LEMMA ClientControlStep ==
    ASSUME PlacesOK, ClientControl, [Next]_vars
    PROVE  ClientControl'
<1> USE DEF ClientControl, Unsent, PlacesOK, streamVars, endVars, headVars
<1>1. CASE NewStream
  BY <1>1 DEF NewStream
<1>2. CASE Upgraded
  BY <1>2 DEF Upgraded
<1>3. CASE WriteH2
  <2>1. cpc' = "write" \/ (cpc' = "copy" /\ rest' = <<>>)
    <3>1. PICK k \in 1..Len(rest) :
            rest' = Drop(rest, k) /\ cpc' = IF k = Len(rest) THEN "copy" ELSE "write"
      BY <1>3 DEF WriteH2
    <3>2. CASE k = Len(rest)
      <4>1. k \in Int /\ k + 1 \in Int /\ k < k + 1
        BY <3>1
      <4>2. SubSeq(rest, k + 1, k) = <<>>
        BY <4>1, SubSeqEmpty
      <4> QED
        BY <3>1, <3>2, <4>2 DEF Drop
    <3> QED
      BY <3>1, <3>2
  <2>2. /\ cpc = "write" /\ kind = "H2" /\ UNCHANGED <<kind, ask, said, heard, fin, lost, cut>>
    BY <1>3 DEF WriteH2
  <2> QED
    BY <2>1, <2>2
<1>4. CASE WriteQuic
  BY <1>4 DEF WriteQuic
<1>5. CASE ReadOk
  BY <1>5 DEF ReadOk
<1>6. CASE UserSays \/ CopyDown \/ ClientShutdown \/ ClientDone
  BY <1>6 DEF UserSays, CopyDown, ClientShutdown, ClientDone
<1>7. CASE ClientFails \/ ClientDropped
  BY <1>7 DEF ClientFails, ClientDropped, ClientBusy
<1>8. CASE ServerAccepts \/ WriteOk \/ ReadLen \/ CopyUp \/ TargetSays
  BY <1>8 DEF ServerAccepts, WriteOk, ReadLen, CopyUp, TargetSays
<1>9. CASE ReadHost
  BY <1>9 DEF ReadHost
<1>10. CASE Connect \/ ServerShutdown \/ ServerDone \/ ServerFails \/ TargetFails
  BY <1>10 DEF Connect, ServerShutdown, ServerDone, ServerFails, TargetFails, ServerDrops
<1>11. CASE ConnectionLost \/ Over \/ UNCHANGED vars
  BY <1>11 DEF ConnectionLost, Over, vars
<1> QED
  BY <1>1, <1>2, <1>3, <1>4, <1>5, <1>6, <1>7, <1>8, <1>9, <1>10, <1>11
  DEF Next, ClientStep, ServerStep, Outside

LEMMA ServerControlStep ==
    ASSUME PlacesOK, ServerControl, [Next]_vars
    PROVE  ServerControl'
<1> USE DEF ServerControl, Unserved, PlacesOK, streamVars, endVars, headVars
<1>1. CASE NewStream \/ Upgraded \/ WriteH2 \/ WriteQuic \/ UserSays \/ CopyDown
  BY <1>1 DEF NewStream, Upgraded, WriteH2, WriteQuic, UserSays, CopyDown
<1>2. CASE ReadOk
  BY <1>2 DEF ReadOk
<1>3. CASE ClientShutdown \/ ClientDone \/ ClientFails \/ ClientDropped
  BY <1>3 DEF ClientShutdown, ClientDone, ClientFails, ClientDropped
<1>4. CASE ServerAccepts \/ WriteOk \/ ReadLen
  BY <1>4 DEF ServerAccepts, WriteOk, ReadLen
<1>5. CASE ReadHost
  BY <1>5 DEF ReadHost
<1>6. CASE Connect \/ ServerFails \/ TargetFails
  BY <1>6 DEF Connect, ServerFails, TargetFails, ServerDrops
<1>7. CASE CopyUp \/ TargetSays \/ ServerShutdown \/ ServerDone
  BY <1>7 DEF CopyUp, TargetSays, ServerShutdown, ServerDone
<1>8. CASE ConnectionLost \/ Over \/ UNCHANGED vars
  BY <1>8 DEF ConnectionLost, Over, vars
<1> QED
  BY <1>1, <1>2, <1>3, <1>4, <1>5, <1>6, <1>7, <1>8
  DEF Next, ClientStep, ServerStep, Outside

LEMMA ClosingStep ==
    ASSUME SeqsOK, PlacesOK, Control, [Next]_vars
    PROVE  Closing'
<1> SUFFICES ASSUME ~Broken, ~Broken', Closing PROVE Closing'
  <2>1. Broken => Broken'
    BY DEF Broken, ClientGone, ServerGone, Next, ClientStep, ServerStep, Outside, NewStream, Upgraded, WriteH2, WriteQuic,
           ReadOk, UserSays, CopyDown, ClientShutdown, ClientDone, ClientFails, ClientDropped,
           ServerAccepts, WriteOk, ReadLen, ReadHost, Connect, CopyUp, TargetSays,
           ServerShutdown, ServerDone, ServerFails, TargetFails, ServerDrops, ConnectionLost,
           Over, vars, streamVars, ClientBusy
  <2> QED
    BY <2>1 DEF Control, Closing
<1> USE DEF Control, ClientControl, ServerControl, Closing, Unsent, Unserved, PlacesOK,
            streamVars, endVars, headVars, Broken, ClientGone, ServerGone, UpEnds, DownEnds
<1>1. CASE NewStream \/ Upgraded
  BY <1>1 DEF NewStream, Upgraded
<1>2. CASE WriteH2 \/ WriteQuic
  BY <1>2 DEF WriteH2, WriteQuic
<1>3. CASE ReadOk
  BY <1>3 DEF ReadOk
<1>4. CASE UserSays
  BY <1>4 DEF UserSays
<1>5. CASE CopyDown
  BY <1>5 DEF CopyDown
<1>6. CASE ClientShutdown \/ ClientDone \/ ClientFails \/ ClientDropped
  BY <1>6 DEF ClientShutdown, ClientDone, ClientFails, ClientDropped
<1>7. CASE ServerAccepts \/ WriteOk
  BY <1>7 DEF ServerAccepts, WriteOk
<1>8. CASE ReadLen
  <2>1. up # <<>>
    BY <1>8 DEF ReadLen
  <2> QED
    BY <1>8, <2>1 DEF ReadLen
<1>9. CASE ReadHost
  BY <1>9 DEF ReadHost
<1>10. CASE CopyUp
  BY <1>10 DEF CopyUp
<1>11. CASE TargetSays
  BY <1>11 DEF TargetSays
<1>12. CASE Connect \/ ServerShutdown \/ ServerDone \/ ServerFails \/ TargetFails
  BY <1>12 DEF Connect, ServerShutdown, ServerDone, ServerFails, TargetFails, ServerDrops
<1>13. CASE ConnectionLost \/ Over \/ UNCHANGED vars
  BY <1>13 DEF ConnectionLost, Over, vars
<1> QED
  BY <1>1, <1>2, <1>3, <1>4, <1>5, <1>6, <1>7, <1>8, <1>9, <1>10, <1>11, <1>12, <1>13
  DEF Next, ClientStep, ServerStep, Outside

LEMMA ControlStep ==
    ASSUME SeqsOK, PlacesOK, Control, [Next]_vars
    PROVE  Control'
BY ClientControlStep, ServerControlStep, ClosingStep DEF Control

(***************************************************************************)
(* The way up.  The bytes the client writes are the head, once, and then   *)
(* what the user says; at any time the server has taken a beginning of     *)
(* them, and `up' and `rest' hold what follows.                            *)
(***************************************************************************)
HeadLen == Len(Host) + 2
UpByte(i) == IF i <= HeadLen THEN ConnectHeadBuf(Host)[i] ELSE Said[i - HeadLen]

Written == IF ask /\ cpc # "init" THEN HeadLen + said ELSE 0
Taken == IF spc \in {"idle", "ok", "len"} THEN 0 ELSE 2 + Len(url) + Len(got)

UpBytes ==
    /\ Taken + Len(up) + Len(rest) = Written
    /\ \A i \in 1..Len(up) : up[i] = UpByte(Taken + i)
    /\ \A i \in 1..Len(rest) : rest[i] = UpByte(Taken + Len(up) + i)
    /\ \A i \in 1..Len(url) : url[i] = UpByte(2 + i)
    /\ \A i \in 1..Len(got) : got[i] = UpByte(2 + Len(url) + i)

HostRead ==
    /\ spc \in {"host", "connect", "copy", "end"} => urlLen = Len(Host)
    /\ spc \in {"connect", "copy", "end"} =>
         /\ Len(url) <= Len(Host)
         /\ url # <<>> /\ "host" \notin cut => Len(url) = Len(Host)

UpInv == partial = 0 /\ spc # "err" => UpBytes /\ HostRead

LEMMA HostFacts ==
    /\ Len(Host) \in Nat /\ Len(Host) >= 1 /\ Len(Host) < 65536 /\ HeadLen \in Nat
    /\ HeadLen = Len(Host) + 2
    /\ Len(Said) \in Nat /\ Len(Reply) \in Nat
    /\ \A i \in 1..Len(Host) : UpByte(2 + i) = Host[i]
    /\ \A i \in Nat : i >= 1 => UpByte(HeadLen + i) = Said[i]
    /\ 256 * UpByte(1) + UpByte(2) = Len(Host)
<1>1. Len(Host) \in Nat /\ Len(Host) >= 1 /\ Len(Host) < 65536 /\ Len(Said) \in Nat
      /\ Len(Reply) \in Nat
  <2>1. Host \in Seq(Byte) /\ Host # <<>> /\ Said \in Seq(Byte) /\ Reply \in Seq(Byte)
        /\ Len(Host) < 65536
    BY TunnelAssumption DEF U16
  <2>2. Len(Host) \in Nat \ {0}
    BY <2>1, EmptySeq
  <2>3. Len(Said) \in Nat /\ Len(Reply) \in Nat
    BY <2>1, LenProperties
  <2> QED
    BY <2>1, <2>2, <2>3
<1>2. HeadLen = Len(Host) + 2 /\ HeadLen \in Nat
  BY <1>1 DEF HeadLen
<1> DEFINE h == ConnectHeadBuf(Host)
<1>3. (\A i \in 1..Len(Host) : h[i + 2] = Host[i]) /\ 256 * h[1] + h[2] = Len(Host)
  BY HeadFacts
<1> HIDE DEF h
<1>4. ASSUME NEW i \in 1..Len(Host) PROVE UpByte(2 + i) = Host[i]
  <2>1. 2 + i <= HeadLen /\ 2 + i = i + 2
    BY <1>1, <1>2
  <2> QED
    BY <1>3, <2>1 DEF UpByte, h
<1>5. ASSUME NEW i \in Nat, i >= 1 PROVE UpByte(HeadLen + i) = Said[i]
  <2> DEFINE j == HeadLen + i
  <2>1. ~(j <= HeadLen) /\ j - HeadLen = i
    BY <1>2, <1>5
  <2> HIDE DEF j
  <2>2. UpByte(j) = Said[j - HeadLen]
    BY <2>1 DEF UpByte
  <2> QED
    BY <2>1, <2>2 DEF j
<1>6. UpByte(1) = h[1] /\ UpByte(2) = h[2]
  BY <1>1, <1>2 DEF UpByte, h
<1>7. 256 * UpByte(1) + UpByte(2) = Len(Host)
  BY <1>3, <1>6
<1>8. /\ \A i \in 1..Len(Host) : UpByte(2 + i) = Host[i]
      /\ \A i \in Nat : i >= 1 => UpByte(HeadLen + i) = Said[i]
  BY <1>4, <1>5
<1> QED
  BY <1>1, <1>2, <1>7, <1>8

LEMMA UpInit == Init => UpInv
<1> SUFFICES ASSUME Init PROVE UpInv
  OBVIOUS
<1>1. Len(up) = 0 /\ Len(rest) = 0 /\ Len(url) = 0 /\ Len(got) = 0 /\ cpc = "init" /\ spc = "idle"
  BY DEF Init
<1> QED
  BY <1>1 DEF UpInv, UpBytes, HostRead, Taken, Written

\* Steps that do not concern the way up.
LEMMA UpFrame ==
    ASSUME UpInv, UNCHANGED <<ask, rest, up, url, got, said, urlLen, partial>>,
           cpc' = "init" <=> cpc = "init",
           "host" \in cut' <=> "host" \in cut,
           \/ spc' = spc \/ spc' = "err"
           \/ {spc, spc'} \subseteq {"idle", "ok", "len"}
           \/ {spc, spc'} \subseteq {"connect", "copy", "end"}
    PROVE  UpInv'
<1> SUFFICES ASSUME partial' = 0, spc' # "err" PROVE UpBytes' /\ HostRead'
  BY DEF UpInv
<1>1. UpBytes /\ HostRead
  BY DEF UpInv
<1>2. Taken' = Taken /\ Written' = Written
  BY DEF Taken, Written
<1> QED
  BY <1>1, <1>2 DEF UpBytes, HostRead

\* NewStream has the whole head to write, if there is a host.
LEMMA NewStreamUp ==
    ASSUME TypeOK, Control, UpInv, NewStream
    PROVE  UpInv'
<1> SUFFICES ASSUME partial' = 0, spc' # "err" PROVE UpBytes' /\ HostRead'
  BY DEF UpInv
<1>1. /\ UNCHANGED <<ask, spc, up, url, got, said, urlLen, partial, cut>> /\ cpc = "init"
      /\ cpc' # "init" /\ rest' = IF ask THEN ConnectHeadBuf(Host) ELSE <<>>
  BY DEF NewStream, streamVars, headVars, endVars
<1>2. UpBytes /\ HostRead /\ said = 0 /\ rest = <<>>
  BY <1>1 DEF UpInv, Control, ClientControl, Unsent
<1>3. Len(up) \in Nat /\ Len(url) \in Nat /\ Len(got) \in Nat /\ Len(rest) = 0
  BY <1>2, TypeParts, BytesFacts DEF SeqsOK
<1>4. Taken = 0 /\ Len(up) = 0 /\ Taken' = 0
  BY <1>1, <1>2, <1>3 DEF UpBytes, Written, Taken
<1>5. CASE ask
  <2>1. Len(rest') = HeadLen /\ HeadLen \in Nat /\ \A i \in 1..HeadLen : rest'[i] = UpByte(i)
    BY <1>1, <1>5, HeadFacts, HostFacts DEF HeadLen, UpByte
  <2>2. Written' = HeadLen
    BY <1>1, <1>2, <1>5, HostFacts DEF Written
  <2> QED
    BY <1>1, <1>2, <1>3, <1>4, <2>1, <2>2 DEF UpBytes, HostRead
<1>6. CASE ~ask
  <2>1. Len(rest') = 0 /\ Written' = 0
    BY <1>1, <1>6 DEF Written
  <2> QED
    BY <1>1, <1>2, <1>3, <1>4, <2>1 DEF UpBytes, HostRead
<1> QED
  BY <1>5, <1>6

\* write_all moves bytes from the head to the stream.
LEMMA WriteUp ==
    ASSUME TypeOK, Control, UpInv, WriteH2 \/ WriteQuic
    PROVE  UpInv'
<1> SUFFICES ASSUME partial' = 0, spc' # "err" PROVE UpBytes' /\ HostRead'
  BY DEF UpInv
<1>1. Bytes(rest) /\ Bytes(up) /\ Len(rest) \in Nat /\ Len(up) \in Nat /\ Len(url) \in Nat
      /\ Len(got) \in Nat
  BY TypeParts, BytesFacts DEF SeqsOK
<1>2. PICK k \in 0..Len(rest) : up' = up \o First(rest, k) /\ rest' = Drop(rest, k)
  <2>1. CASE WriteH2
    <3>1. PICK k \in 1..Len(rest) : up' = up \o First(rest, k) /\ rest' = Drop(rest, k)
      BY <2>1 DEF WriteH2
    <3>2. k \in 0..Len(rest)
      BY <1>1
    <3> QED
      BY <3>1, <3>2
  <2>2. CASE WriteQuic
    <3>1. up' = up \o rest /\ rest' = <<>>
      <4>1. partial \in Nat
        BY TypeParts, TunnelAssumption DEF CountsOK
      <4>2. partial' # partial + 1
        BY <4>1
      <4> QED
        BY <2>2, <4>2 DEF WriteQuic
    <3>2. First(rest, Len(rest)) = rest
      BY SubSeqFull, <1>1 DEF First, Bytes
    <3>3. Drop(rest, Len(rest)) = <<>>
      <4>1. Len(rest) + 1 \in Int /\ Len(rest) < Len(rest) + 1
        BY <1>1
      <4> QED
        BY <1>1, <4>1, SubSeqEmpty DEF Drop
    <3>4. Len(rest) \in 0..Len(rest)
      BY <1>1
    <3> QED
      BY <3>1, <3>2, <3>3, <3>4
  <2> QED
    BY <2>1, <2>2
<1>3. /\ UNCHANGED <<ask, spc, url, got, said, urlLen, cut>> /\ cpc = "write" /\ cpc' # "init"
      /\ partial = 0
  <2>1. partial \in Nat
    BY TypeParts, TunnelAssumption DEF CountsOK
  <2>2. partial' = partial \/ partial' = partial + 1
    BY DEF WriteH2, WriteQuic
  <2>3. partial = 0
    BY <2>1, <2>2
  <2> QED
    BY <2>3 DEF WriteH2, WriteQuic, headVars, endVars
<1>4. UpBytes /\ HostRead
  BY <1>3 DEF UpInv
<1> DEFINE f == First(rest, k)
<1>5. /\ f \in Seq(Byte) /\ Len(f) = k /\ \A i \in 1..k : f[i] = rest[i]
      /\ Len(rest') = Len(rest) - k
      /\ \A i \in 1..Len(rest) - k : rest'[i] = rest[k + i]
  BY <1>1, <1>2, FirstFacts, DropFacts DEF Bytes
<1>6. up' = up \o f
  BY <1>2
<1> HIDE DEF f
<1>7. Len(up') = Len(up) + k
      /\ \A i \in 1..Len(up) + k : up'[i] = IF i <= Len(up) THEN up[i] ELSE f[i - Len(up)]
  <2>1. up \in Seq(Byte) /\ f \in Seq(Byte)
    BY <1>1, <1>5 DEF Bytes
  <2>2. Len(f) = k
    BY <1>5
  <2>3. /\ Len(up \o f) = Len(up) + Len(f)
        /\ \A i \in 1..Len(up) + Len(f) :
             (up \o f)[i] = IF i <= Len(up) THEN up[i] ELSE f[i - Len(up)]
    BY <2>1, ConcatProperties
  <2> QED
    BY <1>6, <2>2, <2>3
<1>8. Taken' = Taken /\ Written' = Written /\ Taken \in Nat
  BY <1>1, <1>3 DEF Taken, Written
<1>9. Taken + Len(up) + Len(rest) = Written /\ Taken + Len(up') + Len(rest') = Written
  BY <1>1, <1>4, <1>5, <1>7, <1>8 DEF UpBytes
<1>10. ASSUME NEW i \in 1..Len(up') PROVE up'[i] = UpByte(Taken + i)
  <2>1. CASE i <= Len(up)
    BY <1>1, <1>4, <1>7, <2>1 DEF UpBytes
  <2>2. CASE ~(i <= Len(up))
    <3>1. i - Len(up) \in 1..k /\ i - Len(up) \in 1..Len(rest)
          /\ Taken + Len(up) + (i - Len(up)) = Taken + i
      BY <1>1, <1>7, <1>8, <2>2
    <3>2. up'[i] = rest[i - Len(up)]
      BY <1>5, <1>7, <2>2, <3>1
    <3> QED
      BY <1>4, <3>1, <3>2 DEF UpBytes
  <2> QED
    BY <2>1, <2>2
<1>11. ASSUME NEW i \in 1..Len(rest') PROVE rest'[i] = UpByte(Taken + Len(up') + i)
  <2>1. k + i \in 1..Len(rest) /\ i \in 1..Len(rest) - k
        /\ Taken + Len(up') + i = Taken + Len(up) + (k + i)
    BY <1>1, <1>5, <1>7, <1>8
  <2> QED
    BY <1>4, <1>5, <2>1 DEF UpBytes
<1>12. UpBytes'
  BY <1>3, <1>4, <1>8, <1>9, <1>10, <1>11 DEF UpBytes
<1>13. HostRead'
  BY <1>3, <1>4 DEF HostRead
<1> QED
  BY <1>12, <1>13

\* What the user says follows the head.
LEMMA SaysUp ==
    ASSUME TypeOK, Control, UpInv, UserSays
    PROVE  UpInv'
<1>0. UNCHANGED <<ask, cpc, spc, rest, url, got, urlLen, partial, cut>> /\ cpc = "copy"
  BY DEF UserSays, headVars
<1>1. CASE UNCHANGED <<said, up>>
  BY <1>0, <1>1, UpFrame
<1>2. CASE said' = said + 1 /\ up' = Append(up, Said[said + 1])
  <2> SUFFICES ASSUME partial' = 0, spc' # "err" PROVE UpBytes' /\ HostRead'
    BY DEF UpInv
  <2>1. UpBytes /\ HostRead /\ ask /\ rest = <<>>
    BY <1>0 DEF UpInv, Control, ClientControl
  <2>2. /\ Len(up) \in Nat /\ Len(url) \in Nat /\ Len(got) \in Nat /\ Len(rest) = 0
        /\ up \in Seq(Byte) /\ said \in Nat
    BY <2>1, TypeParts, BytesFacts, HostFacts DEF SeqsOK, Bytes, CountsOK
  <2>3. Taken' = Taken /\ Taken \in Nat
    BY <1>0, <2>2 DEF Taken
  <2>4. Written = HeadLen + said /\ Written' = HeadLen + (said + 1) /\ HeadLen \in Nat
    BY <1>0, <1>2, <2>1, HostFacts DEF Written
  <2>5. Len(up') = Len(up) + 1 /\ up'[Len(up) + 1] = Said[said + 1]
        /\ \A i \in 1..Len(up) : up'[i] = up[i]
    BY <1>2, <2>2
  <2>6. Taken + Len(up) + 0 = Written /\ Taken + Len(up') + 0 = Written'
    BY <2>1, <2>2, <2>3, <2>4, <2>5 DEF UpBytes
  <2>7. ASSUME NEW i \in 1..Len(up') PROVE up'[i] = UpByte(Taken + i)
    <3>1. CASE i \in 1..Len(up)
      BY <2>1, <2>5, <3>1 DEF UpBytes
    <3>2. CASE i = Len(up) + 1
      <4> DEFINE m == said + 1
      <4>1. Taken + i = HeadLen + m /\ m \in Nat /\ m >= 1
        BY <2>2, <2>3, <2>4, <2>6, <3>2
      <4>2. up'[i] = Said[m]
        BY <2>5, <3>2
      <4> HIDE DEF m
      <4>3. \A j \in Nat : j >= 1 => UpByte(HeadLen + j) = Said[j]
        BY HostFacts
      <4> QED
        BY <4>1, <4>2, <4>3
    <3> QED
      BY <2>2, <2>5, <3>1, <3>2
  <2>8. UpBytes'
    BY <1>0, <2>1, <2>2, <2>3, <2>6, <2>7 DEF UpBytes
  <2> QED
    BY <1>0, <2>1, <2>8 DEF HostRead
<1> QED
  BY <1>1, <1>2 DEF UserSays

\* read_u16 reads the length that ConnectHeadBuf has put there.
LEMMA ReadLenUp ==
    ASSUME TypeOK, Control, UpInv, ReadLen
    PROVE  UpInv'
<1> SUFFICES ASSUME partial' = 0, spc' # "err" PROVE UpBytes' /\ HostRead'
  BY DEF UpInv
<1>0. /\ UNCHANGED <<ask, cpc, rest, url, got, said, partial, cut>> /\ spc = "len" /\ spc' = "host"
      /\ Len(up) >= 2 /\ up' = Drop(up, 2) /\ urlLen' = 256 * up[1] + up[2]
  BY DEF ReadLen, endVars, ReadU16
<1>1. UpBytes /\ url = <<>> /\ got = <<>>
  BY <1>0 DEF UpInv, Control, ServerControl, Unserved
<1>2. /\ Len(up) \in Nat /\ Len(rest) \in Nat /\ Len(url) = 0 /\ Len(got) = 0 /\ up \in Seq(Byte)
  BY <1>1, TypeParts, BytesFacts DEF SeqsOK, Bytes
<1>3. Taken = 0 /\ Taken' = 2 /\ Written' = Written
  BY <1>0, <1>2 DEF Taken, Written
<1>4. Len(up') = Len(up) - 2 /\ \A i \in 1..Len(up) - 2 : up'[i] = up[2 + i]
  <2>1. 2 \in 0..Len(up)
    BY <1>0, <1>2
  <2> QED
    BY <1>0, <1>2, <2>1, DropFacts
<1>5. urlLen' = Len(Host)
  <2>1. 1 \in 1..Len(up) /\ 2 \in 1..Len(up)
    BY <1>0, <1>2
  <2>2. up[1] = UpByte(1) /\ up[2] = UpByte(2)
    BY <1>1, <1>3, <2>1 DEF UpBytes
  <2> QED
    BY <1>0, <2>2, HostFacts
<1>6. Taken' + Len(up') + Len(rest') = Written'
  <2>1. Taken + Len(up) + Len(rest) = Written
    BY <1>1 DEF UpBytes
  <2>2. Len(rest') = Len(rest)
    BY <1>0
  <2> QED
    BY <1>2, <1>3, <1>4, <2>1, <2>2
<1>7. ASSUME NEW i \in 1..Len(up') PROVE up'[i] = UpByte(2 + i)
  <2>1. 2 + i \in 1..Len(up) /\ i \in 1..Len(up) - 2 /\ 0 + (2 + i) = 2 + i
    BY <1>0, <1>2, <1>4
  <2> QED
    BY <1>1, <1>3, <1>4, <2>1 DEF UpBytes
<1>8. ASSUME NEW i \in 1..Len(rest) PROVE rest[i] = UpByte(2 + Len(up') + i)
  <2>1. 2 + Len(up') + i = 0 + Len(up) + i
    BY <1>2, <1>4
  <2> QED
    BY <1>1, <1>3, <2>1 DEF UpBytes
<1>9. UpBytes'
  BY <1>0, <1>2, <1>3, <1>6, <1>7, <1>8 DEF UpBytes
<1>10. HostRead'
  BY <1>0, <1>5 DEF HostRead
<1> QED
  BY <1>9, <1>10

\* read_buf takes no more than the length, so nothing of what the user says.
LEMMA ReadHostUp ==
    ASSUME TypeOK, Control, UpInv, ReadHost
    PROVE  UpInv'
<1> SUFFICES ASSUME partial' = 0, spc' # "err" PROVE UpBytes' /\ HostRead'
  BY DEF UpInv
<1>0. /\ UNCHANGED <<ask, cpc, rest, got, said, partial, urlLen>>
      /\ spc = "host" /\ spc' = "connect"
  BY DEF ReadHost, endVars
<1>1. UpBytes /\ url = <<>> /\ got = <<>> /\ urlLen = Len(Host) /\ "host" \notin cut
  BY <1>0 DEF UpInv, HostRead, Control, ServerControl, Unserved
<1>2. /\ Len(up) \in Nat /\ Len(rest) \in Nat /\ Len(url) = 0 /\ Len(got) = 0 /\ up \in Seq(Byte)
  BY <1>1, TypeParts, BytesFacts DEF SeqsOK, Bytes
<1>3. Taken = 2 /\ Written' = Written
  BY <1>0, <1>2 DEF Taken, Written
<1>4. CASE url' = <<>> /\ UNCHANGED <<up, cut>>
  <2>1. Taken' = 2 /\ Len(url') = 0
    BY <1>0, <1>2, <1>4 DEF Taken
  <2>2. UpBytes'
    BY <1>0, <1>1, <1>2, <1>3, <1>4, <2>1 DEF UpBytes
  <2>3. HostRead'
    BY <1>0, <1>1, <1>4, <2>1, HostFacts DEF HostRead
  <2> QED
    BY <2>2, <2>3
<1>5. CASE \E k \in 1..Len(up) :
             /\ k <= Capacity(urlLen) /\ url' = First(up, k) /\ up' = Drop(up, k)
             /\ cut' = IF k < urlLen THEN cut \cup {"host"} ELSE cut
  <2>1. PICK k \in 1..Len(up) :
             /\ k <= Capacity(urlLen) /\ url' = First(up, k) /\ up' = Drop(up, k)
             /\ cut' = IF k < urlLen THEN cut \cup {"host"} ELSE cut
    BY <1>5
  <2>2. k \in 0..Len(up) /\ k \in Nat /\ k >= 1
    BY <1>2
  <2>3. /\ Len(url') = k /\ \A i \in 1..k : url'[i] = up[i]
        /\ Len(up') = Len(up) - k /\ \A i \in 1..Len(up) - k : up'[i] = up[k + i]
    BY <1>2, <2>1, <2>2, FirstFacts, DropFacts
  <2>4. Taken' = 2 + k
    BY <1>0, <1>2, <2>2, <2>3 DEF Taken
  <2>5. k <= Len(Host) /\ ("host" \notin cut' => k = Len(Host))
    <3>1. Capacity(urlLen) = Len(Host) /\ Len(Host) \in Nat
      BY <1>1, HostFacts DEF Capacity
    <3>2. k < Len(Host) => "host" \in cut'
      BY <1>1, <2>1
    <3> QED
      BY <2>1, <2>2, <3>1, <3>2
  <2>6. Taken' + Len(up') + Len(rest) = Written
    BY <1>1, <1>2, <1>3, <2>2, <2>3, <2>4 DEF UpBytes
  <2>7. ASSUME NEW i \in 1..Len(up') PROVE up'[i] = UpByte(2 + k + i)
    <3>1. k + i \in 1..Len(up) /\ i \in 1..Len(up) - k /\ 2 + (k + i) = 2 + k + i
      BY <1>2, <2>2, <2>3
    <3> QED
      BY <1>1, <1>3, <2>3, <3>1 DEF UpBytes
  <2>8. ASSUME NEW i \in 1..Len(rest) PROVE rest[i] = UpByte(2 + k + Len(up') + i)
    <3>1. 2 + k + Len(up') + i = 2 + Len(up) + i
      BY <1>2, <2>2, <2>3
    <3> QED
      BY <1>1, <1>3, <3>1 DEF UpBytes
  <2>9. ASSUME NEW i \in 1..Len(url') PROVE url'[i] = UpByte(2 + i)
    <3>1. i \in 1..Len(up) /\ i \in 1..k
      BY <1>2, <2>2, <2>3
    <3> QED
      BY <1>1, <1>3, <2>3, <3>1 DEF UpBytes
  <2>10. UpBytes'
    BY <1>0, <1>2, <1>3, <2>4, <2>6, <2>7, <2>8, <2>9 DEF UpBytes
  <2>11. HostRead'
    BY <1>0, <1>1, <2>3, <2>5 DEF HostRead
  <2> QED
    BY <2>10, <2>11
<1> QED
  BY <1>4, <1>5 DEF ReadHost

\* What the server copies, it takes from the stream.
LEMMA CopyUpUp ==
    ASSUME TypeOK, Control, UpInv, CopyUp
    PROVE  UpInv'
<1> SUFFICES ASSUME partial' = 0, spc' # "err" PROVE UpBytes' /\ HostRead'
  BY DEF UpInv
<1>0. /\ UNCHANGED <<ask, cpc, spc, rest, url, said, partial, urlLen, cut>> /\ spc = "copy"
      /\ up # <<>> /\ got' = Append(got, Head(up)) /\ up' = Tail(up)
  BY DEF CopyUp, headVars
<1>1. UpBytes /\ HostRead
  BY <1>0 DEF UpInv
<1>2. /\ Len(up) \in Nat /\ Len(rest) \in Nat /\ Len(url) \in Nat /\ Len(got) \in Nat
      /\ up \in Seq(Byte) /\ got \in Seq(Byte)
  BY TypeParts, BytesFacts DEF SeqsOK, Bytes
<1>3. /\ Len(up') = Len(up) - 1 /\ \A i \in 1..Len(up) - 1 : up'[i] = up[i + 1]
      /\ Head(up) = up[1] /\ Len(up) >= 1
  BY <1>0, <1>2
<1>4. /\ Len(got') = Len(got) + 1 /\ got'[Len(got) + 1] = Head(up)
      /\ \A i \in 1..Len(got) : got'[i] = got[i]
  BY <1>0, <1>2
<1>5. Taken = 2 + Len(url) + Len(got) /\ Taken' = Taken + 1 /\ Written' = Written
  BY <1>0, <1>2, <1>4 DEF Taken, Written
<1>6. Taken \in Nat
  BY <1>2, <1>5
<1>7. Taken' + Len(up') + Len(rest) = Written
  BY <1>1, <1>2, <1>3, <1>5, <1>6 DEF UpBytes
<1>8. ASSUME NEW i \in 1..Len(up') PROVE up'[i] = UpByte(Taken' + i)
  <2>1. i + 1 \in 1..Len(up) /\ i \in 1..Len(up) - 1 /\ Taken + (i + 1) = Taken' + i
    BY <1>2, <1>3, <1>5, <1>6
  <2> QED
    BY <1>1, <1>3, <2>1 DEF UpBytes
<1>9. ASSUME NEW i \in 1..Len(rest) PROVE rest[i] = UpByte(Taken' + Len(up') + i)
  <2>1. Taken' + Len(up') + i = Taken + Len(up) + i
    BY <1>2, <1>3, <1>5, <1>6
  <2> QED
    BY <1>1, <2>1 DEF UpBytes
<1>10. ASSUME NEW i \in 1..Len(got') PROVE got'[i] = UpByte(2 + Len(url) + i)
  <2>1. CASE i \in 1..Len(got)
    BY <1>1, <1>4, <2>1 DEF UpBytes
  <2>2. CASE i = Len(got) + 1
    <3>1. 2 + Len(url) + i = Taken + 1 /\ 1 \in 1..Len(up)
      BY <1>2, <1>3, <1>5, <2>2
    <3> QED
      BY <1>1, <1>3, <1>4, <2>2, <3>1 DEF UpBytes
  <2> QED
    BY <1>2, <1>4, <2>1, <2>2
<1>11. UpBytes'
  BY <1>0, <1>1, <1>5, <1>7, <1>8, <1>9, <1>10 DEF UpBytes
<1> QED
  BY <1>0, <1>1, <1>11 DEF HostRead

LEMMA UpStep ==
    ASSUME TypeOK, Control, UpInv, [Next]_vars
    PROVE  UpInv'
<1> USE DEF streamVars, headVars, endVars
<1>1. CASE Upgraded \/ ReadOk \/ CopyDown \/ ClientShutdown \/ ClientDone
  BY <1>1, UpFrame DEF Upgraded, ReadOk, CopyDown, ClientShutdown, ClientDone
<1>2. CASE ClientFails \/ ClientDropped
  BY <1>2, UpFrame DEF ClientFails, ClientDropped, ClientBusy
<1>3. CASE ServerAccepts \/ WriteOk \/ TargetSays \/ ServerShutdown \/ ServerDone
  BY <1>3, UpFrame DEF ServerAccepts, WriteOk, TargetSays, ServerShutdown, ServerDone
<1>4. CASE Connect \/ ServerFails \/ TargetFails
  BY <1>4, UpFrame DEF Connect, ServerFails, TargetFails, ServerDrops
<1>5. CASE ConnectionLost \/ Over \/ UNCHANGED vars
  BY <1>5, UpFrame DEF ConnectionLost, Over, vars
<1> QED
  BY <1>1, <1>2, <1>3, <1>4, <1>5, NewStreamUp, WriteUp, SaysUp, ReadLenUp, ReadHostUp,
     CopyUpUp
  DEF Next, ClientStep, ServerStep, Outside

(***************************************************************************)
(* The way down.  The server writes its OK, on a QUIC stream, and what the *)
(* target says; the client has taken a beginning of that, and of the OK    *)
(* what read_chunk gave it.                                                *)
(***************************************************************************)
OkLen == IF kind = "Quic" THEN 2 ELSE 0
Skip == IF "ok" \in cut THEN 1 ELSE OkLen
DownByte(i) == IF i <= OkLen THEN OK[i] ELSE Reply[i - OkLen]

Sent == (IF spc \in {"idle", "ok"} THEN 0 ELSE OkLen) + replied
Read == IF cpc \in {"copy", "end"} THEN Skip + Len(heard) ELSE 0

HeardBytes ==
    /\ Skip + Len(heard) <= OkLen + replied
    /\ \A i \in 1..Len(heard) : heard[i] = DownByte(Skip + i)

DownBytes ==
    /\ Read + Len(down) <= OkLen + replied
    /\ \A i \in 1..Len(down) : down[i] = DownByte(Read + i)
    /\ spc # "err" => Read + Len(down) = Sent

DownInv == HeardBytes /\ (cpc # "err" => DownBytes)

LEMMA DownTypes ==
    ASSUME TypeOK, Control
    PROVE  /\ OkLen \in Nat /\ Skip \in Nat /\ Skip <= OkLen /\ Read \in Nat /\ replied \in Nat
           /\ Len(down) \in Nat /\ Len(heard) \in Nat
           /\ down \in Seq(Byte) /\ heard \in Seq(Byte)
<1>1. /\ Len(down) \in Nat /\ Len(heard) \in Nat /\ down \in Seq(Byte) /\ heard \in Seq(Byte)
  BY TypeParts, BytesFacts DEF SeqsOK, Bytes
<1>2. replied \in Nat
  BY TypeParts, HostFacts DEF CountsOK
<1>3. OkLen \in Nat /\ Skip \in Nat /\ Skip <= OkLen
  BY DEF OkLen, Skip, Control, ClientControl
<1> QED
  BY <1>1, <1>2, <1>3 DEF Read

LEMMA DownInit == Init => DownInv
<1> SUFFICES ASSUME Init PROVE DownInv
  OBVIOUS
<1>1. Len(down) = 0 /\ Len(heard) = 0 /\ replied = 0 /\ cut = {} /\ cpc = "init" /\ spc = "idle"
  BY DEF Init
<1> QED
  BY <1>1 DEF DownInv, HeardBytes, DownBytes, Sent, Read, Skip, OkLen

\* Steps that do not concern the way down.
LEMMA DownFrame ==
    ASSUME DownInv, Control, PlacesOK, UNCHANGED <<kind, down, heard, replied>>,
           "ok" \in cut' <=> "ok" \in cut,
           \/ cpc' = "err" \/ cpc' = cpc
           \/ {cpc, cpc'} \subseteq {"copy", "end"}
           \/ cpc # "err" /\ {cpc, cpc'} \cap {"copy", "end"} = {}
           \/ cpc = "write" /\ cpc' = "copy" /\ kind = "H2",
           \/ spc' = spc \/ spc' = "err"
           \/ {spc, spc'} \subseteq {"idle", "ok"}
           \/ spc # "err" /\ {spc, spc'} \cap {"idle", "ok"} = {}
           \/ spc # "err" /\ kind = "H2"
    PROVE  DownInv'
<1>1. OkLen' = OkLen /\ Skip' = Skip
  BY DEF OkLen, Skip
<1>2. HeardBytes'
  <2>1. \A i : DownByte(i)' = DownByte(i)
    BY <1>1 DEF DownByte
  <2> QED
    BY <1>1, <2>1 DEF DownInv, HeardBytes, DownByte
<1>3. ASSUME cpc' # "err" PROVE DownBytes'
  <2>1. cpc # "err"
    BY <1>3 DEF PlacesOK
  <2>2. Read' = Read
    <3>1. CASE cpc = "write" /\ cpc' = "copy" /\ kind = "H2"
      <4>1. Skip = 0 /\ Len(heard) = 0
        BY <3>1 DEF Skip, OkLen, Control, ClientControl, Unsent
      <4> QED
        BY <1>1, <3>1, <4>1 DEF Read
    <3> QED
      BY <1>1, <1>3, <2>1, <3>1 DEF Read
  <2>3. spc' # "err" => Sent' = Sent /\ spc # "err"
    <3>1. CASE kind = "H2"
      BY <3>1 DEF Sent, OkLen
    <3>2. CASE kind # "H2"
      BY <1>1, <3>2 DEF Sent
    <3> QED
      BY <3>1, <3>2
  <2> QED
    BY <1>1, <2>1, <2>2, <2>3 DEF DownInv, DownBytes, DownByte
<1> QED
  BY <1>2, <1>3 DEF DownInv

\* read_chunk takes one byte of the OK or both; at the end of the stream it takes
\* none, but then nothing comes any more.
LEMMA ReadOkDown ==
    ASSUME TypeOK, Control, DownInv, ReadOk
    PROVE  DownInv'
<1>0. /\ UNCHANGED <<kind, spc, heard, replied, fin>> /\ cpc = "read" /\ cpc' = "copy"
      /\ kind = "Quic" /\ heard = <<>> /\ "ok" \notin cut
  BY DEF ReadOk, endVars, Control, ClientControl, Unsent
<1>1. OkLen = 2 /\ OkLen' = 2 /\ Len(heard) = 0 /\ Read = 0 /\ DownBytes
      /\ Read' = Skip' /\ Skip' \in {1, 2}
  BY <1>0 DEF OkLen, Read, Skip, DownInv
<1>2. Len(down) \in Nat /\ replied \in Nat /\ down \in Seq(Byte)
  BY DownTypes
<1>3. HeardBytes'
  <2>1. Skip' + 0 <= 2 + replied
    <3>1. CASE Skip' = 1
      BY <1>2, <3>1
    <3>2. CASE Skip' = 2
      BY <1>2, <3>2
    <3> QED
      BY <1>1, <3>1, <3>2
  <2>2. Len(heard') = 0 /\ replied' = replied /\ 1..0 = {}
    BY <1>0, <1>1
  <2> QED
    BY <1>1, <2>1, <2>2 DEF HeardBytes
<1>4. CASE DownEnds /\ UNCHANGED <<down, cut>>
  <2>0. down = <<>> /\ ("down" \in fin \/ spc = "err")
    BY <1>0, <1>4 DEF DownEnds, ServerGone
  <2>1. Skip' = 2 /\ Len(down) = 0
    BY <1>0, <1>1, <1>4, <2>0 DEF Skip
  <2>2. spc = "err"
    <3> SUFFICES ASSUME spc # "err" PROVE FALSE
      OBVIOUS
    <3>1. spc \notin {"idle", "ok"}
      BY <2>0 DEF Control, ServerControl, Unserved
    <3>2. 0 + 0 = 2 + replied
      BY <1>1, <2>1, <3>1 DEF DownBytes, Sent
    <3> QED
      BY <1>2, <3>2
  <2> QED
    BY <1>0, <1>1, <1>2, <1>3, <1>4, <2>0, <2>1, <2>2 DEF DownInv, DownBytes
<1>5. CASE \E k \in 1..2 : /\ k <= Len(down) /\ down' = Drop(down, k)
                           /\ cut' = IF k < 2 THEN cut \cup {"ok"} ELSE cut
  <2>1. PICK k \in 1..2 : /\ k <= Len(down) /\ down' = Drop(down, k)
                          /\ cut' = IF k < 2 THEN cut \cup {"ok"} ELSE cut
    BY <1>5
  <2>2. k \in 0..Len(down) /\ k \in Nat /\ Read' = k
    BY <1>0, <1>1, <1>2, <2>1 DEF Skip
  <2>3. Len(down') = Len(down) - k /\ \A i \in 1..Len(down) - k : down'[i] = down[k + i]
    BY <1>2, <2>1, <2>2, DropFacts
  <2>4. \A i \in 1..Len(down') : k + i \in 1..Len(down) /\ 0 + (k + i) = k + i
    BY <1>2, <2>2, <2>3
  <2>5. \A i : DownByte(i)' = DownByte(i)
    BY <1>0, <1>1 DEF DownByte
  <2>6. \A i \in 1..Len(down') : down'[i] = DownByte(k + i)
    BY <1>1, <2>3, <2>4 DEF DownBytes
  <2>7. Sent' = Sent
    BY <1>0, <1>1 DEF Sent
  <2>8. Read' + Len(down') = Read + Len(down)
    BY <1>1, <1>2, <2>2, <2>3
  <2>9. DownBytes'
    BY <1>0, <1>1, <2>2, <2>6, <2>7, <2>8 DEF DownBytes, DownByte
  <2> QED
    BY <1>3, <2>9 DEF DownInv
<1> QED
  BY <1>4, <1>5 DEF ReadOk

LEMMA CopyDownDown ==
    ASSUME TypeOK, Control, DownInv, CopyDown
    PROVE  DownInv'
<1>0. /\ UNCHANGED <<kind, cpc, spc, replied, cut>> /\ cpc = "copy" /\ down # <<>>
      /\ heard' = Append(heard, Head(down)) /\ down' = Tail(down)
  BY DEF CopyDown
<1>1. /\ OkLen \in Nat /\ Skip \in Nat /\ Len(down) \in Nat /\ Len(heard) \in Nat
      /\ replied \in Nat /\ down \in Seq(Byte) /\ heard \in Seq(Byte)
  BY DownTypes
<1>2. OkLen' = OkLen /\ Skip' = Skip /\ Sent' = Sent
  BY <1>0 DEF OkLen, Skip, Sent
<1>3. DownBytes /\ HeardBytes
  BY <1>0 DEF DownInv
<1>4. /\ Len(down') = Len(down) - 1 /\ \A i \in 1..Len(down) - 1 : down'[i] = down[i + 1]
      /\ Head(down) = down[1] /\ Len(down) >= 1
  BY <1>0, <1>1
<1>5. /\ Len(heard') = Len(heard) + 1 /\ heard'[Len(heard) + 1] = Head(down)
      /\ \A i \in 1..Len(heard) : heard'[i] = heard[i]
  BY <1>0, <1>1
<1>6. Read = Skip + Len(heard) /\ Read' = Skip + Len(heard')
  BY <1>0, <1>2 DEF Read
<1>7. Read \in Nat /\ Read' = Read + 1
  BY <1>1, <1>5, <1>6
<1>8. ASSUME NEW i \in 1..Len(down') PROVE down'[i] = DownByte(Read' + i)
  <2>1. i + 1 \in 1..Len(down) /\ i \in 1..Len(down) - 1 /\ Read + (i + 1) = Read' + i
    BY <1>1, <1>4, <1>7
  <2> QED
    BY <1>3, <1>4, <2>1 DEF DownBytes
<1>9. ASSUME NEW i \in 1..Len(heard') PROVE heard'[i] = DownByte(Skip + i)
  <2>1. CASE i \in 1..Len(heard)
    BY <1>3, <1>5, <2>1 DEF HeardBytes
  <2>2. CASE i = Len(heard) + 1
    <3>1. Skip + i = Read + 1 /\ 1 \in 1..Len(down)
      BY <1>1, <1>4, <1>6, <2>2
    <3> QED
      BY <1>3, <1>4, <1>5, <2>2, <3>1 DEF DownBytes
  <2> QED
    BY <1>1, <1>5, <2>1, <2>2
<1>10. Read' + Len(down') = Read + Len(down)
  BY <1>1, <1>4, <1>7
<1>11. DownBytes'
  BY <1>0, <1>2, <1>3, <1>8, <1>10 DEF DownBytes, DownByte
<1>12. HeardBytes'
  <2>1. Skip + Len(heard') <= OkLen + replied
    BY <1>1, <1>3, <1>4, <1>6, <1>7 DEF DownBytes
  <2> QED
    BY <1>0, <1>2, <1>9, <2>1 DEF HeardBytes, DownByte
<1> QED
  BY <1>11, <1>12 DEF DownInv

\* The OK is the first thing on the way down.
LEMMA WriteOkDown ==
    ASSUME TypeOK, Control, DownInv, WriteOk
    PROVE  DownInv'
<1>0. /\ UNCHANGED <<kind, cpc, heard, replied, cut>> /\ spc = "ok" /\ spc' = "len"
      /\ down' = down \o OK /\ kind = "Quic" /\ replied = 0
  BY DEF WriteOk, endVars, Control, ServerControl, Unserved
<1>1. OkLen = 2 /\ OkLen' = OkLen /\ Skip' = Skip /\ Read' = Read
  BY <1>0 DEF OkLen, Skip, Read
<1>2. HeardBytes'
  BY <1>0, <1>1 DEF DownInv, HeardBytes, DownByte
<1>3. ASSUME cpc' # "err" PROVE DownBytes'
  <2>1. DownBytes
    BY <1>0, <1>3 DEF DownInv
  <2>2. Read \in Nat /\ Len(down) \in Nat /\ down \in Seq(Byte)
    BY DownTypes
  <2>3. Sent = 0 /\ Sent' = 2
    BY <1>0, <1>1 DEF Sent
  <2>4. Read = 0 /\ Len(down) = 0
    BY <1>0, <2>1, <2>2, <2>3 DEF DownBytes
  <2>5. down = <<>>
    BY <2>2, <2>4
  <2>6. Len(down') = 2 /\ down'[1] = OK[1] /\ down'[2] = OK[2]
    BY <1>0, <2>5 DEF OK
  <2>7. \A i \in 1..Len(down') : down'[i] = OK[0 + i]
    BY <2>6
  <2>8. \A i \in 1..2 : DownByte(0 + i)' = OK[0 + i]
    BY <1>1 DEF DownByte
  <2> QED
    BY <1>0, <1>1, <2>3, <2>4, <2>6, <2>7, <2>8 DEF DownBytes
<1> QED
  BY <1>2, <1>3 DEF DownInv

\* What the target says follows the OK.
LEMMA TargetSaysDown ==
    ASSUME TypeOK, Control, DownInv, TargetSays
    PROVE  DownInv'
<1>0. UNCHANGED <<kind, cpc, spc, heard, cut>> /\ spc = "copy"
  BY DEF TargetSays
<1>1. CASE UNCHANGED <<replied, down>>
  BY <1>0, <1>1, DownFrame, TypeParts
<1>2. CASE replied' = replied + 1 /\ down' = Append(down, Reply[replied + 1])
  <2>1. /\ OkLen \in Nat /\ Skip \in Nat /\ Read \in Nat /\ replied \in Nat
        /\ Len(down) \in Nat /\ Len(heard) \in Nat /\ down \in Seq(Byte)
    BY DownTypes
  <2>2. OkLen' = OkLen /\ Skip' = Skip /\ Read' = Read
    BY <1>0 DEF OkLen, Skip, Read
  <2>3. Sent = OkLen + replied /\ Sent' = OkLen + (replied + 1)
    BY <1>0, <1>2, <2>2 DEF Sent
  <2>4. HeardBytes'
    <3>1. HeardBytes
      BY DEF DownInv
    <3>2. Skip + Len(heard) <= OkLen + replied'
      BY <1>2, <2>1, <3>1 DEF HeardBytes
    <3> QED
      BY <1>0, <2>2, <3>1, <3>2 DEF HeardBytes, DownByte
  <2>5. ASSUME cpc' # "err" PROVE DownBytes'
    <3>1. DownBytes /\ Read + Len(down) = OkLen + replied
      BY <1>0, <2>3, <2>5 DEF DownInv, DownBytes
    <3>2. Len(down') = Len(down) + 1 /\ down'[Len(down) + 1] = Reply[replied + 1]
          /\ \A i \in 1..Len(down) : down'[i] = down[i]
      BY <1>2, <2>1
    <3>3. Read + Len(down') = OkLen + (replied + 1)
      BY <2>1, <3>1, <3>2
    <3>4. ASSUME NEW i \in 1..Len(down') PROVE down'[i] = DownByte(Read + i)
      <4>1. CASE i \in 1..Len(down)
        BY <3>1, <3>2, <4>1 DEF DownBytes
      <4>2. CASE i = Len(down) + 1
        <5> DEFINE m == replied + 1
        <5>1. Read + i = OkLen + m /\ m \in Nat /\ m >= 1
          BY <2>1, <3>1, <4>2
        <5>2. down'[i] = Reply[m]
          BY <3>2, <4>2
        <5> HIDE DEF m
        <5>3. DownByte(OkLen + m) = Reply[m]
          BY <2>1, <5>1 DEF DownByte
        <5> QED
          BY <5>1, <5>2, <5>3
      <4> QED
        BY <2>1, <3>2, <4>1, <4>2
    <3>5. Read' + Len(down') <= OkLen' + replied'
      BY <1>2, <2>1, <2>2, <3>3
    <3> QED
      BY <2>2, <2>3, <3>3, <3>4, <3>5 DEF DownBytes, DownByte
  <2> QED
    BY <2>4, <2>5 DEF DownInv
<1> QED
  BY <1>1, <1>2 DEF TargetSays

LEMMA DownStep ==
    ASSUME TypeOK, Control, DownInv, [Next]_vars
    PROVE  DownInv'
<1> USE DEF streamVars, headVars, endVars
<1>0. PlacesOK
  BY TypeParts
<1>1. CASE NewStream \/ Upgraded \/ WriteH2 \/ WriteQuic
  BY <1>0, <1>1, DownFrame DEF NewStream, Upgraded, WriteH2, WriteQuic
<1>2. CASE UserSays \/ ClientShutdown \/ ClientDone
  BY <1>0, <1>2, DownFrame DEF UserSays, ClientShutdown, ClientDone
<1>3. CASE ClientFails \/ ClientDropped
  BY <1>0, <1>3, DownFrame DEF ClientFails, ClientDropped
<1>4. CASE ServerAccepts \/ ReadLen \/ ReadHost \/ CopyUp
  BY <1>0, <1>4, DownFrame DEF ServerAccepts, ReadLen, ReadHost, CopyUp
<1>5. CASE Connect \/ ServerShutdown \/ ServerDone \/ ServerFails \/ TargetFails
  BY <1>0, <1>5, DownFrame
  DEF Connect, ServerShutdown, ServerDone, ServerFails, TargetFails, ServerDrops
<1>6. CASE ConnectionLost \/ Over \/ UNCHANGED vars
  BY <1>0, <1>6, DownFrame DEF ConnectionLost, Over, vars
<1> QED
  BY <1>1, <1>2, <1>3, <1>4, <1>5, <1>6, ReadOkDown, CopyDownDown, WriteOkDown, TargetSaysDown
  DEF Next, ClientStep, ServerStep, Outside

(***************************************************************************)
(* The inductive invariant, and what follows from it                       *)
(***************************************************************************)
Inv == TypeOK /\ Control /\ UpInv /\ DownInv

LEMMA Invariance == Spec => []Inv
<1>1. Init => Inv
  BY TypeInit, ControlInit, UpInit, DownInit DEF Inv
<1>2. Inv /\ [Next]_vars => Inv'
  <2> SUFFICES ASSUME TypeOK, Control, UpInv, DownInv, [Next]_vars PROVE Inv'
    BY DEF Inv
  <2>1. TypeOK'
    BY TypeStep
  <2>2. Control'
    BY ControlStep, TypeParts
  <2>3. UpInv'
    BY UpStep
  <2>4. DownInv'
    BY DownStep
  <2> QED
    BY <2>1, <2>2, <2>3, <2>4 DEF Inv
<1> QED
  BY <1>1, <1>2, PTL DEF Spec

\* A sequence whose bytes are those of another one, from its beginning, is a
\* prefix of it.
LEMMA PrefixByBytes ==
    ASSUME NEW S, NEW s \in Seq(S), NEW t \in Seq(S), Len(s) <= Len(t),
           \A i \in 1..Len(s) : s[i] = t[i]
    PROVE  IsPrefix(s, t) /\ (Len(s) = Len(t) => s = t)
<1>1. Len(s) \in Nat /\ Len(s) \in 0..Len(s) /\ Len(s) \in 0..Len(t)
  OBVIOUS
<1>2. First(s, Len(s)) \in Seq(S) /\ First(t, Len(s)) \in Seq(S)
      /\ Len(First(s, Len(s))) = Len(s) /\ Len(First(t, Len(s))) = Len(s)
      /\ \A i \in 1..Len(s) : First(s, Len(s))[i] = s[i] /\ First(t, Len(s))[i] = t[i]
  BY <1>1, FirstFacts
<1>3. First(s, Len(s)) = First(t, Len(s))
  <2> DEFINE a == First(s, Len(s))  b == First(t, Len(s))
  <2>1. a \in Seq(S) /\ b \in Seq(S) /\ Len(a) = Len(b) /\ \A i \in 1..Len(a) : a[i] = b[i]
    BY <1>2
  <2> HIDE DEF a, b
  <2>2. a = b
    BY <2>1, SeqEqual
  <2> QED
    BY <2>2 DEF a, b
<1>4. IsPrefix(s, t)
  BY <1>3 DEF IsPrefix, First
<1>5. Len(s) = Len(t) => s = t
  BY SeqEqual
<1> QED
  BY <1>4, <1>5

\* HeadIntact of Tunnel.tla: the server dials a beginning of the host the user
\* asked for, and all of it when read_buf found the host in one piece.
THEOREM HeadCrossesIntact == Spec => []HeadIntact
<1>1. Inv => HeadIntact
  <2> SUFFICES ASSUME Inv, Dialled, partial = 0
               PROVE  IsPrefix(url, Host) /\ ("host" \notin cut => url = Host)
    BY DEF HeadIntact, Whole
  <2>1. UpBytes /\ HostRead /\ Len(url) <= Len(Host)
    BY DEF Inv, UpInv, HostRead, Dialled
  <2>2. url \in Seq(Byte) /\ Host \in Seq(Byte) /\ Len(url) \in Nat /\ Len(Host) \in Nat
    BY TypeParts, BytesFacts, TunnelAssumption DEF Inv, SeqsOK, Bytes, U16
  <2>3. \A i \in 1..Len(url) : i \in 1..Len(Host)
    BY <2>1, <2>2
  <2>4. \A i \in 1..Len(url) : url[i] = Host[i]
    BY <2>1, <2>3, HostFacts DEF UpBytes
  <2>5. IsPrefix(url, Host) /\ (Len(url) = Len(Host) => url = Host)
    BY <2>1, <2>2, <2>4, PrefixByBytes
  <2>6. "host" \notin cut => Len(url) = Len(Host)
    BY <2>1 DEF HostRead, Dialled
  <2> QED
    BY <2>5, <2>6
<1> QED
  BY <1>1, Invariance, PTL

\* What the target gets of the host when read_buf took only a part of it, and
\* then of the user's bytes.
LEMMA GotBytes ==
    ASSUME Inv, partial = 0, spc \in {"copy", "end"}
    PROVE  /\ Drop(Host, Len(url)) \o First(Said, said) \in Seq(Byte)
           /\ Len(Drop(Host, Len(url)) \o First(Said, said)) = Len(Host) - Len(url) + said
           /\ Len(got) <= Len(Host) - Len(url) + said
           /\ \A i \in 1..Len(got) : got[i] = (Drop(Host, Len(url)) \o First(Said, said))[i]
<1>1. UpBytes /\ HostRead /\ Len(url) <= Len(Host) /\ Taken = 2 + Len(url) + Len(got)
  BY DEF Inv, UpInv, HostRead, Taken
<1>2. /\ Len(url) \in Nat /\ Len(got) \in Nat /\ Len(up) \in Nat /\ Len(rest) \in Nat
      /\ Host \in Seq(Byte) /\ Len(Host) \in Nat /\ Said \in Seq(Byte)
      /\ said \in 0..Len(Said) /\ said \in Nat
  <2>1. SeqsOK /\ CountsOK
    BY TypeParts DEF Inv
  <2>2. Len(url) \in Nat /\ Len(got) \in Nat /\ Len(up) \in Nat /\ Len(rest) \in Nat
    BY <2>1, BytesFacts DEF SeqsOK
  <2>3. Host \in Seq(Byte) /\ Said \in Seq(Byte)
    BY TunnelAssumption
  <2>4. said \in 0..Len(Said)
    BY <2>1 DEF CountsOK
  <2> QED
    BY <2>2, <2>3, <2>4, HostFacts
<1> DEFINE d == Drop(Host, Len(url))  f == First(Said, said)
<1>3. /\ d \in Seq(Byte) /\ Len(d) = Len(Host) - Len(url)
      /\ \A i \in 1..Len(Host) - Len(url) : d[i] = Host[Len(url) + i]
  <2>1. Len(url) \in 0..Len(Host)
    BY <1>1, <1>2
  <2> QED
    BY <1>2, <2>1, DropFacts
<1>4. f \in Seq(Byte) /\ Len(f) = said /\ \A i \in 1..said : f[i] = Said[i]
  BY <1>2, FirstFacts
<1> HIDE DEF d, f
<1>5. /\ d \o f \in Seq(Byte) /\ Len(d \o f) = Len(d) + Len(f)
      /\ \A i \in 1..Len(d) + Len(f) : (d \o f)[i] = IF i <= Len(d) THEN d[i] ELSE f[i - Len(d)]
  <2>1. d \in Seq(Byte) /\ f \in Seq(Byte)
    BY <1>3, <1>4
  <2> QED
    BY <2>1, ConcatProperties
<1>6. Len(got) <= Len(Host) - Len(url) + said
  <2>1. Written <= Len(Host) + 2 + said
    BY <1>2 DEF Written, HeadLen
  <2>2. 2 + Len(url) + Len(got) + Len(up) + Len(rest) = Written
    BY <1>1 DEF UpBytes
  <2> QED
    BY <1>2, <2>1, <2>2
<1>7. ASSUME NEW i \in 1..Len(got) PROVE got[i] = (d \o f)[i]
  <2>0. i \in 1..Len(d) + Len(f) /\ i \in Nat /\ i >= 1
    BY <1>2, <1>3, <1>4, <1>6
  <2>1. got[i] = UpByte(2 + Len(url) + i)
    BY <1>1 DEF UpBytes
  <2>2. CASE i <= Len(d)
    <3> DEFINE m == Len(url) + i
    <3>1. m \in 1..Len(Host) /\ 2 + Len(url) + i = 2 + m /\ i \in 1..Len(Host) - Len(url)
      BY <1>1, <1>2, <1>3, <2>0, <2>2
    <3>2. d[i] = Host[m]
      BY <1>3, <3>1
    <3> HIDE DEF m
    <3>3. UpByte(2 + m) = Host[m]
      BY <3>1, HostFacts
    <3> QED
      BY <1>5, <2>0, <2>1, <2>2, <3>1, <3>2, <3>3
  <2>3. CASE ~(i <= Len(d))
    <3> DEFINE m == i - Len(d)
    <3>1. m \in 1..said /\ m \in Nat /\ m >= 1
      BY <1>1, <1>2, <1>3, <1>4, <2>0, <2>3
    <3>2. 2 + Len(url) + i = HeadLen + m
      BY <1>1, <1>2, <1>3, <2>0 DEF HeadLen
    <3>3. (d \o f)[i] = f[m]
      BY <1>5, <2>0, <2>3
    <3> HIDE DEF m
    <3>4. UpByte(HeadLen + m) = Said[m] /\ f[m] = Said[m]
      BY <1>4, <3>1, HostFacts
    <3> QED
      BY <2>1, <3>2, <3>3, <3>4
  <2> QED
    BY <2>2, <2>3
<1> QED
  BY <1>3, <1>4, <1>5, <1>6, <1>7 DEF d, f

\* What the user hears: the second byte of an OK that came in two parts, and
\* what the target said.
Told == First(Reply, replied)
Hears == IF "ok" \in cut THEN <<OK[2]>> \o Told ELSE Told

LEMMA HearsBytes ==
    ASSUME Inv
    PROVE  /\ Hears \in Seq(Byte)
           /\ Len(heard) <= Len(Hears)
           /\ \A i \in 1..Len(heard) : heard[i] = Hears[i]
           /\ "ok" \notin cut => Len(Hears) = replied
<1>1. /\ OkLen \in Nat /\ Skip \in Nat /\ Skip <= OkLen /\ replied \in Nat /\ Len(heard) \in Nat
  BY DownTypes DEF Inv
<1>2. HeardBytes
  BY DEF Inv, DownInv
<1>3. Told \in Seq(Byte) /\ Len(Told) = replied /\ \A i \in 1..replied : Told[i] = Reply[i]
  <2>1. Reply \in Seq(Byte) /\ replied \in 0..Len(Reply)
    BY TunnelAssumption, TypeParts DEF Inv, CountsOK
  <2> QED
    BY <2>1, FirstFacts DEF Told
<1> DEFINE n == OkLen
<1>4. \A i \in Nat : i >= 1 => DownByte(n + i) = Reply[i]
  BY <1>1 DEF DownByte
<1>5. CASE "ok" \notin cut
  <2>1. Skip = OkLen /\ Hears = Told
    BY <1>5 DEF Skip, Hears
  <2>2. Len(heard) <= replied
    BY <1>1, <1>2, <2>1 DEF HeardBytes
  <2>3. \A i \in 1..Len(heard) : i \in Nat /\ i >= 1 /\ i \in 1..replied
    BY <1>1, <2>2
  <2>4. \A i \in 1..Len(heard) : heard[i] = Reply[i]
    BY <1>2, <1>4, <2>1, <2>3 DEF HeardBytes
  <2> QED
    BY <1>3, <2>1, <2>2, <2>3, <2>4
<1>6. CASE "ok" \in cut
  <2>1. Skip = 1 /\ OkLen = 2
    BY <1>6 DEF Skip, OkLen, Inv, Control, ClientControl
  <2> DEFINE e == <<OK[2]>>
  <2>2. e \in Seq(Byte) /\ Len(e) = 1 /\ e[1] = 75
    BY DEF OK, Byte
  <2>3. Hears = e \o Told
    BY <1>6 DEF Hears
  <2> HIDE DEF e
  <2>4. /\ e \o Told \in Seq(Byte) /\ Len(e \o Told) = Len(e) + Len(Told)
        /\ \A i \in 1..Len(e) + Len(Told) :
             (e \o Told)[i] = IF i <= Len(e) THEN e[i] ELSE Told[i - Len(e)]
    <3>1. e \in Seq(Byte) /\ Told \in Seq(Byte)
      BY <1>3, <2>2
    <3> QED
      BY <3>1, ConcatProperties
  <2>5. Len(heard) <= 1 + replied
    BY <1>1, <1>2, <2>1 DEF HeardBytes
  <2>6. ASSUME NEW i \in 1..Len(heard) PROVE heard[i] = (e \o Told)[i]
    <3>0. i \in Nat /\ i >= 1 /\ i \in 1..1 + replied
      BY <1>1, <2>5
    <3>1. heard[i] = DownByte(1 + i)
      BY <1>2, <2>1 DEF HeardBytes
    <3>2. CASE i = 1
      <4>1. DownByte(2) = 75
        BY <2>1 DEF DownByte, OK
      <4>2. (e \o Told)[1] = 75
        BY <1>1, <1>3, <2>2, <2>4
      <4> QED
        BY <3>1, <3>2, <4>1, <4>2
    <3>3. CASE i # 1
      <4> DEFINE m == i - 1
      <4>1. m \in Nat /\ m >= 1 /\ 1 + i = 2 + m /\ m \in 1..replied
        BY <1>1, <3>0, <3>3
      <4>2. (e \o Told)[i] = Told[m]
        BY <1>1, <1>3, <2>2, <2>4, <3>0, <3>3
      <4> HIDE DEF m
      <4>3. DownByte(2 + m) = Reply[m]
        BY <1>4, <2>1, <4>1
      <4> QED
        BY <1>3, <3>1, <4>1, <4>2, <4>3
    <3> QED
      BY <3>2, <3>3
  <2> QED
    BY <1>3, <1>6, <2>2, <2>3, <2>4, <2>5, <2>6
<1> QED
  BY <1>5, <1>6

\* EndsHearEachOther of Tunnel.tla: the target gets the user's bytes in order,
\* after whatever of the host read_buf has left on the stream, and the user hears
\* the target, after whatever of the OK read_chunk has left.
THEOREM EndsHear == Spec => []EndsHearEachOther
<1>1. Inv => EndsHearEachOther
  <2> SUFFICES ASSUME Inv PROVE EndsHearEachOther
    OBVIOUS
  <2>0. SeqsOK
    BY TypeParts DEF Inv
  <2>1. ASSUME partial = 0, spc \in {"copy", "end"}
        PROVE  IsPrefix(got, Drop(Host, Len(url)) \o First(Said, said))
    <3> DEFINE t == Drop(Host, Len(url)) \o First(Said, said)
    <3>1. /\ t \in Seq(Byte) /\ Len(got) <= Len(t)
          /\ \A i \in 1..Len(got) : got[i] = t[i]
      BY <2>1, GotBytes
    <3>2. got \in Seq(Byte)
      BY <2>0 DEF SeqsOK, Bytes
    <3> HIDE DEF t
    <3>3. IsPrefix(got, t)
      BY <3>1, <3>2, PrefixByBytes
    <3> QED
      BY <3>3 DEF t
  <2>2. IsPrefix(heard, Hears)
    <3>1. heard \in Seq(Byte)
      BY <2>0 DEF SeqsOK, Bytes
    <3> QED
      BY <3>1, HearsBytes, PrefixByBytes
  <2> QED
    BY <2>1, <2>2 DEF EndsHearEachOther, Hears, Told
<1> QED
  BY <1>1, Invariance, PTL

\* EndsComeLast of Tunnel.tla: the end of one side is told to the other side, by
\* the shutdowns of the two copy_bidirectionals, after all that side has said.
THEOREM EndsAreLast == Spec => []EndsComeLast
<1>1. Inv => EndsComeLast
  <2> SUFFICES ASSUME Inv, ~Broken PROVE EndsComeLast
    BY DEF EndsComeLast
  <2>0. SeqsOK /\ CountsOK /\ PlacesOK
    BY TypeParts DEF Inv
  <2>1. ASSUME "shut" \in fin, Whole PROVE got = First(Said, said)
    <3>1. /\ spc \in {"copy", "end"} /\ url # <<>> /\ up = <<>> /\ rest = <<>>
          /\ cpc \in {"copy", "end"} /\ ask
      BY <2>0, <2>1
      DEF Inv, Control, ClientControl, ServerControl, Closing, Unserved, PlacesOK, Broken,
          ClientGone, ServerGone
    <3>2. UpBytes /\ Len(url) = Len(Host)
      BY <2>1, <3>1 DEF Inv, UpInv, HostRead, Whole
    <3>3. Len(up) = 0 /\ Len(rest) = 0 /\ Len(got) \in Nat /\ said \in Nat /\ Len(Host) \in Nat
      BY <2>0, <3>1, BytesFacts, HostFacts DEF SeqsOK, CountsOK
    <3>4. Taken = 2 + Len(Host) + Len(got) /\ Written = Len(Host) + 2 + said
      BY <3>1, <3>2 DEF Taken, Written, HeadLen
    <3>5. Len(got) = said
      BY <3>2, <3>3, <3>4 DEF UpBytes
    <3>6. \A i \in 1..said : got[i] = UpByte(HeadLen + i)
      BY <3>2, <3>3, <3>5 DEF UpBytes, HeadLen
    <3>7. \A i \in 1..said : i \in Nat /\ i >= 1
      BY <3>3
    <3>8. \A i \in 1..said : got[i] = Said[i]
      BY <3>6, <3>7, HostFacts
    <3>9. got \in Seq(Byte) /\ Said \in Seq(Byte) /\ said \in 0..Len(Said)
      BY <2>0, TunnelAssumption DEF SeqsOK, CountsOK, Bytes
    <3> DEFINE f == First(Said, said)
    <3>10. f \in Seq(Byte) /\ Len(f) = said /\ \A i \in 1..said : f[i] = Said[i]
      BY <3>9, FirstFacts
    <3> HIDE DEF f
    <3>11. got = f
      BY <3>5, <3>8, <3>9, <3>10, SeqEqual
    <3> QED
      BY <3>11 DEF f
  <2>2. ASSUME "told" \in fin, cut = {} PROVE heard = First(Reply, replied)
    <3>1. /\ spc \in {"copy", "end"} /\ down = <<>> /\ cpc \in {"copy", "end"}
      BY <2>0, <2>2
      DEF Inv, Control, ClientControl, ServerControl, Closing, Unserved, Unsent, PlacesOK,
          Broken, ClientGone, ServerGone
    <3>2. DownBytes
      BY <3>1 DEF Inv, DownInv
    <3>3. OkLen \in Nat /\ replied \in Nat /\ Len(heard) \in Nat /\ Len(down) = 0
      BY <3>1, DownTypes DEF Inv
    <3>4. Read = OkLen + Len(heard) /\ Sent = OkLen + replied
      BY <2>2, <3>1 DEF Read, Sent, Skip
    <3>5. Len(heard) = replied
      BY <3>1, <3>2, <3>3, <3>4 DEF DownBytes
    <3>6. Hears = Told /\ Hears \in Seq(Byte) /\ Len(Hears) = replied
          /\ \A i \in 1..Len(heard) : heard[i] = Hears[i]
      BY <2>2, HearsBytes DEF Hears
    <3>7. heard \in Seq(Byte)
      BY <2>0 DEF SeqsOK, Bytes
    <3>8. heard = Hears
      BY <3>5, <3>6, <3>7, SeqEqual
    <3> QED
      BY <3>6, <3>8 DEF Told
  <2> QED
    BY <2>1, <2>2 DEF EndsComeLast
<1> QED
  BY <1>1, Invariance, PTL

=============================================================================
