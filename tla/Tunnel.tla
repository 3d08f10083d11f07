------------------------------- MODULE Tunnel -------------------------------
(***************************************************************************)
(* One stream between the client and the server of octoproxy, from the     *)
(* request for it to its end: new_stream of the two connectors             *)
(* (src/client/src/connector.rs), the server's handlers                    *)
(* (src/server/src/proxy.rs), the connect head and `tunnel'                *)
(* (src/lib/src/proxy.rs), and the copying at both ends (transfer in       *)
(* src/client/src/backends.rs).                                            *)
(*                                                                         *)
(* A stream is an ordered sequence of bytes each way.  A write may be      *)
(* taken in parts, and a read may find only part of what was written.      *)
(***************************************************************************)
EXTENDS Naturals, Sequences, SequencesExt

CONSTANTS
    Host,        \* the bytes of the host the user asks for
    Said,        \* what the user sends through the tunnel
    Reply,       \* what the target sends back
    MaxPartial   \* bound: writes of a head that the stream takes in part

Byte == {b \in Nat : b < 256}
U16 == {n \in Nat : n < 65536}

ASSUME TunnelAssumption ==
    /\ Host \in Seq(Byte) /\ Host # <<>> /\ Len(Host) \in U16
    /\ Said \in Seq(Byte)
    /\ Reply \in Seq(Byte)
    /\ MaxPartial \in Nat

VARIABLES
    kind,        \* "H2" or "Quic"
    ask,         \* try_connect(Some(host)); FALSE for the None of a retry
    cpc,         \* where the client's task is
    spc,         \* where the server's task for this stream is
    rest,        \* what is left of the head for write_all
    up,          \* bytes on their way to the server
    down,        \* bytes on their way to the client
    fin,         \* the directions that were closed
    lost,        \* the connection under the stream is lost
    urlLen,      \* url_len
    url,         \* the host as the server read it
    said,        \* bytes of Said the user has sent
    replied,     \* bytes of Reply the target has sent
    got,         \* what the target received
    heard,       \* what the user received
    partial,     \* history: writes of a head that were taken in part
    cut          \* history: the reads that found only a part

streamVars == <<up, down, fin, lost>>
endVars == <<said, replied, got, heard>>
headVars == <<urlLen, url>>
vars == <<kind, ask, cpc, spc, rest, streamVars, headVars, endVars, partial, cut>>

\* The order of closing: the user's side and the client's shutdown of the
\* stream, the server's shutdown of the target, and the same way back.
Directions == {"user", "up", "shut", "target", "down", "told"}

TypeOK ==
    /\ kind \in {"H2", "Quic"} /\ ask \in BOOLEAN
    /\ cpc \in {"init", "asked", "write", "read", "copy", "alive", "end", "err"}
    /\ spc \in {"idle", "ok", "len", "host", "connect", "copy", "end", "err"}
    /\ {rest, up, down, url, got, heard} \subseteq Seq(Byte)
    /\ fin \subseteq Directions /\ lost \in BOOLEAN
    /\ urlLen \in U16
    /\ said \in 0..Len(Said) /\ replied \in 0..Len(Reply)
    /\ partial \in 0..MaxPartial
    /\ cut \subseteq {"host", "ok"}

Init ==
    /\ kind \in {"H2", "Quic"} /\ ask \in BOOLEAN
    /\ cpc = "init" /\ spc = "idle"
    /\ rest = <<>> /\ up = <<>> /\ down = <<>>
    /\ fin = {} /\ lost = FALSE
    /\ urlLen = 0 /\ url = <<>>
    /\ said = 0 /\ replied = 0 /\ got = <<>> /\ heard = <<>>
    /\ partial = 0 /\ cut = {}

(***************************************************************************)
(* The connect head                                                        *)
(***************************************************************************)

\* Mutant: the length counts its own two bytes.
ConnectHeadBufAll(host) ==
    <<(Len(host) + 2) \div 256, (Len(host) + 2) % 256>> \o host

\* ConnectHeadBuf::from: put_u16 of the length, and the host.
ConnectHeadBuf(host) == <<(Len(host) % 65536) \div 256, Len(host) % 256>> \o host

ReadU16(bytes) == 256 * bytes[1] + bytes[2]

\* How much one read_buf into a BytesMut of capacity n may take: a buffer
\* without room is given 64 bytes.
Capacity(n) == IF n = 0 THEN 64 ELSE n

OK == <<79, 75>>

First(s, k) == SubSeq(s, 1, k)
Drop(s, k) == SubSeq(s, k + 1, Len(s))

(***************************************************************************)
(* A stream that is dropped before its end.  quinn finishes its sending    *)
(* half, and hyper reads the CANCEL of an HTTP/2 stream as an end, before  *)
(* which bytes that are still on their way may be lost: the other end      *)
(* reads an end like any other, and notices the drop only when it writes.  *)
(***************************************************************************)
ClientGone == cpc \in {"alive", "err"}
ServerGone == spc = "err"

UpEnds ==
    \/ up = <<>> /\ ("up" \in fin \/ ClientGone)
    \/ kind = "H2" /\ ClientGone

DownEnds ==
    \/ down = <<>> /\ ("down" \in fin \/ ServerGone)
    \/ kind = "H2" /\ ServerGone

(***************************************************************************)
(* The client                                                              *)
(***************************************************************************)

\* new_stream of QUIC opens a stream of its own, if it has a host; that of
\* HTTP/2 sends a CONNECT request in any case.
NewStream ==
    /\ cpc = "init"
    /\ cpc' = IF kind = "H2" THEN "asked" ELSE IF ask THEN "write" ELSE "alive"
    /\ rest' = IF ask THEN ConnectHeadBuf(Host) ELSE <<>>
    /\ UNCHANGED <<kind, ask, spc, streamVars, headVars, endVars, partial, cut>>

\* The answer to CONNECT: without a host the stream was only a sign of life
\* and is dropped.
Upgraded ==
    /\ cpc = "asked" /\ kind = "H2"
    /\ spc # "idle"
    /\ cpc' = IF ask THEN "write" ELSE "alive"
    /\ UNCHANGED <<kind, ask, spc, rest, streamVars, headVars, endVars, partial, cut>>

\* write_all of HTTP/2 goes on where the stream stopped taking bytes.
WriteH2 ==
    /\ cpc = "write" /\ kind = "H2"
    /\ \E k \in 1..Len(rest) :
         /\ up' = up \o First(rest, k)
         /\ rest' = Drop(rest, k)
         /\ cpc' = IF k = Len(rest) THEN "copy" ELSE "write"
    /\ UNCHANGED <<kind, ask, spc, down, fin, lost, headVars, endVars, partial, cut>>

\* QUIC's poll_fn makes a new write_all of the whole head at every poll, so
\* after a write taken in part it begins again.
WriteQuic ==
    /\ cpc = "write" /\ kind = "Quic"
    /\ \/ \E k \in 1..Len(rest) - 1 :
            /\ partial < MaxPartial
            /\ up' = up \o First(rest, k)
            /\ partial' = partial + 1
            /\ UNCHANGED <<cpc, rest>>
       \/ /\ up' = up \o rest
          /\ rest' = <<>>
          /\ cpc' = "read"
          /\ UNCHANGED partial
    /\ UNCHANGED <<kind, ask, spc, down, fin, lost, headVars, endVars, cut>>

\* read_chunk(2): one or two bytes, whatever they are, or the end.
ReadOk ==
    /\ cpc = "read"
    /\ cpc' = "copy"
    /\ \/ \E k \in 1..2 :
            /\ k <= Len(down)
            /\ down' = Drop(down, k)
            /\ cut' = IF k < 2 THEN cut \cup {"ok"} ELSE cut
       \/ DownEnds /\ UNCHANGED <<down, cut>>
    /\ UNCHANGED <<kind, ask, spc, rest, up, fin, lost, headVars, endVars, partial>>

\* transfer: copy_bidirectional between the user and the stream.
UserSays ==
    /\ cpc = "copy" /\ "user" \notin fin
    /\ \/ /\ said < Len(Said)
          /\ said' = said + 1
          /\ up' = Append(up, Said[said + 1])
          /\ UNCHANGED fin
       \/ /\ fin' = fin \cup {"user"}
          /\ UNCHANGED <<said, up>>
    /\ UNCHANGED <<kind, ask, cpc, spc, rest, down, lost, headVars, replied,
                   got, heard, partial, cut>>

CopyDown ==
    /\ cpc = "copy" /\ down # <<>> /\ "told" \notin fin
    /\ heard' = Append(heard, Head(down))
    /\ down' = Tail(down)
    /\ UNCHANGED <<kind, ask, cpc, spc, rest, up, fin, lost, headVars, said,
                   replied, got, partial, cut>>

\* A side that is at its end is shut down on the other side.
ClientShutdown ==
    /\ cpc = "copy"
    /\ \/ "user" \in fin /\ "up" \notin fin /\ fin' = fin \cup {"up"}
       \/ DownEnds /\ "told" \notin fin /\ fin' = fin \cup {"told"}
    /\ UNCHANGED <<kind, ask, cpc, spc, rest, up, down, lost, headVars, endVars,
                   partial, cut>>

ClientDone ==
    /\ cpc = "copy" /\ {"up", "told"} \subseteq fin
    /\ cpc' = "end"
    /\ UNCHANGED <<kind, ask, spc, rest, streamVars, headVars, endVars, partial, cut>>

ClientBusy == cpc \in {"asked", "write", "read", "copy"}

\* A read finds the connection lost, until the end of that direction was read;
\* or a write does, of the request, of the head or of the end that a shutdown
\* sends, or it finds the stream dropped by the server.
ClientFails ==
    /\ \/ ClientBusy /\ lost /\ "told" \notin fin
       \/ cpc \in {"asked", "write"} /\ ServerGone
       \/ cpc = "copy" /\ (lost \/ ServerGone) /\ "user" \in fin /\ "up" \notin fin
    /\ cpc' = "err"
    /\ UNCHANGED <<kind, ask, spc, rest, streamVars, headVars, endVars, partial, cut>>

\* try_connect or transfer is cancelled, the user's socket fails, or what the
\* user says cannot be written: the stream is dropped.
ClientDropped ==
    /\ ClientBusy
    /\ cpc' = "err"
    /\ UNCHANGED <<kind, ask, spc, rest, streamVars, headVars, endVars, partial, cut>>

(***************************************************************************)
(* The server                                                              *)
(***************************************************************************)

\* The service of HTTP/2 answers a CONNECT at once and spawns the tunnel; a
\* QUIC stream is accepted with its first byte, or with its end.  The client
\* may have given up by then.
ServerAccepts ==
    /\ spc = "idle"
    /\ \/ kind = "H2" /\ cpc \in {"asked", "err"} /\ spc' = "len"
       \/ kind = "Quic" /\ (up # <<>> \/ cpc = "err") /\ spc' = "ok"
    /\ UNCHANGED <<kind, ask, cpc, rest, streamVars, headVars, endVars, partial, cut>>

WriteOk ==
    /\ spc = "ok"
    /\ down' = down \o OK
    /\ spc' = "len"
    /\ UNCHANGED <<kind, ask, cpc, rest, up, fin, lost, headVars, endVars, partial, cut>>

\* Mutant: the length is read as a u32.
ReadLenWide ==
    /\ spc = "len" /\ Len(up) >= 4
    /\ urlLen' = 65536 * ReadU16(up) + ReadU16(Drop(up, 2))
    /\ up' = Drop(up, 4)
    /\ spc' = "host"
    /\ UNCHANGED <<kind, ask, cpc, rest, down, fin, lost, url, endVars, partial, cut>>

\* inbound.read_u16()
ReadLen ==
    /\ spc = "len" /\ Len(up) >= 2
    /\ urlLen' = ReadU16(up)
    /\ up' = Drop(up, 2)
    /\ spc' = "host"
    /\ UNCHANGED <<kind, ask, cpc, rest, down, fin, lost, url, endVars, partial, cut>>

\* Mutant: the read is not limited by url_len.
ReadHostGreedy ==
    /\ spc = "host"
    /\ up # <<>>
    /\ url' = up
    /\ up' = <<>>
    /\ spc' = "connect"
    /\ UNCHANGED <<kind, ask, cpc, rest, down, fin, lost, urlLen, endVars, partial, cut>>

\* One read_buf: at least a byte, as much as has arrived, at most url_len; or
\* nothing at the end of the stream.
ReadHost ==
    /\ spc = "host"
    /\ \/ \E k \in 1..Len(up) :
            /\ k <= Capacity(urlLen)
            /\ url' = First(up, k)
            /\ up' = Drop(up, k)
            /\ cut' = IF k < urlLen THEN cut \cup {"host"} ELSE cut
       \/ UpEnds /\ url' = <<>> /\ UNCHANGED <<up, cut>>
    /\ spc' = "connect"
    /\ UNCHANGED <<kind, ask, cpc, rest, down, fin, lost, urlLen, endVars, partial>>

\* The tunnel returns an error and the stream is dropped.
ServerDrops ==
    /\ spc' = "err"
    /\ UNCHANGED <<kind, ask, cpc, rest, streamVars, headVars, endVars, partial, cut>>

Connect ==
    \/ /\ spc = "connect" /\ url # <<>>
       /\ spc' = "copy"
       /\ UNCHANGED <<kind, ask, cpc, rest, streamVars, headVars, endVars, partial, cut>>
    \/ spc = "connect" /\ ServerDrops

CopyUp ==
    /\ spc = "copy" /\ up # <<>> /\ "shut" \notin fin
    /\ got' = Append(got, Head(up))
    /\ up' = Tail(up)
    /\ UNCHANGED <<kind, ask, cpc, spc, rest, down, fin, lost, headVars, said,
                   replied, heard, partial, cut>>

TargetSays ==
    /\ spc = "copy" /\ "target" \notin fin
    /\ \/ /\ replied < Len(Reply)
          /\ replied' = replied + 1
          /\ down' = Append(down, Reply[replied + 1])
          /\ UNCHANGED fin
       \/ /\ fin' = fin \cup {"target"}
          /\ UNCHANGED <<replied, down>>
    /\ UNCHANGED <<kind, ask, cpc, spc, rest, up, lost, headVars, said, got, heard,
                   partial, cut>>

\* Mutant: the target is shut down before the stream is drained.
ServerShutdownEarly ==
    /\ spc = "copy"
    /\ \/ "up" \in fin /\ "shut" \notin fin /\ fin' = fin \cup {"shut"}
       \/ "target" \in fin /\ "down" \notin fin /\ fin' = fin \cup {"down"}
    /\ UNCHANGED <<kind, ask, cpc, spc, rest, up, down, lost, headVars, endVars,
                   partial, cut>>

\* Mutant: the end of the target is not passed on.
ServerShutdownOneWay ==
    /\ spc = "copy"
    /\ UpEnds /\ "shut" \notin fin /\ fin' = fin \cup {"shut"}
    /\ UNCHANGED <<kind, ask, cpc, spc, rest, up, down, lost, headVars, endVars,
                   partial, cut>>

ServerShutdown ==
    /\ spc = "copy"
    /\ \/ UpEnds /\ "shut" \notin fin /\ fin' = fin \cup {"shut"}
       \/ "target" \in fin /\ "down" \notin fin /\ fin' = fin \cup {"down"}
    /\ UNCHANGED <<kind, ask, cpc, spc, rest, up, down, lost, headVars, endVars,
                   partial, cut>>

ServerDone ==
    /\ spc = "copy" /\ {"shut", "down"} \subseteq fin
    /\ spc' = "end"
    /\ UNCHANGED <<kind, ask, cpc, rest, streamVars, headVars, endVars, partial, cut>>

\* A read finds the connection lost, until the end of that direction was read;
\* a write, of the OK or of the end that a shutdown sends, finds that or the
\* stream dropped; or the stream ends before the two bytes of the length.  A
\* server that is connecting notices nothing, and neither does one that waits
\* for the target to say something.
ServerFails ==
    /\ \/ spc \in {"ok", "len", "host", "copy"} /\ lost /\ "shut" \notin fin
       \/ spc = "ok" /\ ClientGone
       \/ spc = "len" /\ (UpEnds \/ (ClientGone /\ Len(up) < 2))
       \/ spc = "copy" /\ (lost \/ ClientGone) /\ "target" \in fin /\ "down" \notin fin
    /\ ServerDrops

\* The target's socket fails, or what the target says cannot be written.
TargetFails == spc = "copy" /\ ServerDrops

(***************************************************************************)
(* The specification                                                       *)
(***************************************************************************)

\* The connection under the stream is lost.
ConnectionLost ==
    /\ ~lost
    /\ lost' = TRUE
    /\ UNCHANGED <<kind, ask, cpc, spc, rest, up, down, fin, headVars, endVars,
                   partial, cut>>

ClientStep ==
    \/ NewStream \/ Upgraded \/ WriteH2 \/ WriteQuic \/ ReadOk \/ CopyDown
    \/ ClientShutdown \/ ClientDone \/ ClientFails

ServerStep ==
    \/ ServerAccepts \/ WriteOk \/ ReadLen \/ ReadHost \/ Connect \/ CopyUp
    \/ ServerShutdown \/ ServerDone \/ ServerFails

Outside == UserSays \/ TargetSays \/ TargetFails \/ ClientDropped \/ ConnectionLost

ClientOver == cpc \in {"alive", "end", "err"}
ServerOver == spc \in {"idle", "end", "err"}

Over == ClientOver /\ ServerOver /\ UNCHANGED vars

Next == ClientStep \/ ServerStep \/ Outside \/ Over

Spec == Init /\ [][Next]_vars

\* Both runtimes poll their task, the network delivers what was written or
\* breaks, a connection attempt of the server succeeds or fails in the end, and
\* the user and the target take what they are sent.  Nothing is assumed of what
\* they send, or of their ends.
FairSpec == Spec /\ WF_vars(ClientStep) /\ WF_vars(ServerStep)

(***************************************************************************)
(* Properties                                                              *)
(***************************************************************************)

\* The stream was dropped at one end, or its connection is lost.
Broken == lost \/ ClientGone \/ ServerGone

Whole == partial = 0 /\ "host" \notin cut

Dialled == spc \in {"connect", "copy", "end"} /\ url # <<>>

\* The server dials the host the user asked for whenever the head crossed in
\* one piece, and never anything but a beginning of it as long as the head was
\* written once: the two bytes of ConnectHeadBuf bound read_buf, although the
\* user's data may follow at once.
HeadIntact ==
    Dialled =>
        /\ Whole => url = Host
        /\ partial = 0 => IsPrefix(url, Host)

\* The target gets the user's bytes, in order and nothing else, if the head
\* crossed in one piece; after a short read_buf it gets the rest of the host
\* first, and still every byte in order.  The user hears the target and nothing
\* else: the server's OK is taken off the stream, unless it came in two parts,
\* when its second byte is heard.
EndsHearEachOther ==
    LET told == First(Reply, replied) IN
    /\ partial = 0 /\ spc \in {"copy", "end"} =>
          IsPrefix(got, Drop(Host, Len(url)) \o First(Said, said))
    /\ IsPrefix(heard, IF "ok" \in cut THEN <<OK[2]>> \o told ELSE told)

\* The target is told of the user's end only after all the user said, through
\* the shutdowns of both copy_bidirectionals, and the user of the target's end
\* only after all it replied.
EndsComeLast ==
    /\ "shut" \in fin /\ ~Broken /\ Whole => got = First(Said, said)
    /\ "told" \in fin /\ ~Broken /\ cut = {} => heard = First(Reply, replied)

\* When both the user and the target have closed, the client's and the
\* server's task come to an end.  When one of the tasks gave up, or the client's
\* only looked for a sign of life, the other one comes to its end, or passes the
\* end on to its own side and waits for nothing but that side (lib's `tunnel' at
\* the target, transfer at the user): copy_bidirectional reads a dropped stream
\* as an end, and is through when the other side has ended too.
TunnelEnds ==
    /\ {"user", "target"} \subseteq fin ~> ClientOver /\ ServerOver
    /\ cpc \in {"alive", "err"} ~>
          ServerOver \/ (spc = "copy" /\ "shut" \in fin /\ "target" \notin fin)
    /\ cpc \in {"alive", "err"} /\ "target" \in fin ~> ServerOver
    /\ spc = "err" ~>
          ClientOver \/ (cpc = "copy" /\ "told" \in fin /\ "user" \notin fin)
    /\ spc = "err" /\ "user" \in fin ~> ClientOver

=============================================================================
