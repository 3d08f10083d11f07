# octoproxy: a TLA+ model

octoproxy is an HTTP proxy in two halves. The *client* accepts proxy requests
from users, picks one of several *backends* (each a remote octoproxy server,
reached by HTTP/2 over mutual TLS or by QUIC) and carries each user's
connection as one stream of the backend's multiplexed connection. The *server*
reads from every stream the host to connect to and copies bytes. A metric API
(WebSocket, used by a TUI) shows and changes the backends at run time.

This directory models the parts with state that several tasks share, checks
them with TLC on small instances, and proves with TLAPS, for every instance, all
of their safety properties: the invariants, the action properties and the two
refinements.

## Inventory

| component | state | operations | interacts through |
|---|---|---|---|
| backend (`client/src/backends.rs`) | status, `retrying` flag, cancellation token, client, protocol | `try_connect`, `transfer`, `retry_connect`, `reset_client`, `switch_protocol`, `cancel`, `renew_cancellation_token` | an async `RwLock` per backend; atomics inside |
| connector (`client/src/connector.rs`) | `ClientState` behind an async mutex, held while dialling; the QUIC address cache | `new_stream_fut`, `reset_client`, `new_connection`, `new_stream` | called by `try_connect` and resets |
| proxy loop (`client/src/proxy.rs`) | the channel from the listener | the listener's service, `handle_connection`, `direct_connection`, `retry_forever` | tasks: one per connection, one per reconnecting backend |
| metric API (`client/src/metric.rs`) | none of its own | `switch_backend_status`, `reset_backend`, `switch_backend_protocol` | one task per WebSocket, on the same `RwLock` |
| metric counters (`client/src/metric.rs`) | active connections, peers, failures, byte totals, status, peak EWMA | `incr_connection`, `summary`, `add_failures`, `reset` | left-right, one writer mutex |
| balancing (`client/src/balance.rs`), host rules (`client/src/config.rs`) | `next_item_index`, hash ring | five algorithms, `next_available_backend` | reads all statuses |
| connect head and tunnel (`lib/src/proxy.rs`) | the bytes of one stream | `ConnectHeadBuf`, `tunnel` | client and server, over the network |
| server (`server/src`) | a semaphore, connections | `run_h2`, `run_quic`, the two connection handlers | one task per connection, one per stream |
| TUI (`tui/src`) | one pending request, a selection | `Fetcher`, `App` | WebSocket to the metric API |
| HTTP proxy client (`lib/src/proxy_client`) | a poll state machine | `ProxyConnector`, `Tunnel` | used for non-CONNECT requests: dials the client's own listener |
| easycert, octoproxy, e2e | - | commands | files |

What is hard here:

* *Interleaving.* Connections, reconnecting tasks and operators' requests work
  on one backend on a multi-threaded runtime. `retrying` is loaded and stored
  in two operations, the status is written by all three, and an operator's
  request is two or three separate lock acquisitions.
* *Blocking.* Read guards are held while dialling and for the whole life of a
  tunnel; a queued writer blocks all later readers; the client's mutex is held
  while dialling, which for the TLS handshake has no timeout. Requests are
  answered only because they first cancel the token everyone selects on.
* *Stale state.* The token is cloned before work begins; the status is looked
  at before the guard is taken; the balancer's index belongs to a list of
  another length.
* *Out-of-order counting.* A tunnel counts itself in from a spawned task and
  out by itself; a reset may come in between; the counter is a `u32`.
* *Waiting for oneself.* A request other than CONNECT is served over a
  connection the client makes to its own listener: one handler waits for
  another that comes through the same queue.
* *Moving servers.* A QUIC client remembers the first address that worked; some
  waits have a timeout and some have none.
* *Framing.* The head of a stream may be written and read in parts.

`PROJECT.json` lists each of these hazards at its line with the properties that
cover it, or the reason why none does. Where the code itself goes wrong and a
property had to be stated around that, the hazard's note says so.

## Modules

| module | models |
|---|---|
| `RwLock` | tokio's fair `RwLock`: readers, and one queue that a request may not overtake. External code, modelled by what its documentation promises and the client relies on |
| `Client` | `ClientState` and its mutex; `Connected` is split into `Live` and `Dead` after `conn.is_finished()` |
| `CancelScope` | *abstract*: what the cancellation token promises. Work joins the current scope; a scope may be told to close, which stops nobody from joining; a new scope opens only when nothing of the old one runs |
| `Backend` | one backend and all tasks on it; composes `RwLock` and `Client`; implements `CancelScope` |
| `MetricOps` | the data of a metric, what each `MetricOp` makes of it, and the tunnels, spawned increments and resets that publish them |
| `Metric` | *abstract*: one copy of the data, which each publication changes at once |
| `LeftRight` | the two copies of left-right with the peak EWMA; implements `Metric` |
| `FrontEnd` | the listener and its queue, requests other than CONNECT with the handshake of `proxy_client`, direct connections, and the names `PeerInfo` makes |
| `Dial` | `new_connection` of both protocols with the address cache, while the server moves; extends `Client` |
| `Routing` | host rules, the five algorithms, and the loop of `handle_connection` around them, for several connections |
| `Tunnel` | one stream end to end: `new_stream`, the connect head, the server's handler, the copying at both ends |
| `Server` | the two accept loops, the semaphore and the connections |
| `Tui` | the TUI's two threads, the channels between them, and the WebSocket to the metric API |
| `MC*` | instances for TLC: model values, small sets, symmetry |
| `BackendProofs`, `LeftRightProofs`, `FrontEndProofs`, `DialProofs`, `RoutingProofs`, `TunnelProofs`, `ServerProofs`, `TuiProofs` | the theorems about the module each is named after, and their lemmas |

Definitions called "Mutant" are faulty variants of the definition after them,
used to see that the properties can fail; no specification uses them.

### Backend

Tasks are slots: a connection slot serves one connection after another, a
retrier slot one `retry_forever` after another, an operator slot one request
after another. `pc[t]` is where a task is; the comments in the module give the
code for each value. `token` numbers the tokens the backend has had and
`cancelled` is the set of cancelled ones, so a stale clone is visible.

A step is what a task does between two points at which another task can tell
the difference:

* `backend.read().await` is one step with the first access under the guard,
  and dropping the guard is one step with the last. A task that cannot have the
  lock at once takes `WaitLock` first and is served in turn.
* A write guard is held for one step (`Write`): nothing under it awaits, except
  that `build_client` in `switch_protocol` may fail, which is a second action.
* `retrying.load`, `retrying.store`, the two status writes and the flag's reset
  of `retry_connect` are steps of their own, because nothing but a shared guard
  surrounds them.
* What a remote server decides (a dial, opening a stream, the end of a tunnel)
  is an event that may happen or not: every one of them may hang.

`SpareRetrier` is a bound, not code: work that may spawn a `retry_forever`
begins only while a slot is left for it, so that spawning itself never blocks.
`MaxOps` bounds the number of requests, and with it the tokens.

### MetricOps, Metric and LeftRight

A batch of `MetricOp`s is published under one mutex and is one step, in which
left-right brings the copy nobody reads up to date and swaps the two: it absorbs
`log`, the batch the live copy already has, and then the new one. Readers always
see the latest publication (`AtomicMetric`), but every batch is absorbed at two
times, and `PeakEWMA::observe` asks for the time; the copies differ in their
estimates. Times are whole units, and `Divisor` says how much is left after
so many of them; the run halves with each. `Modulus`
stands for 2^32 and `MaxTotal` for 2^64 - 1. `u32` arithmetic wraps, as in a
release build; in a debug build the same decrement panics.

### FrontEnd

A user `u` with a request other than CONNECT has two connections, `<<u, "user">>`
and `<<u, "self">>`, each with a service of the listener (`svc`) and a handler.
`unsent`, `wire` and `buf` are the handshake of the `Tunnel` future: a read takes
any part of what has arrived, the head of the reply being four parts (the bytes
before the status, the status, the rest, the blank line). A target that speaks
before it is asked (`Speaks`) may have its bytes read with the head. hyper's
connection pool, which may give a request an idle connection made for the same
host, is external. Hosts are sequences of parts from `Word`, one of which is the
colon; a port is a part other than the colon, or `"none"`. `Wanted` says from name
and port what should be asked for.

### Dial

An address answers (`up`), `refuses` or is `silent`; `Move` changes that, or what
the name resolves to. A step that waits for an answer can be taken when the
address gives one or a timeout covers the wait; `Waits` are the states in which
neither will ever be, and there the model may stop (`Hang`). With 0-RTT
`LastConnects` needs no answer.

### Routing

A backend is its place in `Config::backends`, so the list of available backends is
the increasing one (`Lists`). `items[c]` is the list a connection saw; the choice is made from it in a later
step, so statuses and the shared round-robin index can have changed. How a
backend goes up and down is left open here (`StatusChanges`, `Failed`).

### Tunnel

Bytes are numbers; `up` and `down` are what is on its way. A read takes any
part of what is there up to its limit, which stands for what has arrived. For
QUIC `WriteQuic` begins again with the whole head after a write taken in part,
since the code makes a new `write_all` at every poll.

A stream that one end drops (`ClientGone`, `ServerGone`) reads as an end at the
other: quinn finishes the sending half, and hyper takes the CANCEL of an HTTP/2
stream for an end, before which bytes on their way may be lost (`UpEnds`,
`DownEnds`). `copy_bidirectional` then shuts its own side down and waits for that
side; it notices the drop only when it next writes to the stream. A lost connection
(`lost`) is an error of the next read or write.

### Server

`hand` is the connection `run_h2` has accepted and holds while it waits for a
permit. QUIC connections take none. An error of `accept` ends `run_h2`, and
`run_quic` goes on.

### Tui

`ui` is where the main thread is in the loop of `run_app`, `fetch` where the
fetcher's thread is in `run_loop`; `pending` is the flag they share. A key is
taken from the input thread's channel in one step with its handler, and the
draw that follows every event is a step of its own, because the flag may be
cleared before it. `backend_action` is two steps: the flag is looked at and set
(`Action`; no other thread sets it), and the request is sent (`Send`), so that
the order of the two against the fetcher's clearing can be seen. `run_loop` may
fail in `connect`, in writing, and on an answer it cannot decode
(`ReadUndecoded`). When `run_loop` returns its ends of the channels are dropped
in the same step: a request sent between the two drops is lost like one sent
before. `len() - 1` wraps, as in a release build (a debug build panics). Once
`run_app` is left the process ends, so every step asks for `Running`. The text
of the error log is left out.

## Runs

All runs are in `PROJECT.json`. For each: what is checked, with which bounds
and why they are enough.

* **backend**: 2 connections, 2 retriers, 2 operators, 2 requests, every
  initial status, `max_retries` 2, HTTP/2 first (no step depends on which of the
  two protocols is which). Two of each kind is what the races need (two
  attempts at once, a connection failing while another retries, a request
  between the two halves of another); two requests give three tokens, so a
  stale token and a skipped one can be told apart. `TokenCoherent`,
  `RetryFlagOwned`, `MutexOwnerStoppable`, `GuardsExact`, `RetryBudget`,
  `ClientTransitions` and the refinement `ScopeRefinement` hold.
* **backend_live**: 1 connection, 2 retriers, 1 operator, 2 requests, unlimited
  retries. `RequestsAnswered` and `ConnectionsServed` hold although every dial,
  stream and tunnel may hang for ever.
* **metric**: 3 tunnels, two from one user, 1 reset, two points of time after the
  start, a counter modulo 5, a total that overflows after two reports, and
  connection times below and above the first estimate. `CountsLaw`
  and `CostCoversLoad` hold of what readers see, and `AtomicMetric`, the refinement
  of `Metric`. One weakness is in the law itself: a tunnel that a reset wiped counts itself out all the same, and
  `active_connections` wraps.
* **front**: 2 users, the first with a request other than CONNECT, the second with
  either; a name without a port, an address literal with and without one, a rule
  that rewrites the literal; a CONNECT written in 2 units. Two users are what a
  reused connection and a shared queue need. `AnswerOwned`, `HandshakeExact`,
  `TargetAsked` and `PlainAnswered` hold. Excepted are a literal without a port,
  whose last colon `rfind` takes for that of a port, and the bytes of a target
  that speaks unasked.
* **dial**: an IPv4 and an IPv6 address, every setting of `ipv4_only`, `use_0rtt`
  and `max_idle_timeout`, both protocols, every initial network, 2 moves, 1
  dropped dial, 2 switches (so that QUIC is left and entered again). Two
  addresses are enough for one to fail, be skipped or be silent before the other;
  two moves for a server to leave an address and its name to follow.
  `CacheProven`, `PoisonedTriedAll` and `DialReaches` hold. `DialReaches` is about
  one dial: it ends, and if the server could be found when it began it ends with a
  connection. Whether anybody dials again is not assumed here: `retry_forever`
  stops after `max_retries` (`RetryBudget`), and the run closed_has_retrier shows
  that it can stop earlier. `Findable` and `Waits` are what `DialReaches` has to
  except: a remembered QUIC address the server has left, a silent address before
  one that answers, and waits without a timeout. It would not notice these going
  wrong, and the hazards in `PROJECT.json` say so.
* **routing**: 3 backends, 2 connections, 5 kinds of hosts (no rule, a backend,
  an unknown backend, direct and a backend, an empty section), all algorithms.
  A list of three can shrink to two under the index, which is the case that
  matters. `RulesObeyed`, `AlgorithmsAnswer` (what each of the other four
  algorithms must choose) and `RoundRobinFair` hold. After the list became
  shorter round robin's index may lie behind it, and that one connection is
  dropped with healthy backends left; `RoundRobinFair` says how it recovers.
* **tunnel**: a host of 3 bytes, 2 bytes one way and 1 the other, one partial
  write of the head (two give nothing new but more prefixes). `HeadIntact`,
  `EndsHearEachOther`, `EndsComeLast` and `TunnelEnds` hold. `TunnelEnds` says
  that both tasks end when user and target have closed; and that when one task gave
  up, the other ends too, or has passed the end on and waits only for the target
  (the server's) or the user (the client's). A target that stays open and silent
  keeps the server's task for good, since nothing there has a timeout. A head that
  was written twice is excepted from what the target hears, and the rest of a host
  read short, or the second byte of an OK read short, is described, not excluded.
* **server**: 3 TCP connections and 1 permit (one handled, one in hand, one
  waiting) beside 2 QUIC connections. `PermitLaw` and `ArrivalsServed` hold.

* **tui**: 2 backends, a `usize` of 0..3 (so that a selection can lie inside the
  list, just behind it and far behind it), one control message, one notification
  waiting. `PendingExact`, `SelectionInRange`, `AppFollows` and
  `AnswerShows` hold. One control message is
  enough to make every later answer arrive one request late. Two weaknesses of
  the code are premises of the properties: a refused request stays pending for
  good, and keys pressed before the first list can move the selection out of it.

Three runs state what a comment or document of the repository says, and TLC finds
the code doing otherwise:

* **force_closed** - "will never up automatically" (`lib/src/metric.rs`).
  `switch_backend_status` cancels the token and then writes `ForceClosed`. The
  attempt it cancelled fails afterwards and writes `Closed` over it, and with that
  the guard of `retry_connect` that leaves a `ForceClosed` backend alone is gone.
* **closed_has_retrier** - "`Closed` status will be changed to `Normal`"
  (`lib/src/metric.rs`). Between the status and the flag of a successful retry,
  a failing connection spawns a `retry_forever` which sees the flag and ends.
* **switch_stuck** - "so it would not deadlock" (`client/src/metric.rs`). With
  two operators the token that one cancelled is renewed by the other, and a
  reconnection to a silent remote then holds the lock for ever. This run uses
  the fair specification.

Two more races are visible in the model and bounded by its properties: two
`retry_connect`s may both pass the `retrying` flag (`RetryFlagOwned` and
`ClientTransitions` hold all the same), and a tunnel that ends before its
spawned increment leaves its user listed in `active_peers` (`CountsLaw`
says only that nobody is missing).

## Fairness

* `Backend`: weak fairness of each task's own steps, because the runtime polls
  every task that can go on. Strong fairness of the steps that take the
  client's mutex, because tokio's `Mutex` is FIFO and the model keeps no queue
  for it. Events of remote servers, users and operators have no fairness.
* `Tunnel`: weak fairness of the client's and the server's steps. This includes
  that the network delivers what was written (or the stream breaks) and that
  the server's `TcpStream::connect` ends, by the operating system's timeout at
  the latest, and that user and target take what they are sent. Nothing is assumed
  of what they send, or that they ever close.
* `Server`: weak fairness of the accept loops. Connections may be handled for
  ever; `ArrivalsServed` makes their ending its premise.

* `Tui`: weak fairness of both threads, and strong fairness of each channel of
  `select_event`, because crossbeam's `Select` picks one of the ready channels
  at random. `AllBackends` is answered, since it takes no lock of a backend; the
  answers to the other requests may never come.

* `FrontEnd`: weak fairness of the program's own tasks taken together, which is
  enough because no task goes round for ever. Users, targets and backends owe
  nothing; `PlainAnswered` has as its premise that routes and tunnels end.
* `Dial`: weak fairness of the steps of a dial that is under way and whose answer
  or timeout comes. Dialling again, moves, drops, resets and switches have none.

`Metric`, `LeftRight` and `Routing` have safety and action properties only.

## Proofs

Every theorem holds for all constants that satisfy the named assumptions of the
modules, which say no more than what the constants are (finite sets, natural
numbers, functions of the right kind). All have the same shape: an inductive
invariant, one lemma or step per action that preserves it, and a last step of
propositional temporal logic.

| module | theorem | says |
|---|---|---|
| `BackendProofs` | `TypeCorrect`, `TokensCoherent`, `RetryFlagsOwned`, `GuardsAreExact`, `MutexOwnersStoppable`, `RetryBudgetKept` | `TypeOK`, `TokenCoherent`, `RetryFlagOwned`, `GuardsExact`, `MutexOwnerStoppable`, `RetryBudget` always hold |
| | `RenewIsQuiet`, `ClientTransitionsHold` | the action properties `RenewQuiet`, `ClientTransitions` |
| | `ScopeImplemented` | `ScopeRefinement`: `Backend` implements `CancelScope` |
| `LeftRightProofs` | `TypeCorrect`, `CountsLawHolds`, `CostCovers` | `TypeOK`, `CountsLaw`, `CostCoversLoad` |
| | `AtomicImplemented` | `AtomicMetric`: `LeftRight` implements `Metric` |
| `RoutingProofs` | `TypeCorrect`, `RulesAreObeyed`, `AlgorithmsRight` | `TypeOK`, `RulesObeyed`, `AlgorithmsAnswer` |
| | `RoundRobinIsFair` | the action property `RoundRobinFair` |
| `FrontEndProofs` | `TypeCorrect`, `SenderHasOneOwner`, `TargetsAskedRight`, `HandshakeIsExact` | `TypeOK`, `AnswerOwned`, `TargetAsked`, `HandshakeExact` |
| `DialProofs` | `TypeCorrect`, `CacheIsProven` | `TypeOK`, `CacheProven` |
| | `PoisonTriesAll` | the action property `PoisonedTriedAll` |
| `TunnelProofs` | `TypeCorrect`, `HeadCrossesIntact`, `EndsHear`, `EndsAreLast` | `TypeOK`, `HeadIntact`, `EndsHearEachOther`, `EndsComeLast` |
| `ServerProofs` | `TypeCorrect`, `PermitsKept`, `TasksLimited` | `TypeOK`, `PermitLaw`, and that no more than `MaxTasks` TCP connections have a task |
| `TuiProofs` | `TypeCorrect`, `SelectionStays`, `PendingIsExact` | `TypeOK`, `SelectionInRange`, `PendingExact` |

One theorem has a hypothesis of its own: `CostCovers` asks for
`Cardinality(Tunnels) + 1 < Modulus`, fewer tunnels than a `u32` counts, since the
cost of a counter that wraps is zero. `Divisor` of `LeftRight` is any decay that
never grows back.

### Backend

    IndInv == TypeOK /\ GuardsExact /\ TokenCoherent /\ RetryFlagOwned /\ MutexDialling

None of its parts is inductive alone. The token changes only under the write
lock, which needs `readers = {}`; by `GuardsExact` no task is then inside a
section with a guard, so nobody holds a clone of the old token
(`TokenCoherent`) and no attempt is under way, hence by `RetryFlagOwned` the
flag is clear (`RenewQuiet`, which no run checks: `ScopeRefinement` rests on it
and breaks with it). A dial's owner is in such a section as well
(`MutexDialling`), so the mutex is free whenever a client is replaced, and
`MutexOwnerStoppable` and `ClientTransitions` follow: every step is a `ClientStep`,
one of the client's own operations or a replacement under the write lock. For the
refinement, `CancelledPast` adds that only tokens up to the current one were
cancelled, so that a renewed token is not a cancelled one; each action is then a
step of `CancelScope` or a stutter. `Budget` says that a slot with no task has used
up no round and a running task has one left, which `RetryBudget` alone does not
say of a slot about to be spawned into.

### LeftRight

`CopiesAgree`: the live copy is the other one after absorbing `log`. A publication
absorbs `log` into the stale copy, which makes the two equal, and then the new
batch, so what readers see changes by exactly that batch (`AtomicMetric`).
`CountInv` adds that an increment is spawned with its tunnel (`Spawned`), the
counter as an equation modulo its width with what resets wiped (`ActiveExact`), and
a lower bound for each peer (`PeersLower`); tunnels are counted with finite
cardinalities. For the cost, `ReportKnown`: the live estimate was raised to the
last report and has not decayed for longer, and the stale one has too or will when
it absorbs `log`, although it does so at another time.

### Routing

The list of available backends exists and is unique (`ListExists`, `ListUnique`).
What `least_loaded_time` and `uri_hash` compute is proved from an explicit value
for each round of their loops: the first of the cheapest so far
(`LeastLoadedFirst`), and the place found from the second round on
(`UriHashFinds`). The invariant is

    Inv == TypeOK /\ Choosing /\ Ruled /\ Turns /\ Missed /\ OthersNeverMiss

`Choosing` (an algorithm is asked about two backends at least) is what keeps the
index in range, and the remainder in the code from dividing by zero. `Ruled` ties
where a connection is to what its host's rule says. `Turns` says that the backends
seen are those between a starting place and the index, going round at the end of the
list: so the one at the index is not among them, and when the next place is the
starting place all have had a turn (`NextTurn`). After a miss the index lies within the list missed on (`Missed`).

### FrontEnd

`Owned`: a connection is in the queue at most once, before its handler, and a
request that waits has its sender in the queue or with a handler that is not that
of a CONNECT; `AnswerOwned` follows. `AskedRight`: a connection asks for what
`HostByRule` makes of its own host, also when the answer came over a reused
connection (`via`); together with lemmas on where the last colon of a name is
(`PortFound`, `NoPortFound`) this gives `TargetAsked` for names of any length.
`Shaken`: what was read and what is on the wire are together the reply, followed by
what the target said; so a buffer that passes for a whole head is one.

### Dial

`NoneForgotten`: within `connect_addr` every address that may be used has failed or
is still to be tried. `Dialling` says which phases leave the client unconnected and
what they have in hand; `CacheProven` is inductive with these two.

### Tunnel

Per direction, an equation of positions: what one end took, what is on its way and
what is left to write are consecutive pieces of what was written (`UpBytes`,
`DownBytes`), the first bytes of which are the head or the OK. A short read moves
the boundary and nothing else, so `HostRead` fixes how much of the head was taken for
the host. `Control` says which parts of the exchange exist in which phase, and that
an end is passed on only when nothing is left before it. `UpBytes` is stated while
no write was taken in part, as what `HeadIntact` and `EndsHearEachOther` say of the
bytes that went up is.

### Server and Tui

`PermitLaw` is inductive once `BacklogQueued` says that a connection not yet
accepted has no task. `PendingExact` counts the operator's requests on their way in
the three channels, the one the main thread is about to send included
(`Waiting + Asked + Answered`), and says that the sum is one
exactly while the flag is set and no Error came back; `CountAppend` and `CountTail`
are the lemmas on counting a channel's messages. `SelectionInv` adds that the
selection is at the start while there is no list and no key came early.

### Only model-checked

The liveness properties, because fairness and `ENABLED` are out of the prover's
reach: `RequestsAnswered`, `ConnectionsServed`, `TunnelEnds`, `ArrivalsServed`,
`PlainAnswered`, `DialReaches`, `AppFollows`, `AnswerShows`. The three properties
the code does not keep are refuted by TLC.

## Not modelled

* Real time. The peak EWMA is modelled in whole units of time and of latency;
  `least_loaded_time` is checked in `Routing` for all costs from a small set.
* hyper, quinn, rustls and tokio beyond what the client and server use of them:
  they are events and external definitions.
* The windows and congestion control of the transports: numbers handed to quinn
  and hyper once.
* Reading configuration and key files, TLS set-up (`lib/src/tls.rs`,
  `lib/src/config.rs`), `easycert`, command lines, logging and drawing:
  sequential input and output with no state that another task sees.
* Several requests on one connection of a user, which hyper serves one after
  another, and requests other than CONNECT at the server, which get an empty
  answer.

## Plan

1. `Backend` with its abstract `CancelScope`, `LeftRight` with its abstract
   `Metric`, `Routing`, `FrontEnd`, `Dial`, `Tunnel`, `Server` and `Tui`
   model-checked - done.
2. Proofs of every safety property of the runs - done.
3. Next: a safety core for some liveness properties (from every state in which a
   request waits, some step of the program is possible), stated without `ENABLED`;
   and a composition of `Routing` with several backends.
