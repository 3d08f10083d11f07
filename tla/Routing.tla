------------------------------- MODULE Routing -------------------------------
(***************************************************************************)
(* The choice of a backend for a proxied connection, and the loop around   *)
(* it: Config::next_available_backend and the host rules                   *)
(* (src/client/src/config.rs), the balancing algorithms                    *)
(* (src/client/src/balance.rs) and the loop of handle_connection           *)
(* (src/client/src/proxy.rs), for connections that run side by side.       *)
(*                                                                         *)
(* Here a backend is a number, its place in Config::backends, and only     *)
(* whether its status is Normal matters; how it gets there is Backend.tla. *)
(***************************************************************************)
EXTENDS Naturals, Sequences, FiniteSets, SequencesExt

CONSTANTS
    N,          \* the number of backends
    Conns,      \* slots for proxied connections
    Hosts,      \* the hosts users ask for
    Sections,   \* the host rule file: a section for each of some hosts
    Ring,       \* the backend id (from 0) the hash ring gives each host
    Costs       \* values of the peak-EWMA cost, for least_loaded_time

Backends == 1..N

Algorithms == {"RoundRobin", "Random", "LeastLoadedTime", "UriHash", "Frist"}

\* A section's backend: 0 is no backend key, N + 1 a name no backend has.
NoKey == 0
Section == [rewrite : BOOLEAN, backend : NoKey..N + 1, direct : BOOLEAN]

ASSUME RoutingAssumption ==
    /\ N \in Nat \ {0}
    /\ DOMAIN Sections \subseteq Hosts
    /\ \A h \in DOMAIN Sections : Sections[h] \in Section
    /\ Ring \in [Hosts -> 0..N - 1]
    /\ Costs \subseteq Nat

VARIABLES
    balance,    \* the configured algorithm
    up,         \* the backends whose status is Normal
    next,       \* RoundRobin::next_item_index
    pc,         \* where each connection is
    host,       \* the host it asks for
    items,      \* its list of available backends, as it was when it looked
    pick,       \* the backend it got
    seen,       \* history: backends round robin chose since it last began anew
    missLen     \* history: the length of the list round robin last missed on

history == <<seen, missLen>>
vars == <<balance, up, next, pc, host, items, pick, history>>

TypeOK ==
    /\ balance \in Algorithms
    /\ up \subseteq Backends
    /\ next \in 0..N - 1
    /\ pc \in [Conns -> {"idle", "ask", "choose", "got", "block", "direct", "none"}]
    /\ host \in [Conns -> Hosts]
    /\ items \in [Conns -> BoundedSeq(Backends, N)]
    /\ pick \in [Conns -> Backends \cup {0}]
    /\ seen \subseteq Backends
    /\ missLen \in 0..N

Init ==
    /\ balance \in Algorithms
    /\ up \in SUBSET Backends
    /\ next = 0
    /\ pc = [c \in Conns |-> "idle"]
    /\ host \in [Conns -> Hosts]
    /\ items = [c \in Conns |-> <<>>]
    /\ pick = [c \in Conns |-> 0]
    /\ seen = {}
    /\ missLen = 0

(***************************************************************************)
(* Host rules                                                              *)
(***************************************************************************)

\* HostRuler::new drops the sections that say nothing.
Ruler ==
    {h \in DOMAIN Sections :
        \/ Sections[h].rewrite
        \/ Sections[h].backend # NoKey
        \/ Sections[h].direct}

\* Mutant: a named backend has precedence over a direct connection.
PeerBackendRuleNameFirst(h) ==
    IF h \notin Ruler THEN "NoRule"
    ELSE IF Sections[h].backend # NoKey THEN "GotBackend"
    ELSE IF Sections[h].direct THEN "Direct"
    ELSE "NoRule"

\* find_rule and get_backend_name_by_rule
PeerBackendRule(h) ==
    IF h \notin Ruler THEN "NoRule"
    ELSE IF Sections[h].direct THEN "Direct"
    ELSE IF Sections[h].backend # NoKey THEN "GotBackend"
    ELSE "NoRule"

(***************************************************************************)
(* The balancing algorithms, on a list of at least two items.  0 stands    *)
(* for None.                                                               *)
(***************************************************************************)

\* The list s holds every member of T once, in the order of Config::backends.
Lists(s, T) ==
    /\ s \in [1..Cardinality(T) -> T]
    /\ \A i, j \in 1..Cardinality(T) : i < j => s[i] < s[j]

AvailableBackends ==
    CHOOSE s \in [1..Cardinality(up) -> up] : Lists(s, up)

\* items.get(i), with the code's index from 0
Get(list, i) == IF i < Len(list) THEN list[i + 1] ELSE 0

\* The loop over the backends keeps the first of the cheapest.
LeastLoaded(list, cost) ==
    LET best[k \in 0..Len(list)] ==
          IF k = 0 THEN 0
          ELSE IF best[k - 1] # 0 /\ cost[best[k - 1]] <= cost[list[k]]
                 THEN best[k - 1]
                 ELSE list[k]
    IN  best[Len(list)]

\* Mutant: the place in the ring is not brought back into the list.
UriHashGet(list, id) == Get(list, id)

\* The loop of uri_hash: an index beyond the list moves on, at most
\* items.len() + 1 times; then the first item is the fallback.
UriHash(list, id) ==
    LET bid[k \in 0..Len(list)] ==
          IF k = 0 THEN id
          ELSE IF bid[k - 1] < Len(list) THEN bid[k - 1]
          ELSE (bid[k - 1] + 1) % Len(list)
        found == Get(list, bid[Len(list)])
    IN  IF found # 0 THEN found ELSE Get(list, 0)

\* What an algorithm may answer.
Answers(list, h) ==
    CASE balance = "RoundRobin" -> {Get(list, next)}
      [] balance = "Random" -> Range(list)
      [] balance = "LeastLoadedTime" ->
            {LeastLoaded(list, cost) : cost \in [Backends -> Costs]}
      [] balance = "UriHash" -> {UriHash(list, Ring[h])}
      [] balance = "Frist" -> {Get(list, 0)}

(***************************************************************************)
(* A connection                                                            *)
(***************************************************************************)
Goto(c, p) == pc' = [pc EXCEPT ![c] = p]

Got(c, b) == Goto(c, "got") /\ pick' = [pick EXCEPT ![c] = b]

\* handle_connection begins.
Arrive(c) ==
    /\ pc[c] = "idle"
    /\ Goto(c, "ask")
    /\ \E h \in Hosts : host' = [host EXCEPT ![c] = h]
    /\ UNCHANGED <<balance, up, next, items, pick, history>>

\* next_available_backend for a host whose rule decides.
ByRule(c) ==
    /\ pc[c] = "ask"
    /\ \/ /\ PeerBackendRule(host[c]) = "Direct"
          /\ Goto(c, "direct")
          /\ UNCHANGED pick
       \/ /\ PeerBackendRule(host[c]) = "GotBackend"
          /\ LET b == Sections[host[c]].backend IN
               \/ b \in up /\ Got(c, b)
               \/ b \notin up /\ Goto(c, "block") /\ UNCHANGED pick
    /\ UNCHANGED <<balance, up, next, host, items, history>>

\* next_available_backend for other hosts: one look at the statuses.  The
\* algorithm is asked only if there is a choice.
Look(c) ==
    /\ pc[c] = "ask"
    /\ PeerBackendRule(host[c]) = "NoRule"
    /\ LET list == AvailableBackends IN
         /\ items' = [items EXCEPT ![c] = list]
         /\ \/ Len(list) = 0 /\ Goto(c, "none") /\ UNCHANGED pick
            \/ Len(list) = 1 /\ Got(c, list[1])
            \/ Len(list) > 1 /\ Goto(c, "choose") /\ UNCHANGED pick
    /\ UNCHANGED <<balance, up, next, host, history>>

\* Mutant: the new index is not written back.
AdvanceForgotten(list) == UNCHANGED next

\* Mutant: the index is not brought back into the list.
AdvanceOnly(list) == next' = next + 1

\* The end of RoundRobin::next_available_backend.
Advance(list) == next' = (next + 1) % Len(list)

\* What the properties remember of a choice b of round robin from list.
Remember(list, b) ==
    /\ missLen' = IF b = 0 THEN Len(list) ELSE 0
    /\ seen' = IF list # AvailableBackends \/ seen \cup {b} = Range(list)
                 THEN {}
                 ELSE (seen \cup {b}) \ {0}

\* The algorithm answers, from a list that may be out of date.
Choose(c) ==
    /\ pc[c] = "choose"
    /\ \E b \in Answers(items[c], host[c]) :
         /\ \/ b # 0 /\ Got(c, b)
            \/ b = 0 /\ Goto(c, "none") /\ UNCHANGED pick
         /\ IF balance = "RoundRobin"
              THEN Advance(items[c]) /\ Remember(items[c], b)
              ELSE UNCHANGED <<next, history>>
    /\ UNCHANGED <<balance, up, host, items>>

Leave(c) ==
    /\ Goto(c, "idle")
    /\ items' = [items EXCEPT ![c] = <<>>]
    /\ pick' = [pick EXCEPT ![c] = 0]

\* A stream is open, or there is none to open: the loop is left.
Finish(c) ==
    /\ pc[c] \in {"got", "block", "direct", "none"}
    /\ Leave(c)
    /\ UNCHANGED <<balance, up, next, host, history>>

\* try_connect failed: the backend is down, and the loop goes round.
Failed(c) ==
    /\ pc[c] = "got"
    /\ Goto(c, "ask")
    /\ up' = up \ {pick[c]}
    /\ items' = [items EXCEPT ![c] = <<>>]
    /\ pick' = [pick EXCEPT ![c] = 0]
    /\ seen' = IF up' = up THEN seen ELSE {}
    /\ UNCHANGED <<balance, next, host, missLen>>

\* A retry_forever or an operator changes the status of a backend.
StatusChanges(b) ==
    /\ up' = IF b \in up THEN up \ {b} ELSE up \cup {b}
    /\ seen' = {}
    /\ UNCHANGED <<balance, next, pc, host, items, pick, missLen>>

Next ==
    \/ \E c \in Conns :
         \/ Arrive(c) \/ ByRule(c) \/ Look(c) \/ Choose(c)
         \/ Finish(c) \/ Failed(c)
    \/ \E b \in Backends : StatusChanges(b)

Spec == Init /\ [][Next]_vars

(***************************************************************************)
(* Properties                                                              *)
(***************************************************************************)

\* A host with a rule goes where the rule says or nowhere: to its backend, or
\* directly; and a host without one is never blocked or sent out directly,
\* whatever the loop of handle_connection has been through.
RulesObeyed ==
    \A c \in Conns :
        LET ruled == host[c] \in DOMAIN Sections
            named == Sections[host[c]].backend IN
        /\ pc[c] = "got" /\ ruled => ~Sections[host[c]].direct /\ named \in {NoKey, pick[c]}
        /\ pc[c] = "direct" => ruled /\ Sections[host[c]].direct
        /\ pc[c] = "block" => ruled /\ named # NoKey
        /\ pc[c] \in {"none", "choose"} /\ ruled => named = NoKey

\* Every algorithm but round robin finds a backend whenever the connection saw
\* one: the probing of uri_hash and the fold of least_loaded_time never come
\* out empty-handed.
OthersNeverMiss ==
    \A c \in Conns :
        pc[c] = "none" /\ balance # "RoundRobin" => items[c] = <<>>

\* While the set of Normal backends stays the same, round robin gives nobody a
\* second turn before everybody had one, with any number of connections asking.
\* It recovers from a miss, too: it misses twice in a row only if the list
\* became shorter in between, so no more than N - 2 times.
RoundRobinFair ==
    [][\A c \in Conns :
         /\ /\ balance = "RoundRobin"
            /\ pc[c] = "choose" /\ pc'[c] = "got"
            /\ items[c] = AvailableBackends
            => pick'[c] \notin seen
         /\ pc[c] = "choose" /\ pc'[c] = "none" /\ missLen # 0
            => Len(items[c]) < missLen]_vars

\* least_loaded_time answers the first of the backends with the least cost,
\* for every list of available backends and all costs.
LeastLoadedIsFirstMinimum ==
    \A cost \in [Backends -> Costs] :
        LET list == AvailableBackends
            best == LeastLoaded(list, cost)
            cheapest == {b \in up : \A x \in up : cost[b] <= cost[x]}
        IN  up # {} => best \in cheapest /\ \A b \in cheapest : best <= b

\* uri_hash serves every host from an available backend, and from the one the
\* ring names while all backends are Normal.
UriHashHome ==
    \A h \in Hosts :
        /\ up # {} => UriHash(AvailableBackends, Ring[h]) \in up
        /\ up = Backends => UriHash(AvailableBackends, Ring[h]) = Ring[h] + 1

\* Every algorithm but round robin finds a backend whenever there is one, and
\* the one it should.
AlgorithmsAnswer == OthersNeverMiss /\ LeastLoadedIsFirstMinimum /\ UriHashHome

=============================================================================
