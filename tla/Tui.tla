-------------------------------- MODULE Tui --------------------------------
(***************************************************************************)
(* The terminal user interface of the metric API: the main thread          *)
(* (run_app in src/tui/src/lib.rs with App in src/tui/src/app.rs), the     *)
(* fetcher's thread (run_loop in src/tui/src/fetch.rs), the channels       *)
(* between them, and the WebSocket to ws_handler of the client, which      *)
(* answers one request after the other.  When the main thread leaves       *)
(* run_app the process ends.  What is drawn is left out, but for the       *)
(* spinner, which tells the operator that a request is pending.            *)
(***************************************************************************)
EXTENDS Naturals, Sequences, FiniteSets, SequencesExt

CONSTANTS
    NBackends,   \* backends of the client
    UsizeMax,    \* usize::MAX
    MaxStray,    \* bound: messages of the server that answer nothing
    MaxNotes     \* bound: notifications the main thread has yet to take

ASSUME TuiAssumption ==
    /\ NBackends \in Nat
    /\ UsizeMax \in Nat /\ NBackends <= UsizeMax
    /\ MaxStray \in Nat
    /\ MaxNotes \in Nat \ {0}

VARIABLES
    ui,          \* the main thread: waiting in select_event, about to send the
                 \* operation named, to draw, or to draw for the last time, or
                 \* how run_app was left
    selected,    \* backends_state.selected()
    spin,        \* the spinner is active
    pending,     \* Fetcher.pending, shared by the two threads
    pendingOn,   \* Fetcher.pending_on_id
    fetch,       \* the fetcher's thread
    listed,      \* the length of Fetcher.backends
    reqs,        \* inner_sender to inner_receiver
    notes,       \* messages of tx_fetcher that were not received
    close,       \* close_tx: open, a message was sent, or dropped without one
    toServer,    \* requests on the WebSocket
    toClient,    \* messages of the server on the WebSocket
    up,          \* the server's end of the WebSocket is there
    strays,      \* history: messages that answer nothing
    refused,     \* history: an Error answer was read
    early        \* history: the selection was moved before the first list

uiVars == <<ui, selected, spin, pendingOn, early>>
wireVars == <<toServer, toClient, up, strays>>
fetchVars == <<fetch, listed, close, refused>>
vars == <<uiVars, wireVars, fetchVars, pending, reqs, notes>>

Operations == {"status", "protocol", "reset"}
Usize == 0..UsizeMax
Requests == [op : Operations \cup {"all"}, id : Usize]
AllBackends == [op |-> "all", id |-> 0]
Answers == {"done", "error", "items", "stray"}

Left == {"quit", "failed", "panic"}

TypeOK ==
    /\ ui \in {"select", "draw", "last"} \cup Operations \cup Left
    /\ selected \in Usize /\ pendingOn \in Usize
    /\ spin \in BOOLEAN /\ pending \in BOOLEAN
    /\ fetch \in {"connect", "idle", "wait", "failing", "done"}
    /\ listed \in {0, NBackends}
    /\ reqs \in Seq(Requests) /\ toServer \in Seq(Requests)
    /\ notes \in 0..MaxNotes + 1
    /\ close \in {"open", "sent", "dropped"}
    /\ toClient \in Seq(Answers)
    /\ up \in BOOLEAN /\ strays \in 0..MaxStray
    /\ refused \in BOOLEAN /\ early \in BOOLEAN

Init ==
    /\ ui = "select" /\ selected = 0 /\ spin = FALSE
    /\ pending = FALSE /\ pendingOn = 0
    /\ fetch = "connect" /\ listed = 0 /\ close = "open"
    /\ reqs = <<>> /\ notes = 0
    /\ toServer = <<>> /\ toClient = <<>> /\ up = TRUE
    /\ strays = 0 /\ refused = FALSE /\ early = FALSE

\* The process is there until the main thread leaves run_app.
Running == ui \notin Left

(***************************************************************************)
(* The keys (App::event).  Each event is followed by a draw.               *)
(***************************************************************************)
\* backends.len() - 1, which wraps in a release build.
LastIndex == (listed + UsizeMax) % (UsizeMax + 1)

\* Mutant: the comparison is off by one.
NextIndexOff == IF selected > LastIndex THEN 0 ELSE selected + 1

\* Mutant: the selection does not go round.
NextIndexRunsOn == selected + 1

NextIndex == IF selected >= LastIndex THEN 0 ELSE selected + 1

PrevIndex == IF selected = 0 THEN LastIndex ELSE selected - 1

Select(i) ==
    /\ ui = "select"
    /\ ui' = "draw"
    /\ selected' = i
    /\ early' = (early \/ listed = 0)
    /\ UNCHANGED <<spin, pendingOn, wireVars, fetchVars, pending, reqs, notes>>

SelectNext == Select(NextIndex)
SelectPrev == Select(PrevIndex)

\* Mutant: the pending request is not looked at.
ActionUnguarded(op) ==
    /\ ui = "select"
    /\ ui' = op /\ pending' = TRUE
    /\ UNCHANGED <<selected, spin, pendingOn, early, wireVars, fetchVars, reqs, notes>>

\* backend_action: nothing is sent while a request is pending.  Otherwise the
\* flag is set, which only this thread does,
Action(op) ==
    /\ ui = "select"
    /\ \/ pending /\ ui' = "draw" /\ UNCHANGED pending
       \/ ~pending /\ ui' = op /\ pending' = TRUE
    /\ UNCHANGED <<selected, spin, pendingOn, early, wireVars, fetchVars, reqs, notes>>

\* and then the request is sent.  Once run_loop has returned its receiver is
\* gone, and the unwrap of send panics.
Send ==
    /\ ui \in Operations
    /\ \/ /\ fetch \notin {"failing", "done"}
          /\ reqs' = Append(reqs, [op |-> ui, id |-> selected])
          /\ pendingOn' = selected
          /\ ui' = "draw"
       \/ /\ fetch \in {"failing", "done"}
          /\ ui' = "panic"
          /\ UNCHANGED <<reqs, pendingOn>>
    /\ UNCHANGED <<selected, spin, early, wireVars, fetchVars, pending, notes>>

\* 'q' draws once more and ends; other keys only draw.
Key(next) ==
    /\ ui = "select"
    /\ ui' = next
    /\ UNCHANGED <<selected, spin, pendingOn, early, wireVars, fetchVars,
                   pending, reqs, notes>>

\* The input thread ends with an error, and its channel is disconnected.
InputFails == Key("failed")

(***************************************************************************)
(* The other events of select_event.  The spinner's tick changes nothing   *)
(* but the character that is drawn.                                        *)
(***************************************************************************)
TakeNote ==
    /\ ui = "select" /\ notes > 0
    /\ notes' = notes - 1
    /\ ui' = "draw"
    /\ UNCHANGED <<selected, spin, pendingOn, early, wireVars, fetchVars,
                   pending, reqs>>

\* Mutant: the error of a disconnected channel is ignored.
DisconnectedGoesOn ==
    /\ ui = "select"
    /\ \/ fetch = "done" /\ notes = 0
       \/ close = "dropped"
    /\ ui' = "draw"
    /\ UNCHANGED <<selected, spin, pendingOn, early, wireVars, fetchVars,
                   pending, reqs, notes>>

\* A disconnected channel is ready, and its recv is an error that leaves
\* run_app: the fetcher's when its thread is over, and close_rx when run_loop
\* returned without sending.
Disconnected ==
    /\ ui = "select"
    /\ \/ fetch = "done" /\ notes = 0
       \/ close = "dropped"
    /\ ui' = "failed"
    /\ UNCHANGED <<selected, spin, pendingOn, early, wireVars, fetchVars,
                   pending, reqs, notes>>

AppClose ==
    /\ ui = "select" /\ close = "sent"
    /\ ui' = "quit"
    /\ UNCHANGED <<selected, spin, pendingOn, early, wireVars, fetchVars,
                   pending, reqs, notes>>

\* draw, spinner.set_state(any_work_pending()), and the test of do_quit.
Draw ==
    /\ ui \in {"draw", "last"}
    /\ spin' = pending
    /\ ui' = IF ui = "last" THEN "quit" ELSE "select"
    /\ UNCHANGED <<selected, pendingOn, early, wireVars, fetchVars,
                   pending, reqs, notes>>

(***************************************************************************)
(* run_loop                                                                *)
(***************************************************************************)
Connected ==
    /\ Running /\ fetch = "connect" /\ up
    /\ fetch' = "idle"
    /\ UNCHANGED <<listed, close, refused, uiVars, wireVars, pending, reqs, notes>>

\* run_loop returns an error: close_tx is dropped, and so is inner_receiver with
\* what it holds.
RunLoopFails ==
    /\ Running
    /\ fetch' = "failing"
    /\ close' = "dropped"
    /\ reqs' = <<>>
    /\ UNCHANGED <<listed, refused, uiVars, toServer, up, strays, pending, notes>>

\* connect or write_message fails,
FetchError == fetch \in {"connect", "idle"} /\ RunLoopFails /\ UNCHANGED toClient

\* or from_slice does, on what the server sent.
ReadUndecoded ==
    /\ fetch = "wait" /\ toClient # <<>> /\ Head(toClient) # "stray"
    /\ toClient' = Tail(toClient)
    /\ RunLoopFails

\* Fetcher::new's thread reports the error and ends.
ReportError ==
    /\ Running /\ fetch = "failing"
    /\ fetch' = "done"
    /\ notes' = notes + 1
    /\ UNCHANGED <<listed, close, refused, uiVars, wireVars, pending, reqs>>

SendRequest ==
    /\ Running /\ fetch = "idle" /\ reqs # <<>>
    /\ fetch' = "wait"
    /\ toServer' = Append(toServer, Head(reqs))
    /\ reqs' = Tail(reqs)
    /\ UNCHANGED <<listed, close, refused, uiVars, toClient, up, strays,
                   pending, notes>>

\* The ticker of BACKENDS_FETCHER_INTERVAL.
Poll ==
    /\ Running /\ fetch = "idle"
    /\ fetch' = "wait"
    /\ toServer' = Append(toServer, AllBackends)
    /\ UNCHANGED <<listed, close, refused, uiVars, toClient, up, strays,
                   pending, reqs, notes>>

Receives(m) ==
    /\ Running /\ fetch = "wait"
    /\ toClient # <<>> /\ Head(toClient) = m
    /\ toClient' = Tail(toClient)
    /\ fetch' = "idle"
    /\ UNCHANGED <<close, uiVars, toServer, up, strays, reqs>>

\* SwitchBackendStatus, SwitchBackendProtocol, ResetBackend: the main thread
\* is not notified.
ReadDone ==
    /\ Receives("done")
    /\ pending' = FALSE
    /\ UNCHANGED <<listed, refused, notes>>

\* Mutant: the main thread is not notified of a list either.
ReadItemsSilently ==
    /\ Receives("items")
    /\ listed' = NBackends
    /\ UNCHANGED <<refused, pending, notes>>

ReadItems ==
    /\ Receives("items")
    /\ notes < MaxNotes
    /\ listed' = NBackends
    /\ notes' = notes + 1
    /\ UNCHANGED <<refused, pending>>

\* Error: the request stays pending.
ReadError ==
    /\ Receives("error")
    /\ notes < MaxNotes
    /\ refused' = TRUE
    /\ notes' = notes + 1
    /\ UNCHANGED <<listed, pending>>

\* Text, Ping, Pong: skipped, but the loop goes on to its next request, and
\* reads the answer to this one for that one.
ReadStray ==
    /\ Receives("stray")
    /\ UNCHANGED <<listed, refused, pending, notes>>

\* Close, or an error of read_message.
ReadEnd ==
    /\ Running /\ fetch = "wait" /\ ~up
    /\ fetch' = "done"
    /\ close' = "sent"
    /\ reqs' = <<>>
    /\ UNCHANGED <<listed, refused, uiVars, wireVars, pending, notes>>

(***************************************************************************)
(* ws_handler and backend_metric_switcher                                  *)
(***************************************************************************)
\* A backend that is not there is an error; switch_protocol may fail besides.
Outcomes(r) ==
    IF r.op = "all" THEN {"items"}
    ELSE IF r.id >= NBackends THEN {"error"}
    ELSE IF r.op = "protocol" THEN {"done", "error"} ELSE {"done"}

Answer ==
    /\ Running /\ up /\ toServer # <<>>
    /\ \E a \in Outcomes(Head(toServer)) : toClient' = Append(toClient, a)
    /\ toServer' = Tail(toServer)
    /\ UNCHANGED <<up, strays, uiVars, fetchVars, pending, reqs, notes>>

\* A control message of the WebSocket; ws_handler itself sends none.
Stray ==
    /\ Running /\ up /\ fetch \notin {"connect", "done"} /\ strays < MaxStray
    /\ strays' = strays + 1
    /\ toClient' = Append(toClient, "stray")
    /\ UNCHANGED <<toServer, up, uiVars, fetchVars, pending, reqs, notes>>

\* The client ends, or its WebSocket does.
ServerGone ==
    /\ Running /\ up
    /\ up' = FALSE
    /\ UNCHANGED <<toServer, toClient, strays, uiVars, fetchVars, pending, reqs,
                   notes>>

(***************************************************************************)
(* The specification                                                       *)
(***************************************************************************)
Keys ==
    \/ SelectNext \/ SelectPrev
    \/ \E op \in Operations : Action(op)
    \/ \E next \in {"last", "draw"} : Key(next)
    \/ InputFails

Main == Send \/ TakeNote \/ Disconnected \/ AppClose \/ Draw

Read == ReadDone \/ ReadItems \/ ReadError \/ ReadStray \/ ReadEnd

Fetcher ==
    Connected \/ FetchError \/ ReportError \/ SendRequest \/ Poll \/ Read \/ ReadUndecoded

Next == Keys \/ Main \/ Fetcher \/ Answer \/ Stray \/ ServerGone

\* Both threads run.  crossbeam's Select takes one of the ready channels at
\* random, so a channel that is ready again and again is taken however many
\* keys are pressed.  connect, the keys and the answers to an operator's
\* request, which wait for locks of the backend, may never come; AllBackends
\* waits for nothing.
Fairness ==
    /\ WF_vars(Send) /\ WF_vars(Draw)
    /\ SF_vars(TakeNote) /\ SF_vars(Disconnected) /\ SF_vars(AppClose)
    /\ WF_vars(ReportError) /\ WF_vars(Poll) /\ WF_vars(Read)
    /\ WF_vars(toServer # <<>> /\ Head(toServer) = AllBackends /\ Answer)

Spec == Init /\ [][Next]_vars /\ Fairness

(***************************************************************************)
(* Properties                                                              *)
(***************************************************************************)
\* The operator's requests and their answers that are on their way, the request
\* that backend_action is about to send included.
Outstanding ==
    (IF ui \in Operations THEN 1 ELSE 0) + Len(reqs)
      + Cardinality({i \in DOMAIN toServer : toServer[i] # AllBackends})
      + Cardinality({i \in DOMAIN toClient : toClient[i] \in {"done", "error"}})

\* While run_loop runs, the flag that the two threads share says exactly whether
\* a request of the operator is on its way, and there is never more than one: it
\* is set before the request is sent, so that the fetcher's clearing comes after
\* it however fast the answer is, and cleared after the answer was read, even
\* when the fetcher reads answers later than the requests they belong to.  The
\* one exception is the Error answer, after which it stays set for good
\* (backend_action and run_loop).  And the backend that is crossed out on the
\* screen is the one that the request on its way names.
PendingExact ==
    /\ fetch \notin {"failing", "done"} =>
          Outstanding = IF pending /\ ~refused THEN 1 ELSE 0
    /\ \A r \in ToSet(reqs) \cup (ToSet(toServer) \ {AllBackends}) : r.id = pendingOn

\* Once the list is there, the selection is in it, unless it was moved while
\* the list was empty: then it can lie outside (select_next_backend and
\* select_prev_backend compute len() - 1).
SelectionInRange ==
    listed > 0 /\ ~early => selected < listed

\* When the fetcher's thread has ended, for whatever reason, the application
\* ends too and does not go on showing an old list (close_tx is used, or
\* dropped).
AppFollows ==
    fetch = "done" ~> ~Running

\* When the server has sent the answer to the operator's request, the flag is
\* cleared in the end, whatever else lies before it on the WebSocket (the
\* ticker's polls make run_loop read on); and then the spinner stops, although
\* run_loop clears the flag without telling the main thread.
AnswerShows ==
    /\ "done" \in ToSet(toClient) ~> (~pending \/ fetch = "done" \/ ~Running)
    /\ spin /\ ~pending ~> (~spin \/ pending \/ ~Running)

=============================================================================
