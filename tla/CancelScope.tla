----------------------------- MODULE CancelScope -----------------------------
(***************************************************************************)
(* What a backend's cancellation token promises, with nothing said of how: *)
(* work runs in numbered scopes, one open at a time.  A job joins the      *)
(* scope that is current when it begins; a scope can be told to close,     *)
(* which stops nobody from joining; and the next scope begins only when no *)
(* job is left in the present one.  So work of two scopes never runs side  *)
(* by side, and no job outlives its scope.                                 *)
(***************************************************************************)
EXTENDS Naturals

CONSTANT Jobs

VARIABLES
    scope,      \* the number of the current scope
    closing,    \* whether the current scope was told to close
    running     \* the pairs <<job, the scope it joined>>

vars == <<scope, closing, running>>

Init ==
    /\ scope = 0
    /\ closing = FALSE
    /\ running = {}

Begin(j) ==
    /\ \A p \in running : p[1] # j
    /\ running' = running \cup {<<j, scope>>}
    /\ UNCHANGED <<scope, closing>>

End(j) ==
    /\ <<j, scope>> \in running
    /\ running' = running \ {<<j, scope>>}
    /\ UNCHANGED <<scope, closing>>

Close ==
    /\ closing' = TRUE
    /\ UNCHANGED <<scope, running>>

Renew ==
    /\ running = {}
    /\ scope' = scope + 1
    /\ closing' = FALSE
    /\ UNCHANGED running

Next == Close \/ Renew \/ \E j \in Jobs : Begin(j) \/ End(j)

Spec == Init /\ [][Next]_vars

=============================================================================
