-------------------------------- MODULE Dag --------------------------------
(***************************************************************************)
(* What the engine computes from one reading of a workflow's task graph:   *)
(* T is the set of its task rows, s the status read for each task and up   *)
(* the upstream tasks loaded for each.  Pure operators, no state.          *)
(*                                                                         *)
(* Here and elsewhere an operator X_Y, placed before X, is X with the      *)
(* plausible mistake Y in it; nothing uses it but tests of the properties. *)
(***************************************************************************)
EXTENDS ExecutionStatus

DepsMet_Started(s, deps) == \A u \in deps : s[u] # "PENDING"
DepsMet(s, deps) == \A u \in deps : s[u] = "COMPLETED"

Ready_Unended(T, s, up) == {t \in T : s[t] \notin Terminal /\ DepsMet(s, up[t])}
Ready(T, s, up) == {t \in T : s[t] = "PENDING" /\ DepsMet(s, up[t])}

AnyFailed_Every(T, s) == \A t \in T : s[t] = "FAILED"
AnyFailed(T, s) == \E t \in T : s[t] = "FAILED"

AllCompleted_NonePending(T, s) == T # {} /\ \A t \in T : s[t] # "PENDING"

\* A FAILED task does not clear the flag all_completed: the engine never
\* looks at the flag when some task has FAILED.
AllCompleted(T, s) == T # {} /\ \A t \in T : s[t] \in Terminal

\* The status the evaluation gives the workflow, or "NONE" when it goes on.
Verdict(T, s) ==
    IF AnyFailed(T, s) THEN "FAILED"
    ELSE IF AllCompleted(T, s) THEN "COMPLETED"
    ELSE "NONE"
=============================================================================
