---------------------------- MODULE DagExecution ----------------------------
(***************************************************************************)
(* What the service promises the people who run workflows on it, without   *)
(* queues, workers, sessions, locks, requests or retries: agents are sent  *)
(* the tasks of active workflows in dependency order, once per attempt,    *)
(* and no output is forgotten.  Orchestration implements it (see           *)
(* OrchestrationRefinement).                                               *)
(***************************************************************************)
EXTENDS Naturals

CONSTANTS Workflows, Tasks, Names, WorkflowOf, Upstream, NameOf, NoTask

VARIABLES
    active,      \* workflows that agents may be sent work for
    done,        \* tasks that were completed at some moment
    gone,        \* tasks that were deleted
    memory,      \* workflow -> key -> the task whose output is remembered
    dispatched,  \* task -> how often agents were sent it
    withdrawn    \* task -> how often a dispatch was withdrawn

vars == <<active, done, gone, memory, dispatched, withdrawn>>

Init ==
    /\ active \subseteq Workflows
    /\ done = {}
    /\ gone = {}
    /\ memory = [wf \in Workflows |-> [n \in Names |-> NoTask]]
    /\ dispatched = [t \in Tasks |-> 0]
    /\ withdrawn = [t \in Tasks |-> 0]

\* An agent is sent t, when everything t waits for is done or gone and every
\* earlier dispatch of t has been withdrawn.
Dispatch(t) ==
    /\ WorkflowOf[t] \in active
    /\ Upstream[t] \subseteq done \cup gone
    /\ dispatched[t] <= withdrawn[t]
    /\ dispatched' = [dispatched EXCEPT ![t] = @ + 1]
    /\ UNCHANGED <<active, done, gone, memory, withdrawn>>

\* The transaction that dispatched the tasks S is rolled back.
Withdraw(S) ==
    /\ \A t \in S : withdrawn[t] < dispatched[t]
    /\ withdrawn' = [t \in Tasks |-> IF t \in S THEN withdrawn[t] + 1 ELSE withdrawn[t]]
    /\ UNCHANGED <<active, done, gone, memory, dispatched>>

\* A task is completed.
Complete(t) ==
    /\ done' = done \cup {t}
    /\ UNCHANGED <<active, gone, memory, dispatched, withdrawn>>

\* ... with an output, which replaces nothing but an output of the same name.
CompleteWithOutput(t, wf) ==
    /\ done' = done \cup {t}
    /\ memory' = [memory EXCEPT ![wf][NameOf[t]] = t]
    /\ UNCHANGED <<active, gone, dispatched, withdrawn>>

\* A workflow is started, paused, resumed or ended.
Switch(wf) ==
    /\ active' \in {active \cup {wf}, active \ {wf}}
    /\ UNCHANGED <<done, gone, memory, dispatched, withdrawn>>

DeleteTask(t) ==
    /\ gone' = gone \cup {t}
    /\ UNCHANGED <<active, done, memory, dispatched, withdrawn>>

\* A workflow is removed with tasks of its own.
RemoveWorkflow(wf, S) ==
    /\ \A t \in S : WorkflowOf[t] = wf
    /\ active' = active \ {wf}
    /\ gone' = gone \cup S
    /\ UNCHANGED <<done, memory, dispatched, withdrawn>>

Next ==
    \/ \E t \in Tasks : Dispatch(t) \/ Complete(t) \/ DeleteTask(t)
    \/ \E t \in Tasks, wf \in Workflows : CompleteWithOutput(t, wf)
    \/ \E wf \in Workflows : Switch(wf)
    \/ \E S \in SUBSET Tasks : Withdraw(S)
    \/ \E wf \in Workflows, S \in SUBSET Tasks : RemoveWorkflow(wf, S)

Spec == Init /\ [][Next]_vars
=============================================================================
