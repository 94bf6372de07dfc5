-------------------------- MODULE MCOrchestration --------------------------
(***************************************************************************)
(* Small instances for TLC: a workflow of one, two or three tasks, one or  *)
(* two workers, a handful of calls.                                        *)
(***************************************************************************)
EXTENDS OrchestrationClaims, OrchestrationRefinement, TLC

CONSTANTS ta, tb, tc, na, nb, nc, wf1, wf2

\* Task graphs.
Alone == ta :> {}
Pair == (ta :> {}) @@ (tb :> {ta})
Edited == (ta :> {}) @@ (tb :> {ta}) @@ (tc :> {})
Join == (ta :> {}) @@ (tb :> {}) @@ (tc :> {ta, tb})
Crossed == (ta :> {}) @@ (tb :> {}) @@ (tc :> {tb})

SingleInOneWorkflow == ta :> wf1
PairInOneWorkflow == [t \in {ta, tb} |-> wf1]
TripleInOneWorkflow == [t \in {ta, tb, tc} |-> wf1]
TripleAcross == (ta :> wf1) @@ (tb :> wf2) @@ (tc :> wf1)

SingleNames == ta :> na
PairNames == SingleNames @@ (tb :> nb)
TripleNames == PairNames @@ (tc :> nc)

\* Calls.  A result reports output exactly when it reports success.
CallOf(op, t, s, success) ==
    [op |-> op, workflow |-> wf1, task |-> t, status |-> s,
     success |-> success, output |-> success]

WorkflowCall(op) == CallOf(op, ta, "PENDING", FALSE)
TaskCall(op, t) == CallOf(op, t, "PENDING", FALSE)
StatusCall(t, s) == CallOf("status", t, s, FALSE)
ResultCall(t, s, success) == CallOf("result", t, s, success)

\* Callbacks that leave the final status to the worker.
Succeeds(t) == ResultCall(t, "RUNNING", TRUE)
Fails(t) == ResultCall(t, "RUNNING", FALSE)

JoinCalls == {WorkflowCall("start"), Succeeds(ta), Succeeds(tb)}

PauseCalls == {WorkflowCall(op) : op \in {"start", "pause", "resume", "remove"}}
                  \cup {Succeeds(ta), Succeeds(tb)}

EditCalls == {WorkflowCall("start"), WorkflowCall("remove"), CallOf("update", ta, "PAUSED", FALSE),
              TaskCall("create", tb), TaskCall("create", tc), TaskCall("delete", ta), TaskCall("delete", tb),
              StatusCall(ta, "RUNNING"), [Succeeds(ta) EXCEPT !.workflow = wf2],
              [WorkflowCall("open") EXCEPT !.workflow = wf2]}

\* Two workflows are removed while each has the result of the other's task: the
\* longest circle of two removals and two workers.
Crosswise(call1) == [call1 EXCEPT !.workflow = wf2]
CircleCalls == {WorkflowCall("remove"), Crosswise(WorkflowCall("remove")),
                Crosswise(Succeeds(ta)), Succeeds(tb),
                TaskCall("create", tc), TaskCall("delete", tb)}

ProgressCalls == {WorkflowCall("start"), StatusCall(ta, "RUNNING"), Succeeds(ta)}

CallbackCalls == {WorkflowCall("start"), StatusCall(ta, "RUNNING"),
                  ResultCall(ta, "COMPLETED", TRUE)}

ZombieCalls == {WorkflowCall("start"), StatusCall(ta, "RUNNING"),
                ResultCall(ta, "COMPLETED", TRUE)}

LatePauseCalls == {WorkflowCall("start"), WorkflowCall("pause"), Succeeds(ta)}

\* Workers are alike and so are requests; used for safety only.
Interchangeable == Permutations(Workers) \cup Permutations(Requests)
=============================================================================
