----------------------- MODULE OrchestrationRefinement -----------------------
(***************************************************************************)
(* The service implements DagExecution: what clients and agents can see of *)
(* rows, events and outputs is a behaviour of the abstract specification.  *)
(***************************************************************************)
EXTENDS Orchestration

Abstract == INSTANCE DagExecution WITH
    active <- {wf \in Workflows : wstatus[wf] \in Active},
    done <- completed,
    gone <- {t \in Tasks : status[t] = "DELETED"},
    memory <- context,
    dispatched <- published,
    withdrawn <- aborts

\* Every step of a worker, a request or a fault is a step of DagExecution or
\* changes nothing it speaks of: the engine decides on rows it read earlier and
\* merges into an object it read earlier (orchestration_engine.py:27-101,
\* 116-158), and what it does is still what was promised at that moment.
ExecutesDag == Abstract!Spec
=============================================================================
