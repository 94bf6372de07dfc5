------------------------- MODULE OrchestrationClaims -------------------------
(***************************************************************************)
(* What docstrings and comments of the code say of it, stated over the     *)
(* model, where the code does otherwise.  Each is refuted by a run that    *)
(* expects a violation; README.md describes the counterexamples.           *)
(***************************************************************************)
EXTENDS Orchestration

\* orchestration_engine.py:121-122, the "Idempotency safety mechanism": the
\* merge of a result never changes how a task has ended.
TerminalTaskIsFinal ==
    [][\A w \in Workers :
          pc[w] = "merge" /\ pc'[w] = "advance" /\ status[job[w].task] \in Terminal
              => status'[job[w].task] = status[job[w].task]]_vars

\* workflow_service.py:37-38: no transition leaves COMPLETED or FAILED.
TerminalWorkflowIsFinal ==
    [][\A wf \in Workflows : wstatus[wf] \in Terminal
                                 => wstatus'[wf] = wstatus[wf]]_vars
=============================================================================
