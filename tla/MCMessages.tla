----------------------------- MODULE MCMessages -----------------------------
(***************************************************************************)
(* A small instance for TLC: an agent's post of a task's message and two   *)
(* retries of it under one key, one post without a key to the same task,   *)
(* and one under the agent's key in another workflow.                      *)
(***************************************************************************)
EXTENDS Messages, TLC

CONSTANTS p1, p2, p3, free, other, wf1, wf2, ta, k

TaskRows == ta :> wf1
Urls == [p \in {p1, p2, p3, free} |-> wf1] @@ (other :> wf2)
KeyColumn == [p \in {p1, p2, p3, other} |-> k] @@ (free :> NoKey)
TaskColumn == [p \in {p1, p2, free} |-> ta] @@ [p \in {p3, other} |-> NoTask]
=============================================================================
