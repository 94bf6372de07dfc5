------------------------------ MODULE Planner -------------------------------
(***************************************************************************)
(* POST /workflows/{id}/plan: the planner asks a language model, for        *)
(* seconds, between its look at the workflow and its commit, while other   *)
(* planners, clients and the engine go on.  One workflow.  Only the        *)
(* planner is taken apart into statements; a client's request and a job of *)
(* the engine are one step each (Api and Engine have their statements, the *)
(* failures of jobs, and results that name a workflow not their own).      *)
(*                                                                         *)
(* A row is <<a, i>>: the i-th task that planner or client a inserts.      *)
(***************************************************************************)
EXTENDS Plan, Dag

CONSTANTS
    Planners,   \* requests for a plan, each made at most once
    Clients,    \* requests that create a task, each made at most once
    MaxDefs,    \* bound: definitions in a plan
    Plans,      \* what the language model may answer
    WorkflowPatches,    \* statuses clients PATCH the workflow to
    TaskPatches,        \* statuses clients and callbacks write to a task
    MaxDue,     \* bound: evaluations in the queue at a time
    Defects     \* which of PlannerDefects are present

(***************************************************************************)
(* Places where the committed code raises whenever it is reached.          *)
(***************************************************************************)
PlannerDefects ==
    {"lazy_load",        \* endpoints/planner.py:55, workflow_service.py:142
     "direct_message"}   \* planner_service.py:45: arguments create lacks

ASSUME PlannerAssumption ==
    /\ Planners \cap Clients = {}
    /\ MaxDefs \in Nat \ {0}
    /\ Plans \subseteq {plan \in Plan : Len(plan) <= MaxDefs}
    /\ WorkflowPatches \subseteq Status
    /\ TaskPatches \subseteq Status
    /\ MaxDue \in Nat
    /\ Defects \subseteq PlannerDefects

VARIABLES
    wstatus,    \* the workflow row's status, or "DELETED"
    status,     \* task row -> its status, "UNCREATED" or "DELETED"
    edges,      \* <<upstream, downstream>> rows of task_dependencies
    due,        \* number of evaluations of the workflow that are to come
    phase       \* planner or client -> where its request is

vars == <<wstatus, status, edges, due, phase>>

Row == (Planners \cup Clients) \X (1 .. MaxDefs)

\* A task with an agent, or set aside by a client.
Begun == {"QUEUED", "RUNNING", "PAUSED"}

RowsThere == {t \in Row : status[t] \notin NoRowStatus}
UpstreamOf == [t \in Row |-> {u \in Row : <<u, t>> \in edges}]

TypeOK ==
    /\ wstatus \in Status \cup {"DELETED"}
    /\ status \in [Row -> {"PENDING"} \cup Begun \cup Terminal \cup NoRowStatus]
    /\ edges \subseteq RowsThere \X RowsThere
    /\ due \in Nat
    /\ phase \in [Planners \cup Clients -> {"check", "asked", "done"}]

Init ==
    /\ wstatus = "PENDING"
    /\ status = [t \in Row |-> "UNCREATED"]
    /\ edges = {}
    /\ due = 0
    /\ phase = [a \in Planners \cup Clients |-> "check"]

Goto(a, s) == phase' = [phase EXCEPT ![a] = s]

-----------------------------------------------------------------------------
(* The planner.                                                            *)

Plannable ==
    wstatus = "PENDING" /\ "lazy_load" \notin Defects /\ RowsThere = {}

\* The workflow is PENDING and has no tasks; the language model is asked.
Generate_Check(p) ==
    /\ phase[p] = "check"
    /\ Plannable
    /\ Goto(p, "asked")
    /\ UNCHANGED <<wstatus, status, edges, due>>

\* 404, 409 or the error of the lazy load.
Generate_Refuse(p) ==
    /\ phase[p] = "check"
    /\ ~Plannable
    /\ Goto(p, "done")
    /\ UNCHANGED <<wstatus, status, edges, due>>

\* The model fails or returns no tasks (502), the plan is not valid (422), or
\* the INSERT fails because of a clash or because the workflow is gone.
Generate_Fail(p) ==
    /\ phase[p] = "asked"
    /\ Goto(p, "done")
    /\ UNCHANGED <<wstatus, status, edges, due>>

\* The rows and edges of a valid plan are inserted in one transaction.  Nothing
\* looks at the workflow again.
Generate_Persist(p) ==
    /\ phase[p] = "asked"
    /\ wstatus # "DELETED"
    /\ \E plan \in Plans :
        /\ plan # <<>> /\ Validated(plan) /\ ~Clash(plan)
        /\ status' = [t \in Row |-> IF t[1] = p /\ t[2] \in DOMAIN plan
                                    THEN "PENDING" ELSE status[t]]
        /\ edges' = edges \cup {<<<<p, e[1]>>, <<p, e[2]>>>> : e \in SavedEdges(plan)}
    /\ Goto(p, "done")
    /\ UNCHANGED <<wstatus, due>>

\* The model answers directly, with a plan that is ignored but not empty: a
\* message is stored (see Messages) and the workflow's status is written by id.
Generate_Direct(p) ==
    /\ phase[p] = "asked"
    /\ wstatus # "DELETED"
    /\ "direct_message" \notin Defects
    /\ wstatus' = "COMPLETED"
    /\ Goto(p, "done")
    /\ UNCHANGED <<status, edges, due>>

-----------------------------------------------------------------------------
(* Clients (see Api for the statements of these requests).                 *)

CreateTask(c) ==
    /\ phase[c] = "check"
    /\ wstatus \notin Terminal \cup {"DELETED"}
    /\ status' = [status EXCEPT ![<<c, 1>>] = "PENDING"]
    /\ \E deps \in SUBSET RowsThere : edges' = edges \cup {<<u, <<c, 1>>>> : u \in deps}
    /\ Goto(c, "done")
    /\ UNCHANGED <<wstatus, due>>

\* An evaluation of the workflow is queued.
Announce == due < MaxDue /\ due' = due + 1

StartWorkflow ==
    /\ wstatus = "PENDING"
    /\ "lazy_load" \notin Defects
    /\ RowsThere # {}
    /\ Announce
    /\ UNCHANGED <<wstatus, status, edges, phase>>

\* From PENDING as well, and whether there are tasks or not.
ResumeWorkflow ==
    /\ <<wstatus, "RUNNING">> \in WorkflowTransitions
    /\ wstatus' = "RUNNING"
    /\ Announce
    /\ UNCHANGED <<status, edges, phase>>

PauseWorkflow ==
    /\ <<wstatus, "PAUSED">> \in WorkflowTransitions
    /\ wstatus' = "PAUSED"
    /\ UNCHANGED <<status, edges, due, phase>>

\* PATCH: any status unless the workflow has ended, and no evaluation.
UpdateWorkflow(s) ==
    /\ wstatus \notin Terminal \cup {"DELETED"}
    /\ wstatus' = s
    /\ UNCHANGED <<status, edges, due, phase>>

RemoveWorkflow_KeepsEdges ==
    /\ wstatus \notin {"RUNNING", "DELETED"}
    /\ wstatus' = "DELETED"
    /\ status' = [t \in Row |-> IF t \in RowsThere THEN "DELETED" ELSE status[t]]
    /\ UNCHANGED <<edges, due, phase>>

\* The rows go with their edges, ON DELETE CASCADE.
RemoveWorkflow ==
    /\ wstatus \notin {"RUNNING", "DELETED"}
    /\ wstatus' = "DELETED"
    /\ status' = [t \in Row |-> IF t \in RowsThere THEN "DELETED" ELSE status[t]]
    /\ edges' = {}
    /\ UNCHANGED <<due, phase>>

\* PATCH of a task's status; and the callback of an agent that ends the task
\* itself, for the worker then returns before it evaluates.
UpdateStatus(t, s) ==
    /\ <<status[t], s>> \in TaskTransitions
    /\ status' = [status EXCEPT ![t] = s]
    /\ UNCHANGED <<wstatus, edges, due, phase>>

DeleteTask(t) ==
    /\ t \in RowsThere
    /\ status[t] \notin {"RUNNING", "QUEUED"}
    /\ status' = [status EXCEPT ![t] = "DELETED"]
    /\ edges' = {e \in edges : t \notin {e[1], e[2]}}
    /\ UNCHANGED <<wstatus, due, phase>>

\* What POST validate-dag answers of the rows.
ValidateDag == Acyclic(RowsThere, edges)

-----------------------------------------------------------------------------
(* The engine.                                                             *)

\* One evaluation: verdict, or dispatch of what is ready.
Evaluate ==
    LET outcome == Verdict(RowsThere, status)
        ready == IF outcome = "NONE" THEN Ready(RowsThere, status, UpstreamOf) ELSE {}
    IN  /\ due > 0
        /\ due' = due - 1
        /\ IF wstatus \notin Active THEN UNCHANGED <<wstatus, status>>
           ELSE /\ wstatus' = IF outcome # "NONE" THEN outcome
                              ELSE IF ready # {} THEN "RUNNING" ELSE wstatus
                /\ status' = [t \in Row |-> IF t \in ready THEN "QUEUED" ELSE status[t]]
        /\ UNCHANGED <<edges, phase>>

\* A result of t, an agent's or the reaper's, is merged, and an evaluation
\* follows.  A result of a task that has ended is dropped: no step.
Finish(t, s) ==
    /\ t \in RowsThere
    /\ status[t] \notin Terminal
    /\ status' = [status EXCEPT ![t] = s]
    /\ Announce
    /\ UNCHANGED <<wstatus, edges, phase>>

-----------------------------------------------------------------------------
Quiescent ==
    /\ wstatus = "DELETED"
    /\ due = 0
    /\ \A p \in Planners : phase[p] = "done"
    /\ UNCHANGED vars

Next ==
    \* planners
    \/ \E p \in Planners : \/ Generate_Check(p) \/ Generate_Refuse(p) \/ Generate_Fail(p)
                           \/ Generate_Persist(p) \/ Generate_Direct(p)
    \* clients
    \/ \E c \in Clients : CreateTask(c)
    \/ \E t \in Row : DeleteTask(t) \/ \E s \in TaskPatches : UpdateStatus(t, s)
    \/ StartWorkflow \/ PauseWorkflow \/ ResumeWorkflow \/ RemoveWorkflow
    \/ \E s \in WorkflowPatches : UpdateWorkflow(s)
    \* the engine
    \/ Evaluate
    \/ \E t \in Row, s \in {"COMPLETED", "FAILED"} : Finish(t, s)
    \/ Quiescent

Spec == Init /\ [][Next]_vars

-----------------------------------------------------------------------------
(* Properties.                                                             *)

\* planner_service.py:97-101, "ensure the LLM didn't create cyclic
\* dependencies": the graph in the database stays acyclic whatever planners and
\* clients insert and delete at the same time, so validate-dag never refuses it
\* (task_service.py:161-181).
SavedGraphIsAcyclic == ValidateDag

\* The workflow is RUNNING, but no evaluation is to come and nobody has a task.
Idle == wstatus = "RUNNING" /\ due = 0 /\ \A t \in Row : status[t] \notin Begun

\* ... although it has tasks.  Start and resume are refused, so it stays so
\* until a client pauses it or writes a status.
Stalled == Idle /\ RowsThere # {}

\* A client ended or deleted a task that had begun, and nobody evaluates.
TakenAway(t) ==
    /\ status[t] \in Begun
    /\ <<status[t], status'[t]>> \in TaskTransitions \/ status'[t] = "DELETED"

\* No evaluation and no result leaves a RUNNING workflow stalled: among tasks
\* that nobody has begun one is ready, or the verdict is due, as no tasks wait
\* for each other, late plans and deleted tasks included.  A workflow stalls
\* only by a client who ends or deletes the last task that had begun or PATCHes
\* the workflow to RUNNING, or when tasks arrive after an evaluation has found
\* none (orchestration_engine.py:48-83, 158, endpoints/planner.py:47-64).
EvaluationsLeaveWork ==
    [][~Stalled /\ Stalled' =>
          \/ Idle /\ RowsThere = {}
          \/ wstatus # "RUNNING" /\ due = 0
          \/ due = 0 /\ \E t \in Row : TakenAway(t)]_vars
=============================================================================
