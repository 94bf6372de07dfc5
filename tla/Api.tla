--------------------------------- MODULE Api --------------------------------
(***************************************************************************)
(* The HTTP endpoints and the services behind them.  A request reads and   *)
(* checks without a lock, later flushes its UPDATE, INSERT or DELETE (which *)
(* takes the row lock), publishes its event, and commits last of all, when *)
(* get_db_session resumes after the handler has returned.                  *)
(*                                                                         *)
(*   idle -> checked -> [removing ->] flushed -> done   (or done at once)  *)
(***************************************************************************)
EXTENDS Store

CONSTANTS
    Calls,      \* the calls clients may make, a set of Call records
    NoCall

VARIABLES
    phase,      \* request -> how far it is
    call        \* request -> what it asks for

apiVars == <<phase, call>>

TaskStatusOps == {"status", "result"}
WorkflowStatusOps == {"pause", "resume", "update"}
WorkflowOps == WorkflowStatusOps \cup {"open", "remove"}
Ops == TaskStatusOps \cup WorkflowOps \cup {"create", "delete", "start"}

\* workflow is the id in the URL; the fields an operation has no use for are
\* there and ignored.
Call == [op : Ops, workflow : Workflows, task : Tasks, status : Status,
         success : BOOLEAN, output : BOOLEAN]

ASSUME CallsAssumption == Calls \subseteq Call /\ NoCall \notin Calls

\* "removing": the tasks of the workflow are deleted, the workflow is not yet.
\* "raising": an exception is on its way to get_db_session's rollback.
Phases == {"idle", "checked", "removing", "flushed", "raising", "done"}

\* The phases in which a request's transaction has written something.
Writing == {"removing", "flushed", "raising"}

InitApi ==
    /\ phase = [r \in Requests |-> "idle"]
    /\ call = [r \in Requests |-> NoCall]

ApiTypeOK ==
    /\ phase \in [Requests -> Phases]
    /\ call \in [Requests -> Calls \cup {NoCall}]

\* A request arrives with call c; accepted is what its unlocked reads decide.
Arrive(r, c, accepted) ==
    /\ phase[r] = "idle"
    /\ call' = [call EXCEPT ![r] = c]
    /\ phase' = [phase EXCEPT ![r] = IF accepted THEN "checked" ELSE "done"]

Proceed(r, p) == phase' = [phase EXCEPT ![r] = p]

\* Only after the statement has run does log.info raise.
AfterFlush == IF "log_kwargs" \in Defects THEN "raising" ELSE "flushed"

-----------------------------------------------------------------------------
(* Task status: PATCH /tasks/{id}/status and POST /tasks/{id}/result       *)

UpdateStatus_Check(r) ==
    /\ \E c \in Calls :
          /\ c.op \in TaskStatusOps
          /\ Arrive(r, c, <<status[c.task], c.status>> \in TaskTransitions)
    /\ UNCHANGED storeVars

\* The UPDATE finds no row or is refused, or it locks the row; the callback
\* then publishes TASK_FINISHED with the workflow id of its URL, unchecked.
UpdateStatus_Flush(r) ==
    LET c == call[r]
    IN  /\ phase[r] = "checked"
        /\ c.op \in TaskStatusOps
        /\ tlock[c.task] = Nobody
        /\ \/ /\ status[c.task] = "DELETED" \/ ~Storable(c.status)
              /\ Proceed(r, "done")
              /\ UNCHANGED <<tlock, queue>>
           \/ /\ status[c.task] # "DELETED" /\ Storable(c.status)
              /\ tlock' = [tlock EXCEPT ![c.task] = r]
              /\ Proceed(r, AfterFlush)
              /\ queue' = IF c.op = "result" /\ AfterFlush = "flushed"
                          THEN Enqueued(Result(c.workflow, c.task,
                                               c.success, c.output))
                          ELSE queue
        /\ UNCHANGED <<rows, wlock, keyShare, history, call>>

-----------------------------------------------------------------------------
(* POST /tasks and DELETE /tasks/{id}                                      *)

\* The id is a fresh uuid: no other request is creating the same task.
CreateTask_Check(r) ==
    /\ \E c \in Calls :
          /\ c.op = "create"
          /\ status[c.task] = "UNCREATED"
          /\ WorkflowOf[c.task] = c.workflow
          /\ \A q \in Requests \ {r} : ~(call[q] # NoCall /\ call[q].op = "create"
                                         /\ call[q].task = c.task)
          /\ Arrive(r, c, /\ WorkflowExists(c.workflow)
                          /\ wstatus[c.workflow] \notin Terminal
                          /\ \A u \in Upstream[c.task] : TaskExists(u))
    /\ UNCHANGED storeVars

Deleting(t) == tlock[t] \in Requests /\ call[tlock[t]].op \in {"delete", "remove"}

Removing_Unseen(wf) == FALSE

Removing(wf) == wlock[wf] \in Requests /\ call[wlock[wf]].op = "remove"

Referencing_Unconstrained(t) == FALSE

Referencing(t) == \E q \in Requests : /\ phase[q] \in Writing
                                      /\ call[q].op = "create"
                                      /\ t \in Upstream[call[q].task]

\* The foreign keys lock the workflow and the upstream rows FOR KEY SHARE,
\* which waits for FOR UPDATE and DELETE but not for UPDATE, and refuse the
\* INSERT if one of them is gone.
CreateTask_Flush(r) ==
    LET c == call[r]
    IN  /\ phase[r] = "checked"
        /\ c.op = "create"
        /\ wlock[c.workflow] \notin Workers /\ ~Removing(c.workflow)
        /\ \A u \in Upstream[c.task] : ~Deleting(u)
        /\ \/ /\ \/ ~WorkflowExists(c.workflow)
                 \/ \E u \in Upstream[c.task] : ~TaskExists(u)
              /\ Proceed(r, "done")
              /\ keyShare' = keyShare
           \/ /\ WorkflowExists(c.workflow)
              /\ \A u \in Upstream[c.task] : TaskExists(u)
              /\ keyShare' = [keyShare EXCEPT ![c.workflow] = @ \cup {r}]
              /\ Proceed(r, AfterFlush)
        /\ UNCHANGED <<rows, wlock, tlock, queue, history, call>>

DeleteTask_Check(r) ==
    /\ \E c \in Calls :
          /\ c.op = "delete"
          /\ Arrive(r, c, /\ TaskExists(c.task)
                          /\ status[c.task] \notin {"RUNNING", "QUEUED"})
    /\ UNCHANGED storeVars

\* A DELETE that finds no row is only a warning.
DeleteTask_Flush(r) ==
    LET t == call[r].task
    IN  /\ phase[r] = "checked"
        /\ call[r].op = "delete"
        /\ tlock[t] = Nobody
        /\ ~Referencing(t)
        /\ IF TaskExists(t)
           THEN Proceed(r, "flushed") /\ tlock' = [tlock EXCEPT ![t] = r]
           ELSE Proceed(r, "done") /\ tlock' = tlock
        /\ UNCHANGED <<rows, wlock, keyShare, queue, history, call>>

-----------------------------------------------------------------------------
(* POST /workflows, /start, /pause, /resume and PATCH /workflows/{id}      *)

\* The id is a fresh uuid, and nobody else sees the row before the commit.
CreateWorkflow(r) ==
    /\ \E c \in Calls :
          /\ c.op = "open"
          /\ wstatus[c.workflow] = "UNCREATED" /\ wlock[c.workflow] = Nobody
          /\ phase[r] = "idle"
          /\ call' = [call EXCEPT ![r] = c]
          /\ Proceed(r, AfterFlush)
          /\ wlock' = [wlock EXCEPT ![c.workflow] = r]
    /\ UNCHANGED <<rows, keyShare, tlock, queue, history>>

\* start writes nothing: it publishes and returns.
StartWorkflow(r) ==
    /\ \E c \in Calls :
          LET accepted == /\ wstatus[c.workflow] = "PENDING"
                          /\ "lazy_load" \notin Defects
                          /\ TasksOf(c.workflow) # {}
          IN  /\ c.op = "start"
              /\ phase[r] = "idle"
              /\ call' = [call EXCEPT ![r] = c]
              /\ Proceed(r, "done")
              /\ queue' = IF accepted THEN Enqueued(Advance(c.workflow)) ELSE queue
    /\ UNCHANGED <<rows, locks, history>>

TargetStatus(c) == CASE c.op = "pause" -> "PAUSED"
                     [] c.op = "resume" -> "RUNNING"
                     [] OTHER -> c.status

\* PATCH accepts any status unless the workflow is terminal; an unchanged
\* status makes no UPDATE.
Transition_Check(r) ==
    /\ \E c \in Calls :
          LET from == wstatus[c.workflow]
              to == TargetStatus(c)
          IN  /\ c.op \in WorkflowStatusOps
              /\ Arrive(r, c, IF c.op = "update"
                              THEN /\ WorkflowExists(c.workflow)
                                   /\ from \notin Terminal /\ to # from
                              ELSE <<from, to>> \in WorkflowTransitions)
    /\ UNCHANGED storeVars

\* The UPDATE finds no row (StaleDataError) or is refused, or it locks the row.
\* WORKFLOW_RESUMED is published under that lock, before the commit.
Transition_Flush(r) ==
    LET c == call[r]
    IN  /\ phase[r] = "checked"
        /\ c.op \in WorkflowStatusOps
        /\ wlock[c.workflow] = Nobody
        /\ \/ /\ ~WorkflowExists(c.workflow) \/ ~Storable(TargetStatus(c))
              /\ Proceed(r, "done")
              /\ UNCHANGED <<wlock, queue>>
           \/ /\ WorkflowExists(c.workflow) /\ Storable(TargetStatus(c))
              /\ wlock' = [wlock EXCEPT ![c.workflow] = r]
              /\ Proceed(r, IF c.op = "update" THEN "flushed" ELSE AfterFlush)
              /\ queue' = IF c.op = "resume" /\ AfterFlush = "flushed"
                          THEN Enqueued(Advance(c.workflow)) ELSE queue
        /\ UNCHANGED <<rows, keyShare, tlock, history, call>>

-----------------------------------------------------------------------------
(* DELETE /workflows/{id}.  The ORM deletes the task rows it has loaded and *)
(* then the workflow row; the engine locks in the opposite order.          *)

RemoveWorkflow_Check(r) ==
    /\ \E c \in Calls :
          /\ c.op = "remove"
          /\ Arrive(r, c, /\ WorkflowExists(c.workflow)
                          /\ wstatus[c.workflow] # "RUNNING")
    /\ UNCHANGED storeVars

\* The rows DELETE may lock for r: nobody writes them or refers to them.
Deletable(r, T) == \A t \in T : tlock[t] \in {Nobody, r} /\ ~Referencing(t)

LockedAlso(r, T) == [t \in Tasks |-> IF t \in T THEN r ELSE tlock[t]]

RemoveWorkflow_Tasks(r) ==
    LET T == TasksOf(call[r].workflow)
    IN  /\ phase[r] = "checked"
        /\ call[r].op = "remove"
        /\ Deletable(r, T)
        /\ tlock' = LockedAlso(r, T)
        /\ Proceed(r, "removing")
        /\ UNCHANGED <<rows, wlock, keyShare, queue, history, call>>

\* ON DELETE CASCADE takes the tasks inserted since as well.  Somebody else
\* may have removed the workflow meanwhile; log.info comes last either way.
RemoveWorkflow_Row(r) ==
    LET wf == call[r].workflow
        T == TasksOf(wf)
    IN  /\ phase[r] = "removing"
        /\ ForUpdateFree(wf)
        /\ Deletable(r, T)
        /\ wlock' = [wlock EXCEPT ![wf] = r]
        /\ tlock' = LockedAlso(r, T)
        /\ Proceed(r, AfterFlush)
        /\ UNCHANGED <<rows, keyShare, queue, history, call>>

-----------------------------------------------------------------------------
(* The end of the request's transaction: get_db_session                    *)

Release(r) ==
    /\ wlock' = WithoutWorkflowLock(r)
    /\ keyShare' = [wf \in Workflows |-> keyShare[wf] \ {r}]
    /\ tlock' = [t \in Tasks |-> IF tlock[t] = r THEN Nobody ELSE tlock[t]]
    /\ Proceed(r, "done")

NewTaskStatus(c) == CASE c.op = "create" -> "PENDING"
                      [] c.op = "delete" -> "DELETED"
                      [] OTHER -> c.status

NewWorkflowStatus(c) == CASE c.op = "open" -> "PENDING"
                          [] c.op = "remove" -> "DELETED"
                          [] OTHER -> TargetStatus(c)

Commit(r) ==
    LET c == call[r]
    IN  /\ phase[r] = "flushed"
        /\ IF c.op \in WorkflowOps
           THEN /\ wstatus' = [wstatus EXCEPT ![c.workflow] = NewWorkflowStatus(c)]
                /\ status' = [t \in Tasks |-> IF c.op = "remove" /\ tlock[t] = r
                                              THEN "DELETED" ELSE status[t]]
                /\ UNCHANGED completed
           ELSE /\ status' = [status EXCEPT ![c.task] = NewTaskStatus(c)]
                /\ completed' = IF NewTaskStatus(c) = "COMPLETED"
                                THEN completed \cup {c.task} ELSE completed
                /\ UNCHANGED wstatus
        /\ Release(r)
        /\ UNCHANGED <<context, queue, recorded, published, aborts, call>>

\* The client disconnects, the statement or the commit fails, or log.info raised.
Rollback(r) ==
    /\ phase[r] \in Writing
    /\ Release(r)
    /\ UNCHANGED <<rows, queue, history, call>>

NextApi ==
    \E r \in Requests :
        \/ UpdateStatus_Check(r) \/ UpdateStatus_Flush(r)
        \/ CreateTask_Check(r) \/ CreateTask_Flush(r)
        \/ DeleteTask_Check(r) \/ DeleteTask_Flush(r)
        \/ CreateWorkflow(r) \/ StartWorkflow(r)
        \/ Transition_Check(r) \/ Transition_Flush(r)
        \/ RemoveWorkflow_Check(r) \/ RemoveWorkflow_Tasks(r) \/ RemoveWorkflow_Row(r)
        \/ Commit(r) \/ Rollback(r)
=============================================================================
