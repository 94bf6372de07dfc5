--------------------------- MODULE TaskRowProofs ---------------------------
(***************************************************************************)
(* The life of a task row: once inserted it is never UNCREATED again, once *)
(* deleted it stays deleted, and it is PENDING only from its INSERT on.    *)
(* The services check without a lock and write later, so each of these is  *)
(* a race between a check, a flush and somebody else's commit.             *)
(***************************************************************************)
EXTENDS OrchestrationProofs

RowOps == TaskStatusOps \cup {"delete"}

Underway(r) == phase[r] \in Writing \cup {"checked"}

\* What a worker is about to write has a row, or had one.
WorkerRows(w) ==
    /\ pc[w] \in {"lock", "merge"} => status[job[w].task] # "UNCREATED"
    /\ \A t \in batch[w] : status[t] # "UNCREATED"

RequestRows(r) ==
    /\ phase[r] = "idle" => call[r] = NoCall
    /\ Underway(r) => call[r].op # "start"
    /\ Underway(r) /\ call[r].op \in RowOps => status[call[r].task] # "UNCREATED"
    /\ Underway(r) /\ call[r].op \in TaskStatusOps => call[r].status # "PENDING"
    /\ Underway(r) /\ call[r].op = "create" => status[call[r].task] = "UNCREATED"
    /\ phase[r] = "flushed" /\ call[r].op \in RowOps =>
          tlock[call[r].task] = r /\ status[call[r].task] # "DELETED"
    /\ phase[r] = "flushed" /\ call[r].op = "create" =>
          \A u \in Upstream[call[r].task] : status[u] # "UNCREATED"

Creating(r) == call[r] # NoCall /\ call[r].op = "create"

RowInv ==
    /\ \A w \in Workers : WorkerRows(w)
    /\ \A r \in Requests : RequestRows(r)
    /\ \A q, r \in Requests :
          q # r /\ Creating(q) /\ Creating(r) => call[q].task # call[r].task
    /\ \A t \in Tasks : status[t] # "UNCREATED" =>
          \A u \in Upstream[t] : status[u] # "UNCREATED"
    /\ \A t \in Tasks : tlock[t] # Nobody => status[t] # "UNCREATED"

\* The invariant holds initially: a task of the instance has its upstream rows.
LEMMA RowInit == Init => RowInv
BY ConstantsAssumption
   DEF Init, InitStore, InitEngine, InitApi, RowInv, WorkerRows, RequestRows,
       Underway, Writing, Creating

\* Only three steps write task rows: the commits of a result, of an
\* evaluation and of a request.
LEMMA StatusWriters ==
    ASSUME [Next]_vars
    PROVE  \/ UNCHANGED <<status, completed>>
           \/ \E w \in Workers : HandleTaskResult_Commit(w) /\ UNCHANGED apiVars
           \/ \E w \in Workers : AdvanceWorkflow_Commit(w) /\ UNCHANGED apiVars
           \/ \E r \in Requests : Commit(r) /\ UNCHANGED engineVars
<1>1. CASE NextEngine /\ UNCHANGED apiVars
  <2> USE DEF rows, history, storeVars
  <2>1. ASSUME NEW w \in Workers, Receive(w) PROVE UNCHANGED <<status, completed>>
    BY <2>1 DEF Receive
  <2>2. ASSUME NEW w \in Workers, HandleTaskResult_Fetch(w) PROVE UNCHANGED <<status, completed>>
    BY <2>2 DEF HandleTaskResult_Fetch
  <2>3. ASSUME NEW w \in Workers, HandleTaskResult_Lock(w) PROVE UNCHANGED <<status, completed>>
    BY <2>3 DEF HandleTaskResult_Lock
  <2>4. ASSUME NEW w \in Workers, AdvanceWorkflow_Skip(w) PROVE UNCHANGED <<status, completed>>
    BY <2>4 DEF AdvanceWorkflow_Skip
  <2>5. ASSUME NEW w \in Workers, AdvanceWorkflow_Evaluate(w) PROVE UNCHANGED <<status, completed>>
    BY <2>5 DEF AdvanceWorkflow_Evaluate
  <2>6. ASSUME NEW w \in Workers, AdvanceWorkflow_Publish(w) PROVE UNCHANGED <<status, completed>>
    BY <2>6 DEF AdvanceWorkflow_Publish
  <2>7. ASSUME NEW w \in Workers, Ack(w) PROVE UNCHANGED <<status, completed>>
    BY <2>7 DEF Ack
  <2>8. ASSUME NEW w \in Workers, Fail(w) PROVE UNCHANGED <<status, completed>>
    BY <2>8 DEF Fail, Retry, Abandon
  <2>9. ASSUME NEW w \in Workers, Crash(w) PROVE UNCHANGED <<status, completed>>
    BY <2>9 DEF Crash, Abandon
  <2>10. ASSUME ReapZombie PROVE UNCHANGED <<status, completed>>
    BY <2>10 DEF ReapZombie
  <2> QED
    BY <1>1, <2>1, <2>2, <2>3, <2>4, <2>5, <2>6, <2>7, <2>8, <2>9, <2>10
    DEF NextEngine, HandleTaskResult, AdvanceWorkflow
<1>2. CASE NextApi /\ UNCHANGED engineVars
    BY <1>2 DEF NextApi, UpdateStatus_Check, UpdateStatus_Flush,
        CreateTask_Check, CreateTask_Flush, DeleteTask_Check, DeleteTask_Flush,
        CreateWorkflow, StartWorkflow, Transition_Check, Transition_Flush,
        RemoveWorkflow_Check, RemoveWorkflow_Tasks, RemoveWorkflow_Row, Rollback,
        storeVars, rows, history
<1>3. CASE Quiescent \/ UNCHANGED vars
    BY <1>3 DEF Quiescent, vars, storeVars, rows, history
<1>4. ASSUME NEW w \in Workers, AbortWorker(w)
      PROVE  UNCHANGED <<status, completed>>
    BY <1>4 DEF AbortWorker, Retry, Abandon, rows
<1> QED
    BY <1>1, <1>2, <1>3, <1>4 DEF Next

\* How a row may change: the facts the other invariants rest on.
RowChange(t) ==
    /\ status[t] # "UNCREATED" => status'[t] # "UNCREATED"
    /\ status[t] = "DELETED" => status'[t] = "DELETED"
    /\ status'[t] = "PENDING" => status[t] \in {"PENDING", "UNCREATED"}
    /\ status'[t] = "COMPLETED" => status[t] = "COMPLETED" \/ t \in completed'
    /\ t \in completed => t \in completed'
    /\ status[t] = "UNCREATED" /\ status'[t] # "UNCREATED" =>
          \E r \in Requests : /\ phase[r] = "flushed" /\ call[r].op = "create"
                              /\ call[r].task = t
                              /\ \A q \in Requests \ {r} : phase'[q] = phase[q]
                              /\ phase'[r] = "done"
                              /\ call' = call
    /\ status[t] # "DELETED" /\ status'[t] = "DELETED" =>
          \E r \in Requests : /\ phase[r] = "flushed" /\ tlock[t] = r
                              /\ phase'[r] = "done"

\* Every step changes a row as RowChange says.
LEMMA RowChanges ==
    ASSUME TypeInv, RowInv, [Next]_vars, NEW t \in Tasks
    PROVE  RowChange(t)
<1> USE ConstantsAssumption, CallsAssumption
    DEF TypeInv, TypeOK, RowInv
<1>1. CASE UNCHANGED <<status, completed>>
    BY <1>1 DEF RowChange
<1>2. ASSUME NEW w \in Workers, HandleTaskResult_Commit(w)
      PROVE  RowChange(t)
  <2>1. job[w] \in ResultMessage /\ job[w].task \in Tasks
    BY <1>2, ResultFields DEF WorkerShape, HandleTaskResult_Commit
  <2>2. /\ status[job[w].task] \notin {"UNCREATED", "DELETED"}
        /\ status' = [status EXCEPT ![job[w].task] = ResultStatus(job[w])]
        /\ completed' = IF job[w].success THEN completed \cup {job[w].task} ELSE completed
    BY <1>2 DEF WorkerRows, HandleTaskResult_Commit
  <2>3. CASE t = job[w].task
    BY <2>1, <2>2, <2>3 DEF RowChange, StoreTypeOK, ResultStatus
  <2>4. CASE t # job[w].task
    BY <2>1, <2>2, <2>4 DEF RowChange, StoreTypeOK
  <2> QED
    BY <2>3, <2>4
<1>3. ASSUME NEW w \in Workers, AdvanceWorkflow_Commit(w)
      PROVE  RowChange(t)
    BY <1>3 DEF RowChange, AdvanceWorkflow_Commit, WorkerRows, StoreTypeOK, history
<1>4. ASSUME NEW r \in Requests, Commit(r)
      PROVE  RowChange(t)
  <2>1. call[r] \in Calls /\ call[r].task \in Tasks /\ call[r].op \in Ops
    BY <1>4, CallFields DEF RequestShape, Commit, Call
  <2>2. CASE call[r].op \in WorkflowOps
    <3>1. /\ completed' = completed /\ r # Nobody
          /\ phase' = [phase EXCEPT ![r] = "done"]
          /\ phase[r] = "flushed"
          /\ status' = [x \in Tasks |-> IF call[r].op = "remove" /\ tlock[x] = r
                                       THEN "DELETED" ELSE status[x]]
      BY <1>4, <2>2 DEF Commit, Release, Proceed
    <3>2. tlock[t] = r => status[t] # "UNCREATED"
      BY <3>1
    <3>3. CASE call[r].op = "remove" /\ tlock[t] = r
      BY <3>1, <3>2, <3>3 DEF RowChange, StoreTypeOK, ApiTypeOK
    <3>4. CASE ~(call[r].op = "remove" /\ tlock[t] = r)
      BY <3>1, <3>4 DEF RowChange, StoreTypeOK
    <3> QED
      BY <3>3, <3>4
  <2>3. CASE call[r].op \in TaskStatusOps
    <3>1. /\ status' = [status EXCEPT ![call[r].task] = call[r].status]
          /\ completed' = IF call[r].status = "COMPLETED"
                          THEN completed \cup {call[r].task} ELSE completed
      BY <1>4, <2>3 DEF Commit, NewTaskStatus, TaskStatusOps,
             WorkflowOps, WorkflowStatusOps
    <3>2. /\ status[call[r].task] \notin {"UNCREATED", "DELETED"}
          /\ call[r].status # "PENDING" /\ call[r].status \in Status
      BY <1>4, <2>1, <2>3 DEF Commit, RequestRows, Underway, Writing, RowOps, Call
    <3> QED
      BY <2>1, <3>1, <3>2 DEF RowChange, StoreTypeOK, Status
  <2>4. CASE call[r].op = "create"
    <3>1. /\ status' = [status EXCEPT ![call[r].task] = "PENDING"]
          /\ completed' = completed
          /\ phase' = [phase EXCEPT ![r] = "done"] /\ call' = call
          /\ phase[r] = "flushed"
      BY <1>4, <2>4 DEF Commit, Release, Proceed, NewTaskStatus, WorkflowOps, WorkflowStatusOps
    <3>2. status[call[r].task] = "UNCREATED"
      BY <1>4, <2>4 DEF Commit, RequestRows, Underway, Writing
    <3> QED
      BY <2>1, <2>4, <3>1, <3>2 DEF RowChange, StoreTypeOK, ApiTypeOK
  <2>5. CASE call[r].op = "delete"
    <3>1. /\ status' = [status EXCEPT ![call[r].task] = "DELETED"]
          /\ completed' = completed
          /\ phase' = [phase EXCEPT ![r] = "done"]
          /\ phase[r] = "flushed"
      BY <1>4, <2>5 DEF Commit, Release, Proceed, NewTaskStatus, WorkflowOps, WorkflowStatusOps
    <3>2. status[call[r].task] # "UNCREATED" /\ tlock[call[r].task] = r
      BY <1>4, <2>5 DEF Commit, RequestRows, Underway, Writing, RowOps
    <3> QED
      BY <2>1, <2>5, <3>1, <3>2 DEF RowChange, StoreTypeOK, ApiTypeOK
  <2> QED
    BY <1>4, <2>1, <2>2, <2>3, <2>4, <2>5 DEF Ops, Commit, RequestRows, Underway, Writing
<1> QED
    BY <1>1, <1>2, <1>3, <1>4, StatusWriters

\* What a row needs to be deleted: the lock of a request that deletes.
LEMMA Deletions ==
    ASSUME TypeInv, RowInv, [Next]_vars, NEW t \in Tasks,
           status[t] # "DELETED", status'[t] = "DELETED"
    PROVE  \E r \in Requests : Commit(r) /\ tlock[t] = r /\ call[r].op \in {"delete", "remove"}
<1> USE DEF TypeInv, TypeOK, StoreTypeOK
<1>1. ASSUME NEW w \in Workers, HandleTaskResult_Commit(w) PROVE FALSE
  <2>1. job[w] \in ResultMessage
    BY <1>1 DEF HandleTaskResult_Commit, WorkerShape
  <2> QED
    BY <1>1, <2>1, ResultFields DEF HandleTaskResult_Commit, ResultStatus
<1>2. ASSUME NEW w \in Workers, AdvanceWorkflow_Commit(w) PROVE FALSE
    BY <1>2 DEF AdvanceWorkflow_Commit
<1>3. ASSUME NEW r \in Requests, Commit(r)
      PROVE  tlock[t] = r /\ call[r].op \in {"delete", "remove"}
  <2>1. call[r] \in Call /\ phase[r] = "flushed"
    BY <1>3, CallsAssumption DEF RequestShape, Commit
  <2>2. CASE call[r].op \in WorkflowOps
    BY <1>3, <2>2 DEF Commit
  <2>3. CASE call[r].op \notin WorkflowOps
    <3>1. status' = [status EXCEPT ![call[r].task] = NewTaskStatus(call[r])]
      BY <1>3, <2>3 DEF Commit
    <3>2. t = call[r].task /\ NewTaskStatus(call[r]) = "DELETED"
      BY <3>1
    <3>3. call[r].op = "delete"
      BY <2>1, <3>2 DEF NewTaskStatus, Call, Status
    <3> QED
      BY <2>1, <3>2, <3>3 DEF RowInv, RequestRows, RowOps
  <2> QED
    BY <2>2, <2>3
<1> QED
    BY <1>1, <1>2, <1>3, StatusWriters

\* What a worker newly has in hand was there when it looked.
WorkerChange(v) ==
    /\ pc'[v] \in {"lock", "merge"} =>
          job'[v] = job[v] /\ (pc[v] \in {"lock", "merge"} \/ TaskExists(job[v].task))
    /\ \A t \in batch'[v] : t \in batch[v] \/ TaskExists(t)

\* Every step changes a worker's job and batch as WorkerChange says.
LEMMA WorkerChanges ==
    ASSUME TypeInv, [Next]_vars, NEW v \in Workers
    PROVE  WorkerChange(v)
<1> USE DEF TypeInv, TypeOK, EngineTypeOK, WorkerChange
<1>1. ASSUME NEW w \in Workers, Receive(w) PROVE WorkerChange(v)
    BY <1>1 DEF Receive
<1>2. ASSUME NEW w \in Workers, HandleTaskResult_Fetch(w) PROVE WorkerChange(v)
    BY <1>2 DEF HandleTaskResult_Fetch, Return, Ended, WorkerShape
<1>3. ASSUME NEW w \in Workers, HandleTaskResult_Lock(w) PROVE WorkerChange(v)
    BY <1>3 DEF HandleTaskResult_Lock, Return
<1>4. ASSUME NEW w \in Workers, HandleTaskResult_Commit(w) PROVE WorkerChange(v)
    BY <1>4 DEF HandleTaskResult_Commit
<1>5. ASSUME NEW w \in Workers, AdvanceWorkflow_Skip(w) PROVE WorkerChange(v)
    BY <1>5 DEF AdvanceWorkflow_Skip, Return
<1>6. ASSUME NEW w \in Workers, AdvanceWorkflow_Evaluate(w) PROVE WorkerChange(v)
    BY <1>6 DEF AdvanceWorkflow_Evaluate, Ready, TasksOf
<1>7. ASSUME NEW w \in Workers, AdvanceWorkflow_Publish(w) PROVE WorkerChange(v)
    BY <1>7 DEF AdvanceWorkflow_Publish
<1>8. ASSUME NEW w \in Workers, AdvanceWorkflow_Commit(w) PROVE WorkerChange(v)
    BY <1>8 DEF AdvanceWorkflow_Commit, Return
<1>9. ASSUME NEW w \in Workers, Ack(w) PROVE WorkerChange(v)
    BY <1>9 DEF Ack
<1>10. ASSUME NEW w \in Workers, Retry(w) PROVE WorkerChange(v)
    BY <1>10 DEF Retry, Abandon
<1>11. ASSUME NEW w \in Workers, Crash(w) PROVE WorkerChange(v)
    BY <1>11 DEF Crash, Abandon
<1>12. CASE ReapZombie
    BY <1>12 DEF ReapZombie, workerVars
<1>13. CASE UNCHANGED engineVars
    BY <1>13 DEF engineVars, workerVars
<1> QED
    BY <1>1, <1>2, <1>3, <1>4, <1>5, <1>6, <1>7, <1>8, <1>9, <1>10, <1>11, <1>12, <1>13
    DEF Next, NextEngine, HandleTaskResult, AdvanceWorkflow, Fail, AbortWorker,
        Quiescent, vars

\* What a request newly holds was there when it checked or flushed.
RequestChange(q) ==
    /\ phase'[q] = "checked" /\ phase[q] # "checked" =>
          LET c == call'[q]
          IN  /\ phase[q] = "idle" /\ c \in Calls /\ c.op # "start"
              /\ c.op \in RowOps => TaskExists(c.task)
              /\ c.op \in TaskStatusOps => c.status # "PENDING"
              /\ c.op = "create" =>
                    /\ status[c.task] = "UNCREATED"
                    /\ \A r \in Requests \ {q} :
                          Creating(r) => call[r].task # c.task
    /\ phase'[q] \in Writing /\ phase[q] # phase'[q] =>
          LET c == call'[q]
          IN  /\ c \in Calls
              /\ \/ phase[q] \in {"checked", "removing"}
                 \/ phase[q] = "idle" /\ c.op = "open"
              /\ c.op \in RowOps => /\ tlock'[c.task] = q
                                    /\ status[c.task] # "DELETED"
                                    /\ status' = status
              /\ c.op = "create" =>
                    \A u \in Upstream[c.task] : TaskExists(u)
    /\ phase[q] # "idle" => call'[q] = call[q]
    /\ phase'[q] # "idle" /\ phase[q] = "idle" =>
          phase'[q] \in {"checked", "done"} \/ call'[q].op = "open"
    /\ phase'[q] = "idle" => phase[q] = "idle" /\ call'[q] = call[q]
    /\ Creating(q)' /\ call'[q] # call[q] =>
          \A r \in Requests \ {q} :
             call'[r] = call[r] /\ (Creating(r) => call[r].task # call'[q].task)

\* Every step changes a request as RequestChange says.
LEMMA RequestChanges ==
    ASSUME TypeInv, [Next]_vars, NEW q \in Requests
    PROVE  RequestChange(q)
<1> USE CallsAssumption DEF TypeInv, TypeOK, ApiTypeOK, RequestChange, RequestShape,
        TaskStatusOps, WorkflowStatusOps, RowOps, AfterFlush, Writing, Creating
<1>1. ASSUME NEW r \in Requests, UpdateStatus_Check(r) PROVE RequestChange(q)
  <2>1. PICK c \in Calls :
          /\ c.op \in TaskStatusOps
          /\ Arrive(r, c, <<status[c.task], c.status>> \in TaskTransitions)
    BY <1>1 DEF UpdateStatus_Check
  <2>2. <<status[c.task], c.status>> \in TaskTransitions =>
          status[c.task] \notin NoRowStatus /\ c.status # "PENDING"
    BY DEF TaskTransitions, NoRowStatus
  <2> QED
    BY <2>1, <2>2 DEF Arrive, TaskExists
<1>2. ASSUME NEW r \in Requests, UpdateStatus_Flush(r) PROVE RequestChange(q)
  <2>1. CASE q # r
    BY <1>2, <2>1 DEF UpdateStatus_Flush, Proceed
  <2>2. CASE q = r
    <3>1. call[r] \in Calls /\ call[r].task \in Tasks
      BY <1>2, CallFields DEF UpdateStatus_Flush
    <3>2. CASE phase'[r] = "done"
      BY <1>2, <2>2, <3>2 DEF UpdateStatus_Flush
    <3>3. CASE phase'[r] # "done"
      <4>1. /\ status[call[r].task] # "DELETED" /\ status' = status
            /\ tlock' = [tlock EXCEPT ![call[r].task] = r]
            /\ phase[r] = "checked" /\ call[r].op \in TaskStatusOps /\ call' = call
            /\ phase'[r] \in {"flushed", "raising"}
        BY <1>2, <3>3 DEF UpdateStatus_Flush, Proceed, rows
      <4>2. tlock'[call[r].task] = r
        BY <3>1, <4>1 DEF StoreTypeOK
      <4> QED
        BY <2>2, <4>1, <4>2
    <3> QED
      BY <3>2, <3>3
  <2> QED
    BY <2>1, <2>2
<1>3. ASSUME NEW r \in Requests, CreateTask_Check(r) PROVE RequestChange(q)
  <2>1. PICK c \in Calls, accepted \in BOOLEAN :
          /\ c.op = "create"
          /\ status[c.task] = "UNCREATED"
          /\ \A p \in Requests \ {r} : ~(call[p] # NoCall /\ call[p].op = "create"
                                         /\ call[p].task = c.task)
          /\ Arrive(r, c, accepted)
    BY <1>3 DEF CreateTask_Check
  <2> QED
    BY <2>1 DEF Arrive, Creating
<1>4. ASSUME NEW r \in Requests, CreateTask_Flush(r) PROVE RequestChange(q)
    BY <1>4, CallFields DEF CreateTask_Flush, Arrive, Proceed, Release
<1>5. ASSUME NEW r \in Requests, DeleteTask_Check(r) PROVE RequestChange(q)
    BY <1>5, CallFields DEF DeleteTask_Check, Arrive, Proceed, Release
<1>6. ASSUME NEW r \in Requests, DeleteTask_Flush(r) PROVE RequestChange(q)
  <2>1. CASE q # r
    BY <1>6, <2>1 DEF DeleteTask_Flush, Proceed
  <2>2. CASE q = r
    <3>1. call[r] \in Calls /\ call[r].task \in Tasks
      BY <1>6, CallFields DEF DeleteTask_Flush
    <3>2. /\ phase[r] = "checked" /\ call[r].op = "delete"
          /\ call' = call /\ status' = status
          /\ \/ phase'[r] = "done"
             \/ /\ TaskExists(call[r].task) /\ phase'[r] = "flushed"
                /\ tlock' = [tlock EXCEPT ![call[r].task] = r]
      BY <1>6 DEF DeleteTask_Flush, Proceed, rows
    <3> QED
      BY <2>2, <3>1, <3>2 DEF StoreTypeOK, TaskExists, NoRowStatus
  <2> QED
    BY <2>1, <2>2
<1>7. ASSUME NEW r \in Requests, StartWorkflow(r) PROVE RequestChange(q)
    BY <1>7, CallFields DEF StartWorkflow, Arrive, Proceed, Release
<1>8. ASSUME NEW r \in Requests, Transition_Check(r) PROVE RequestChange(q)
    BY <1>8, CallFields DEF Transition_Check, Arrive, Proceed, Release
<1>9. ASSUME NEW r \in Requests, Transition_Flush(r) PROVE RequestChange(q)
    BY <1>9, CallFields DEF Transition_Flush, Arrive, Proceed, Release
<1>10. ASSUME NEW r \in Requests, Commit(r) PROVE RequestChange(q)
    BY <1>10, CallFields DEF Commit, Arrive, Proceed, Release
<1>11. ASSUME NEW r \in Requests, Rollback(r) PROVE RequestChange(q)
    BY <1>11, CallFields DEF Rollback, Arrive, Proceed, Release
<1>12. CASE UNCHANGED apiVars
    BY <1>12 DEF apiVars
<1>13. ASSUME NEW r \in Requests, CreateWorkflow(r) PROVE RequestChange(q)
    BY <1>13 DEF CreateWorkflow, Proceed
<1>14. ASSUME NEW r \in Requests, RemoveWorkflow_Check(r) PROVE RequestChange(q)
    BY <1>14 DEF RemoveWorkflow_Check, Arrive
<1>15. ASSUME NEW r \in Requests, RemoveWorkflow_Tasks(r) PROVE RequestChange(q)
    BY <1>15 DEF RemoveWorkflow_Tasks, Proceed
<1>16. ASSUME NEW r \in Requests, RemoveWorkflow_Row(r) PROVE RequestChange(q)
    BY <1>16 DEF RemoveWorkflow_Row, Proceed
<1> QED
    BY <1>1, <1>2, <1>3, <1>4, <1>5, <1>6, <1>7, <1>8, <1>9, <1>10, <1>11, <1>12,
       <1>13, <1>14, <1>15, <1>16
    DEF Next, NextApi, AbortWorker, Quiescent, vars

\* Nobody takes a task row's lock away from a request that is not at its end.
LEMMA TaskLockKept ==
    ASSUME TypeInv, [Next]_vars, NEW t \in Tasks, NEW q \in Requests,
           tlock[t] = q, phase'[q] = phase[q], phase[q] \in Writing
    PROVE  tlock'[t] = q
<1> USE ConstantsAssumption DEF TypeInv, TypeOK, StoreTypeOK, ApiTypeOK, Writing
<1>1. CASE NextEngine
    BY <1>1 DEF NextEngine, HandleTaskResult, AdvanceWorkflow, Receive, HandleTaskResult_Fetch, HandleTaskResult_Lock, HandleTaskResult_Commit, AdvanceWorkflow_Skip, AdvanceWorkflow_Evaluate, AdvanceWorkflow_Publish, AdvanceWorkflow_Commit, Ack, Fail, Retry, Crash,
        Abandon, ReapZombie, storeVars, locks
<1>2. CASE NextApi
  <2>1. ASSUME NEW r \in Requests, UpdateStatus_Check(r) PROVE tlock'[t] = q
    BY <2>1 DEF UpdateStatus_Check, storeVars, locks
  <2>2. ASSUME NEW r \in Requests, UpdateStatus_Flush(r) PROVE tlock'[t] = q
    BY <2>2 DEF UpdateStatus_Flush
  <2>3. ASSUME NEW r \in Requests, CreateTask_Check(r) PROVE tlock'[t] = q
    BY <2>3 DEF CreateTask_Check, storeVars, locks
  <2>4. ASSUME NEW r \in Requests, CreateTask_Flush(r) PROVE tlock'[t] = q
    BY <2>4 DEF CreateTask_Flush
  <2>5. ASSUME NEW r \in Requests, DeleteTask_Check(r) PROVE tlock'[t] = q
    BY <2>5 DEF DeleteTask_Check, storeVars, locks
  <2>6. ASSUME NEW r \in Requests, DeleteTask_Flush(r) PROVE tlock'[t] = q
    BY <2>6 DEF DeleteTask_Flush
  <2>7. ASSUME NEW r \in Requests, StartWorkflow(r) PROVE tlock'[t] = q
    BY <2>7 DEF StartWorkflow, locks
  <2>8. ASSUME NEW r \in Requests, Transition_Check(r) PROVE tlock'[t] = q
    BY <2>8 DEF Transition_Check, storeVars, locks
  <2>9. ASSUME NEW r \in Requests, Transition_Flush(r) PROVE tlock'[t] = q
    BY <2>9 DEF Transition_Flush
  <2>10. ASSUME NEW r \in Requests, Commit(r) PROVE tlock'[t] = q
    BY <2>10 DEF Commit, Release, Proceed
  <2>11. ASSUME NEW r \in Requests, Rollback(r) PROVE tlock'[t] = q
    BY <2>11 DEF Rollback, Release, Proceed
  <2>12. ASSUME NEW r \in Requests, CreateWorkflow(r) PROVE tlock'[t] = q
    BY <2>12 DEF CreateWorkflow
  <2>13. ASSUME NEW r \in Requests, RemoveWorkflow_Check(r) PROVE tlock'[t] = q
    BY <2>13 DEF RemoveWorkflow_Check, storeVars, locks
  <2>14. ASSUME NEW r \in Requests, RemoveWorkflow_Tasks(r) PROVE tlock'[t] = q
    BY <2>14 DEF RemoveWorkflow_Tasks, Deletable, LockedAlso
  <2>15. ASSUME NEW r \in Requests, RemoveWorkflow_Row(r) PROVE tlock'[t] = q
    BY <2>15 DEF RemoveWorkflow_Row, Deletable, LockedAlso
  <2> QED
    BY <1>2, <2>1, <2>2, <2>3, <2>4, <2>5, <2>6, <2>7, <2>8, <2>9, <2>10, <2>11,
       <2>12, <2>13, <2>14, <2>15
    DEF NextApi
<1>3. CASE Quiescent \/ UNCHANGED vars
    BY <1>3 DEF Quiescent, vars, storeVars, locks
<1>4. ASSUME NEW w \in Workers, AbortWorker(w)
      PROVE  tlock'[t] = q
    BY <1>4 DEF AbortWorker, Retry, Abandon
<1> QED
    BY <1>1, <1>2, <1>3, <1>4 DEF Next

\* A row that is newly locked is there.
LEMMA NewTaskLocks ==
    ASSUME TypeInv, RowInv, [Next]_vars, NEW t \in Tasks,
           tlock'[t] # tlock[t], tlock'[t] # Nobody
    PROVE  status[t] # "UNCREATED"
<1> USE DEF TypeInv, TypeOK, StoreTypeOK
<1>1. ~UNCHANGED tlock
    OBVIOUS
<1>2. ASSUME NEW r \in Requests, UpdateStatus_Flush(r) PROVE status[t] # "UNCREATED"
    BY <1>2 DEF UpdateStatus_Flush, RowInv, RequestRows, Underway, RowOps
<1>3. ASSUME NEW r \in Requests, DeleteTask_Flush(r) PROVE status[t] # "UNCREATED"
    BY <1>3 DEF DeleteTask_Flush, TaskExists, NoRowStatus
<1>4. ASSUME NEW r \in Requests, RemoveWorkflow_Tasks(r) PROVE status[t] # "UNCREATED"
    BY <1>4 DEF RemoveWorkflow_Tasks, LockedAlso, TasksOf, TaskExists, NoRowStatus
<1>5. ASSUME NEW r \in Requests, RemoveWorkflow_Row(r) PROVE status[t] # "UNCREATED"
    BY <1>5 DEF RemoveWorkflow_Row, LockedAlso, TasksOf, TaskExists, NoRowStatus
<1>6. ASSUME NEW r \in Requests, Release(r) PROVE FALSE
    BY <1>6 DEF Release
<1>7. CASE NextApi
    BY <1>1, <1>2, <1>3, <1>4, <1>5, <1>6, <1>7
    DEF NextApi, UpdateStatus_Check, CreateTask_Check, CreateTask_Flush, DeleteTask_Check,
        CreateWorkflow, StartWorkflow, Transition_Check, Transition_Flush,
        RemoveWorkflow_Check, Commit, Rollback, storeVars, locks
<1>8. CASE NextEngine
    BY <1>1, <1>8 DEF NextEngine, HandleTaskResult, AdvanceWorkflow, Receive,
        HandleTaskResult_Fetch, HandleTaskResult_Lock, HandleTaskResult_Commit,
        AdvanceWorkflow_Skip, AdvanceWorkflow_Evaluate, AdvanceWorkflow_Publish,
        AdvanceWorkflow_Commit, Ack, Fail, Retry, Crash, Abandon, ReapZombie,
        storeVars, locks
<1> QED
    BY <1>1, <1>7, <1>8 DEF Next, AbortWorker, Retry, Abandon, Quiescent, vars, storeVars, locks

\* The invariant is inductive: what was checked without a lock still holds of
\* the row when it is written, as far as RowInv says so.
LEMMA RowStep == TypeInv /\ RowInv /\ [Next]_vars => RowInv'
<1> SUFFICES ASSUME TypeInv, RowInv, [Next]_vars PROVE RowInv'
    OBVIOUS
<1>1. /\ \A t \in Tasks : RowChange(t)
      /\ \A w \in Workers : WorkerChange(w)
      /\ \A r \in Requests : RequestChange(r)
    BY RowChanges, WorkerChanges, RequestChanges
<1>2. TypeInv'
    BY TypingStep
<1>3. ASSUME NEW t \in Tasks, TaskExists(t) PROVE status'[t] # "UNCREATED"
    BY <1>1, <1>3 DEF RowChange, TaskExists, NoRowStatus
<1>4. ASSUME NEW w \in Workers PROVE WorkerRows(w)'
  <2>1. ASSUME pc'[w] \in {"lock", "merge"} PROVE status'[job'[w].task] # "UNCREATED"
    <3>1. job'[w] \in ResultMessage
      BY <1>2, <2>1 DEF TypeInv, WorkerShape
    <3>2. job'[w].task \in Tasks
      BY <3>1, ResultFields
    <3> QED
      BY <1>1, <1>3, <2>1, <3>2 DEF WorkerChange, RowChange, RowInv, WorkerRows
  <2>2. ASSUME NEW t \in batch'[w] PROVE status'[t] # "UNCREATED"
    <3>1. t \in Tasks
      BY <1>2 DEF TypeInv, TypeOK, EngineTypeOK
    <3> QED
      BY <1>1, <1>3, <3>1 DEF WorkerChange, RowChange, RowInv, WorkerRows
  <2> QED
    BY <2>1, <2>2 DEF WorkerRows
<1>5. ASSUME NEW r \in Requests PROVE RequestRows(r)'
  <2> DEFINE c == call'[r]
             t == call'[r].task
  <2> USE DEF Underway, Writing, RowOps, TaskStatusOps
  <2>1. ASSUME Underway(r)'
        PROVE  /\ c \in Calls /\ t \in Tasks
               /\ \/ Underway(r) /\ call[r] = c
                  \/ phase[r] = "idle" /\ phase'[r] = "checked"
                  \/ phase[r] = "idle" /\ c.op = "open"
    BY <1>1, <1>2, <2>1, CallFields
       DEF TypeInv, TypeOK, ApiTypeOK, RequestShape, Underway, Writing, RequestChange, Phases
  <2>0. phase'[r] = "idle" => c = NoCall
    BY <1>1 DEF RowInv, RequestRows, RequestChange
  <2>2. Underway(r)' => c.op # "start"
    BY <1>1, <2>1 DEF RowInv, RequestRows, Underway, RequestChange
  <2>3. Underway(r)' /\ c.op \in RowOps => status'[t] # "UNCREATED"
    BY <1>1, <1>3, <2>1 DEF RowInv, RequestRows, Underway, RequestChange, RowChange
  <2>4. Underway(r)' /\ c.op \in TaskStatusOps => c.status # "PENDING"
    BY <1>1, <2>1 DEF RowInv, RequestRows, Underway, RequestChange
  <2>5. ASSUME Underway(r)', c.op = "create" PROVE status'[t] = "UNCREATED"
    <3>1. status[t] = "UNCREATED"
      BY <1>1, <2>1, <2>5 DEF RowInv, RequestRows, Underway, RequestChange
    <3>2. ASSUME status'[t] # "UNCREATED" PROVE FALSE
      <4>1. PICK p \in Requests :
              /\ phase[p] = "flushed" /\ call[p].op = "create" /\ call[p].task = t
              /\ \A q \in Requests \ {p} : phase'[q] = phase[q]
              /\ phase'[p] = "done" /\ call' = call
        BY <1>1, <2>1, <2>5, <3>1, <3>2 DEF RowChange
      <4>2. p # r /\ phase[r] = phase'[r]
        BY <2>5, <4>1 DEF Underway
      <4>3. Creating(p) /\ Creating(r)
        BY <2>1, <2>5, <4>1, <4>2, CallsAssumption
           DEF Creating, TypeInv, RequestShape, Underway
      <4> QED
        BY <4>1, <4>2, <4>3 DEF RowInv
    <3> QED
      BY <3>2
  <2>6. ASSUME phase'[r] = "flushed", c.op \in RowOps
        PROVE  tlock'[t] = r /\ status'[t] # "DELETED"
    <3>1. CASE phase[r] # "flushed"
      BY <1>1, <2>6, <3>1 DEF RequestChange
    <3>2. CASE phase[r] = "flushed"
      <4>1. t \in Tasks /\ call[r] = c /\ tlock[t] = r /\ status[t] # "DELETED"
        BY <2>1, <2>6, <3>2, <1>1 DEF RowInv, RequestRows, Underway, RequestChange
      <4>2. tlock'[t] = r
        BY <2>6, <3>2, <4>1, TaskLockKept
      <4>3. ASSUME status'[t] = "DELETED" PROVE FALSE
        <5>1. PICK p \in Requests : tlock[t] = p /\ phase'[p] = "done"
          BY <1>1, <4>1, <4>3 DEF RowChange
        <5>2. p = r
          BY <4>1, <5>1
        <5> QED
          BY <2>6, <5>1, <5>2
      <4> QED
        BY <4>2, <4>3
    <3> QED
      BY <3>1, <3>2
  <2>7. ASSUME phase'[r] = "flushed", c.op = "create"
        PROVE  \A u \in Upstream[t] : status'[u] # "UNCREATED"
    <3>1. t \in Tasks /\ Upstream[t] \subseteq Tasks
      BY <2>1, <2>7, ConstantsAssumption DEF Underway
    <3>2. CASE phase[r] # "flushed"
      <4>1. call[r] = c
        BY <1>1, <2>1, <2>7, <3>2 DEF RequestChange, Underway
      <4> QED
        BY <1>1, <1>3, <2>7, <3>1, <3>2, <4>1 DEF RequestChange
    <3>3. CASE phase[r] = "flushed"
      <4>1. call[r] = c
        BY <1>1, <3>3 DEF RequestChange
      <4> QED
        BY <1>1, <2>7, <3>1, <3>3, <4>1 DEF RowInv, RequestRows, RowChange
    <3> QED
      BY <3>2, <3>3
  <2> QED
    BY <2>0, <2>2, <2>3, <2>4, <2>5, <2>6, <2>7 DEF RequestRows
<1>6. ASSUME NEW q \in Requests, NEW r \in Requests, q # r,
             Creating(q)', Creating(r)'
      PROVE  call'[q].task # call'[r].task
  <2>1. CASE call'[q] = call[q] /\ call'[r] = call[r]
    BY <1>6, <2>1 DEF RowInv, Creating
  <2>2. CASE call'[q] # call[q]
    BY <1>1, <1>6, <2>2 DEF RequestChange, Creating
  <2>3. CASE call'[r] # call[r]
    BY <1>1, <1>6, <2>3 DEF RequestChange, Creating
  <2> QED
    BY <2>1, <2>2, <2>3
<1>7. ASSUME NEW t \in Tasks, status'[t] # "UNCREATED", NEW u \in Upstream[t]
      PROVE  status'[u] # "UNCREATED"
  <2>1. u \in Tasks
    BY ConstantsAssumption
  <2>2. CASE status[t] # "UNCREATED"
    BY <1>1, <2>1, <2>2 DEF RowInv, RowChange
  <2>3. CASE status[t] = "UNCREATED"
    <3>1. PICK r \in Requests : /\ phase[r] = "flushed" /\ call[r].op = "create"
                                /\ call[r].task = t
      BY <1>1, <1>7, <2>3 DEF RowChange
    <3> QED
      BY <1>1, <2>1, <3>1 DEF RowInv, RequestRows, RowChange
  <2> QED
    BY <2>2, <2>3
<1>8. ASSUME NEW t \in Tasks, tlock'[t] # Nobody PROVE status'[t] # "UNCREATED"
    BY <1>1, <1>8, NewTaskLocks DEF RowInv, RowChange
<1> QED
    BY <1>4, <1>5, <1>6, <1>7, <1>8 DEF RowInv
=============================================================================
