----------------------------- MODULE LockProofs -----------------------------
(***************************************************************************)
(* What the lock on the workflow row buys: evaluations of one workflow     *)
(* exclude each other, so a task is dispatched once per attempt, and with  *)
(* sessions that expire their objects, only while the workflow is active.  *)
(* And whose task rows a removal locks: those of its own workflow.         *)
(***************************************************************************)
EXTENDS TaskRowProofs

Holding(w) == pc[w] \in {"merge", "publish", "commit"}

LockInv ==
    /\ \A w \in Workers : Holding(w) => wlock[job[w].workflow] = w
    /\ \A r \in Requests : phase[r] = "flushed" /\ call[r].op \in WorkflowOps
                              => wlock[call[r].workflow] = r
    /\ \A w \in Workers : \A t \in batch[w] : WorkflowOf[t] = job[w].workflow

\* Initially nobody holds a lock.
LEMMA LockInit == Init => LockInv
BY DEF Init, InitStore, InitEngine, InitApi, LockInv, Holding

\* A lock once taken is kept until the transaction that took it ends.
LEMMA WorkflowLockKept ==
    ASSUME TypeInv, LockInv, [Next]_vars, NEW wf \in Workflows,
           NEW p \in Workers \cup Requests, wlock[wf] = p,
           p \in Workers => Holding(p) /\ Holding(p)',
           p \in Requests => phase[p] = "flushed" /\ phase'[p] = "flushed"
    PROVE  wlock'[wf] = p
<1> USE ConstantsAssumption DEF TypeInv, TypeOK, StoreTypeOK, EngineTypeOK, ApiTypeOK,
        storeVars, locks
<1>1. ASSUME NEW w \in Workers, Receive(w) PROVE wlock'[wf] = p
    BY <1>1 DEF Receive
<1>2. ASSUME NEW w \in Workers, HandleTaskResult_Fetch(w) PROVE wlock'[wf] = p
    BY <1>2 DEF HandleTaskResult_Fetch
<1>3. ASSUME NEW w \in Workers, HandleTaskResult_Lock(w) PROVE wlock'[wf] = p
    BY <1>3, MessageFields DEF HandleTaskResult_Lock, Holding, ForUpdateFree, WorkerShape
<1>4. ASSUME NEW w \in Workers, HandleTaskResult_Commit(w) PROVE wlock'[wf] = p
    BY <1>4 DEF HandleTaskResult_Commit, Holding, WithoutWorkflowLock
<1>5. ASSUME NEW w \in Workers, AdvanceWorkflow_Skip(w) PROVE wlock'[wf] = p
    BY <1>5 DEF AdvanceWorkflow_Skip
<1>6. ASSUME NEW w \in Workers, AdvanceWorkflow_Evaluate(w) PROVE wlock'[wf] = p
    BY <1>6, MessageFields DEF AdvanceWorkflow_Evaluate, Holding, ForUpdateFree, WorkerShape
<1>7. ASSUME NEW w \in Workers, AdvanceWorkflow_Publish(w) PROVE wlock'[wf] = p
    BY <1>7 DEF AdvanceWorkflow_Publish
<1>8. ASSUME NEW w \in Workers, AdvanceWorkflow_Commit(w) PROVE wlock'[wf] = p
    BY <1>8 DEF AdvanceWorkflow_Commit, Return, Holding, WithoutWorkflowLock
<1>9. ASSUME NEW w \in Workers, Ack(w) PROVE wlock'[wf] = p
    BY <1>9 DEF Ack
<1>10. ASSUME NEW w \in Workers, Retry(w) PROVE wlock'[wf] = p
    BY <1>10 DEF Retry, Abandon, Holding, WithoutWorkflowLock
<1>11. ASSUME NEW w \in Workers, Crash(w) PROVE wlock'[wf] = p
    BY <1>11 DEF Crash, Abandon, Holding, WithoutWorkflowLock
<1>12. CASE ReapZombie
    BY <1>12 DEF ReapZombie
<1>13. ASSUME NEW r \in Requests, UpdateStatus_Check(r) PROVE wlock'[wf] = p
    BY <1>13 DEF UpdateStatus_Check
<1>14. ASSUME NEW r \in Requests, UpdateStatus_Flush(r) PROVE wlock'[wf] = p
    BY <1>14 DEF UpdateStatus_Flush
<1>15. ASSUME NEW r \in Requests, CreateTask_Check(r) PROVE wlock'[wf] = p
    BY <1>15 DEF CreateTask_Check
<1>16. ASSUME NEW r \in Requests, CreateTask_Flush(r) PROVE wlock'[wf] = p
    BY <1>16 DEF CreateTask_Flush
<1>17. ASSUME NEW r \in Requests, DeleteTask_Check(r) PROVE wlock'[wf] = p
    BY <1>17 DEF DeleteTask_Check
<1>18. ASSUME NEW r \in Requests, DeleteTask_Flush(r) PROVE wlock'[wf] = p
    BY <1>18 DEF DeleteTask_Flush
<1>19. ASSUME NEW r \in Requests, StartWorkflow(r) PROVE wlock'[wf] = p
    BY <1>19 DEF StartWorkflow
<1>20. ASSUME NEW r \in Requests, Transition_Check(r) PROVE wlock'[wf] = p
    BY <1>20 DEF Transition_Check
<1>21. ASSUME NEW r \in Requests, Transition_Flush(r) PROVE wlock'[wf] = p
    BY <1>21, CallFields DEF Transition_Flush, RequestShape
<1>22. ASSUME NEW r \in Requests, Commit(r) PROVE wlock'[wf] = p
    BY <1>22 DEF Commit, Release, Proceed, WithoutWorkflowLock
<1>23. ASSUME NEW r \in Requests, Rollback(r) PROVE wlock'[wf] = p
    BY <1>23 DEF Rollback, Release, Proceed, WithoutWorkflowLock
<1>24. CASE Quiescent \/ UNCHANGED vars
    BY <1>24 DEF Quiescent, vars
<1>25. ASSUME NEW r \in Requests, CreateWorkflow(r) PROVE wlock'[wf] = p
    BY <1>25, CallFields DEF CreateWorkflow
<1>26. ASSUME NEW r \in Requests, RemoveWorkflow_Check(r) PROVE wlock'[wf] = p
    BY <1>26 DEF RemoveWorkflow_Check
<1>27. ASSUME NEW r \in Requests, RemoveWorkflow_Tasks(r) PROVE wlock'[wf] = p
    BY <1>27 DEF RemoveWorkflow_Tasks
<1>28. ASSUME NEW r \in Requests, RemoveWorkflow_Row(r) PROVE wlock'[wf] = p
    BY <1>28, CallFields DEF RemoveWorkflow_Row, ForUpdateFree, RequestShape
<1> QED
    BY <1>1, <1>2, <1>3, <1>4, <1>5, <1>6, <1>7, <1>8, <1>9, <1>10, <1>11, <1>12, <1>13, <1>14, <1>15, <1>16, <1>17, <1>18, <1>19, <1>20, <1>21, <1>22, <1>23, <1>24, <1>25, <1>26, <1>27, <1>28
    DEF Next, NextEngine, NextApi, HandleTaskResult, AdvanceWorkflow, Fail, AbortWorker

\* A worker or a request that is in a critical section was there before, or
\* has just taken the lock; and a batch is of the workflow that is locked.
WorkerLocks(v) ==
    /\ Holding(v)' => \/ Holding(v) /\ job'[v] = job[v]
                      \/ wlock'[job'[v].workflow] = v
    /\ \A t \in batch'[v] : \/ t \in batch[v] /\ job'[v] = job[v]
                            \/ WorkflowOf[t] = job'[v].workflow

\* Every step does as WorkerLocks says.
LEMMA WorkersLock ==
    ASSUME TypeInv, [Next]_vars, NEW v \in Workers
    PROVE  WorkerLocks(v)
<1> USE ConstantsAssumption DEF TypeInv, TypeOK, StoreTypeOK, EngineTypeOK, WorkerLocks, Holding
<1>1. ASSUME NEW w \in Workers, Receive(w) PROVE WorkerLocks(v)
  <2>1. pc'[w] \in {"fetch", "advance"} /\ batch' = batch /\ batch[w] = {}
    BY <1>1 DEF Receive, WorkerShape
  <2>2. CASE v = w
    BY <2>1, <2>2
  <2>3. CASE v # w
    BY <1>1, <2>1, <2>3 DEF Receive
  <2> QED
    BY <2>2, <2>3
<1>2. ASSUME NEW w \in Workers, HandleTaskResult_Fetch(w) PROVE WorkerLocks(v)
    BY <1>2, MessageFields DEF HandleTaskResult_Fetch, Return, WorkerShape
<1>3. ASSUME NEW w \in Workers, HandleTaskResult_Lock(w) PROVE WorkerLocks(v)
  <2>1. job[w] \in Message /\ job[w].workflow \in Workflows
    BY <1>3, MessageFields DEF HandleTaskResult_Lock, WorkerShape
  <2>2. job' = job /\ batch' = batch
    BY <1>3 DEF HandleTaskResult_Lock
  <2>3. CASE v # w
    BY <1>3, <2>2, <2>3 DEF HandleTaskResult_Lock, Return
  <2>4. CASE v = w /\ pc'[w] = "merge"
    <3>1. wlock' = [wlock EXCEPT ![job[w].workflow] = w]
      BY <1>3, <2>4 DEF HandleTaskResult_Lock, Return
    <3> QED
      BY <2>1, <2>2, <2>4, <3>1
  <2>5. CASE v = w /\ pc'[w] # "merge"
    BY <1>3, <2>2, <2>5 DEF HandleTaskResult_Lock, Return
  <2> QED
    BY <2>3, <2>4, <2>5
<1>4. ASSUME NEW w \in Workers, HandleTaskResult_Commit(w) PROVE WorkerLocks(v)
    BY <1>4, MessageFields DEF HandleTaskResult_Commit, WorkerShape
<1>5. ASSUME NEW w \in Workers, AdvanceWorkflow_Skip(w) PROVE WorkerLocks(v)
    BY <1>5, MessageFields DEF AdvanceWorkflow_Skip, Return, WorkerShape
<1>6. ASSUME NEW w \in Workers, AdvanceWorkflow_Evaluate(w) PROVE WorkerLocks(v)
    BY <1>6, MessageFields DEF AdvanceWorkflow_Evaluate, WorkerShape, Ready, TasksOf
<1>7. ASSUME NEW w \in Workers, AdvanceWorkflow_Publish(w) PROVE WorkerLocks(v)
    BY <1>7, MessageFields DEF AdvanceWorkflow_Publish, WorkerShape
<1>8. ASSUME NEW w \in Workers, AdvanceWorkflow_Commit(w) PROVE WorkerLocks(v)
    BY <1>8, MessageFields DEF AdvanceWorkflow_Commit, Return, WorkerShape
<1>9. ASSUME NEW w \in Workers, Ack(w) PROVE WorkerLocks(v)
    BY <1>9, MessageFields DEF Ack, WorkerShape
<1>10. ASSUME NEW w \in Workers, Retry(w) PROVE WorkerLocks(v)
    BY <1>10, MessageFields DEF Retry, Abandon, WorkerShape
<1>11. ASSUME NEW w \in Workers, Crash(w) PROVE WorkerLocks(v)
    BY <1>11, MessageFields DEF Crash, Abandon, WorkerShape
<1>12. CASE ReapZombie
    BY <1>12 DEF ReapZombie, workerVars
<1>13. CASE UNCHANGED engineVars
    BY <1>13 DEF engineVars, workerVars
<1> QED
    BY <1>1, <1>2, <1>3, <1>4, <1>5, <1>6, <1>7, <1>8, <1>9, <1>10, <1>11, <1>12, <1>13
    DEF Next, NextEngine, HandleTaskResult, AdvanceWorkflow, Fail, AbortWorker,
        Quiescent, vars

\* A request that has flushed a workflow's status holds the workflow's row.
RequestLocks(q) ==
    phase'[q] = "flushed" /\ call'[q].op \in WorkflowOps =>
        \/ phase[q] = "flushed" /\ call'[q] = call[q]
        \/ wlock'[call'[q].workflow] = q

\* Every step does as RequestLocks says.
LEMMA RequestsLock ==
    ASSUME TypeInv, [Next]_vars, NEW q \in Requests
    PROVE  RequestLocks(q)
<1> USE ConstantsAssumption DEF TypeInv, TypeOK, StoreTypeOK, ApiTypeOK, RequestLocks,
        TaskStatusOps, WorkflowStatusOps, WorkflowOps
<1>1. ASSUME NEW r \in Requests, UpdateStatus_Check(r) PROVE RequestLocks(q)
    BY <1>1, CallFields DEF UpdateStatus_Check, Arrive, Proceed, Release, RequestShape
<1>2. ASSUME NEW r \in Requests, UpdateStatus_Flush(r) PROVE RequestLocks(q)
    BY <1>2, CallFields DEF UpdateStatus_Flush, Arrive, Proceed, Release, RequestShape
<1>3. ASSUME NEW r \in Requests, CreateTask_Check(r) PROVE RequestLocks(q)
    BY <1>3, CallFields DEF CreateTask_Check, Arrive, Proceed, Release, RequestShape
<1>4. ASSUME NEW r \in Requests, CreateTask_Flush(r) PROVE RequestLocks(q)
    BY <1>4, CallFields DEF CreateTask_Flush, Arrive, Proceed, Release, RequestShape
<1>5. ASSUME NEW r \in Requests, DeleteTask_Check(r) PROVE RequestLocks(q)
    BY <1>5, CallFields DEF DeleteTask_Check, Arrive, Proceed, Release, RequestShape
<1>6. ASSUME NEW r \in Requests, DeleteTask_Flush(r) PROVE RequestLocks(q)
    BY <1>6, CallFields DEF DeleteTask_Flush, Arrive, Proceed, Release, RequestShape
<1>7. ASSUME NEW r \in Requests, StartWorkflow(r) PROVE RequestLocks(q)
    BY <1>7, CallFields DEF StartWorkflow, Arrive, Proceed, Release, RequestShape
<1>8. ASSUME NEW r \in Requests, Transition_Check(r) PROVE RequestLocks(q)
    BY <1>8, CallFields DEF Transition_Check, Arrive, Proceed, Release, RequestShape
<1>9. ASSUME NEW r \in Requests, Transition_Flush(r) PROVE RequestLocks(q)
    BY <1>9, CallFields DEF Transition_Flush, Arrive, Proceed, Release, RequestShape
<1>10. ASSUME NEW r \in Requests, Commit(r) PROVE RequestLocks(q)
    BY <1>10, CallFields DEF Commit, Arrive, Proceed, Release, RequestShape
<1>11. ASSUME NEW r \in Requests, Rollback(r) PROVE RequestLocks(q)
    BY <1>11, CallFields DEF Rollback, Arrive, Proceed, Release, RequestShape
<1>12. CASE UNCHANGED apiVars
    BY <1>12 DEF apiVars
<1>13. ASSUME NEW r \in Requests, CreateWorkflow(r) PROVE RequestLocks(q)
    BY <1>13, CallFields DEF CreateWorkflow, Proceed
<1>14. ASSUME NEW r \in Requests, RemoveWorkflow_Check(r) PROVE RequestLocks(q)
    BY <1>14 DEF RemoveWorkflow_Check, Arrive
<1>15. ASSUME NEW r \in Requests, RemoveWorkflow_Tasks(r) PROVE RequestLocks(q)
    BY <1>15 DEF RemoveWorkflow_Tasks, Proceed
<1>16. ASSUME NEW r \in Requests, RemoveWorkflow_Row(r) PROVE RequestLocks(q)
    BY <1>16, CallFields DEF RemoveWorkflow_Row, Proceed, RequestShape
<1> QED
    BY <1>1, <1>2, <1>3, <1>4, <1>5, <1>6, <1>7, <1>8, <1>9, <1>10, <1>11, <1>12,
       <1>13, <1>14, <1>15, <1>16
    DEF Next, NextApi, AbortWorker, Quiescent, vars

\* How a request comes to be under way and to have flushed.
FlushChange(q) ==
    /\ Underway(q)' /\ call'[q].op = "create" =>
          \/ Underway(q) /\ call'[q] = call[q]
          \/ WorkflowOf[call'[q].task] = call'[q].workflow
    /\ phase'[q] = "flushed" /\ phase[q] # "flushed" =>
          /\ call'[q].op = "create" => CreateTask_Flush(q)
          /\ call'[q].op = "remove" => RemoveWorkflow_Row(q)
          /\ call'[q].op \in WorkflowStatusOps => Transition_Flush(q)

\* Every step does as FlushChange says.
LEMMA FlushChanges ==
    ASSUME TypeInv, [Next]_vars, NEW q \in Requests
    PROVE  FlushChange(q)
<1> USE DEF TypeInv, TypeOK, ApiTypeOK, FlushChange, Underway, Writing, AfterFlush,
            TaskStatusOps, WorkflowStatusOps
<1>1. ASSUME NEW r \in Requests,
             \/ UpdateStatus_Check(r) \/ DeleteTask_Check(r)
             \/ Transition_Check(r) \/ RemoveWorkflow_Check(r)
      PROVE  FlushChange(q)
    BY <1>1 DEF UpdateStatus_Check, DeleteTask_Check, Transition_Check,
        RemoveWorkflow_Check, Arrive
<1>2. ASSUME NEW r \in Requests, CreateTask_Check(r) PROVE FlushChange(q)
    BY <1>2 DEF CreateTask_Check, Arrive
<1>3. ASSUME NEW r \in Requests, UpdateStatus_Flush(r) PROVE FlushChange(q)
    BY <1>3 DEF UpdateStatus_Flush, Proceed
<1>4. ASSUME NEW r \in Requests, CreateTask_Flush(r) PROVE FlushChange(q)
  <2>1. call' = call /\ phase[r] = "checked" /\ call[r].op = "create"
        /\ \A p \in Requests \ {r} : phase'[p] = phase[p]
    BY <1>4 DEF CreateTask_Flush, Proceed
  <2> QED
    BY <1>4, <2>1
<1>5. ASSUME NEW r \in Requests, DeleteTask_Flush(r) PROVE FlushChange(q)
    BY <1>5 DEF DeleteTask_Flush, Proceed
<1>6. ASSUME NEW r \in Requests, CreateWorkflow(r) \/ StartWorkflow(r) PROVE FlushChange(q)
    BY <1>6 DEF CreateWorkflow, StartWorkflow, Proceed
<1>7. ASSUME NEW r \in Requests, RemoveWorkflow_Tasks(r) PROVE FlushChange(q)
    BY <1>7 DEF RemoveWorkflow_Tasks, Proceed
<1>8. ASSUME NEW r \in Requests, RemoveWorkflow_Row(r) PROVE FlushChange(q)
  <2>1. call' = call /\ phase[r] = "removing" /\ call[r].op = "remove"
        /\ \A p \in Requests \ {r} : phase'[p] = phase[p]
    BY <1>8 DEF RemoveWorkflow_Row, Proceed, RequestShape
  <2> QED
    BY <1>8, <2>1
<1>9. ASSUME NEW r \in Requests, Commit(r) \/ Rollback(r) PROVE FlushChange(q)
    BY <1>9 DEF Commit, Rollback, Release, Proceed
<1>10. ASSUME NEW r \in Requests, Transition_Flush(r) PROVE FlushChange(q)
  <2>1. call' = call /\ phase[r] = "checked" /\ call[r].op \in WorkflowStatusOps
        /\ \A p \in Requests \ {r} : phase'[p] = phase[p]
    BY <1>10 DEF Transition_Flush, Proceed
  <2> QED
    BY <1>10, <2>1
<1>11. CASE UNCHANGED apiVars
    BY <1>11 DEF apiVars
<1> QED
    BY <1>1, <1>2, <1>3, <1>4, <1>5, <1>6, <1>7, <1>8, <1>9, <1>10, <1>11
    DEF Next, NextApi, AbortWorker, Quiescent, vars

\* The lock invariant is inductive.
LEMMA LockStep == TypeInv /\ LockInv /\ [Next]_vars => LockInv'
<1> SUFFICES ASSUME TypeInv, LockInv, [Next]_vars PROVE LockInv'
    OBVIOUS
<1>1. ASSUME NEW w \in Workers, Holding(w)' PROVE wlock'[job'[w].workflow] = w
  <2>1. CASE Holding(w) /\ job'[w] = job[w]
    <3>1. job[w].workflow \in Workflows
      BY <2>1, MessageFields DEF TypeInv, WorkerShape, Holding
    <3>2. w \notin Requests
      BY ConstantsAssumption
    <3> QED
      BY <1>1, <2>1, <3>1, <3>2, WorkflowLockKept DEF LockInv
  <2> QED
    BY <1>1, <2>1, WorkersLock DEF WorkerLocks
<1>2. ASSUME NEW r \in Requests, phase'[r] = "flushed", call'[r].op \in WorkflowOps
      PROVE  wlock'[call'[r].workflow] = r
  <2>1. CASE phase[r] = "flushed" /\ call'[r] = call[r]
    <3>1. call[r].workflow \in Workflows
      BY <2>1, CallFields DEF TypeInv, RequestShape
    <3>2. r \notin Workers
      BY ConstantsAssumption
    <3> QED
      BY <1>2, <2>1, <3>1, <3>2, WorkflowLockKept DEF LockInv
  <2> QED
    BY <1>2, <2>1, RequestsLock DEF RequestLocks
<1>3. ASSUME NEW w \in Workers, NEW t \in batch'[w] PROVE WorkflowOf[t] = job'[w].workflow
    BY WorkersLock DEF WorkerLocks, LockInv
<1> QED
    BY <1>1, <1>2, <1>3 DEF LockInv

\* A task is in one batch at a time.
LEMMA OneBatch ==
    ASSUME TypeInv, LockInv, NEW v \in Workers, NEW w \in Workers,
           NEW t \in Tasks, t \in batch[v], t \in batch[w]
    PROVE  v = w
<1>1. Holding(v) /\ Holding(w)
    BY DEF TypeInv, TypeOK, EngineTypeOK, WorkerShape, PCs, Holding
<1> QED
    BY <1>1 DEF LockInv

\* A worker about to merge was so before, or has just read the row.
MergeChange(v) ==
    pc'[v] = "merge" =>
        /\ job'[v] = job[v]
        /\ \/ pc[v] = "merge" /\ row'[v] = row[v]
           \/ /\ row'[v].status = wstatus[job[v].workflow] /\ wstatus' = wstatus
              /\ row'[v].context = context[job[v].workflow] /\ context' = context

\* Every step does as MergeChange says.
LEMMA MergeChanges ==
    ASSUME TypeInv, [Next]_vars, NEW v \in Workers
    PROVE  MergeChange(v)
<1> USE DEF TypeInv, TypeOK, EngineTypeOK, MergeChange
<1>1. ASSUME NEW w \in Workers, Receive(w) PROVE MergeChange(v)
    BY <1>1 DEF Receive
<1>2. ASSUME NEW w \in Workers, HandleTaskResult_Fetch(w) PROVE MergeChange(v)
    BY <1>2 DEF HandleTaskResult_Fetch, Return
<1>3. ASSUME NEW w \in Workers, HandleTaskResult_Lock(w) PROVE MergeChange(v)
    BY <1>3 DEF HandleTaskResult_Lock, Return, RowSeen, WorkerShape, rows
<1>4. ASSUME NEW w \in Workers, HandleTaskResult_Commit(w) PROVE MergeChange(v)
    BY <1>4 DEF HandleTaskResult_Commit
<1>5. ASSUME NEW w \in Workers, AdvanceWorkflow_Skip(w) PROVE MergeChange(v)
    BY <1>5 DEF AdvanceWorkflow_Skip, Return
<1>6. ASSUME NEW w \in Workers, AdvanceWorkflow_Evaluate(w) PROVE MergeChange(v)
    BY <1>6 DEF AdvanceWorkflow_Evaluate
<1>7. ASSUME NEW w \in Workers, AdvanceWorkflow_Publish(w) PROVE MergeChange(v)
    BY <1>7 DEF AdvanceWorkflow_Publish
<1>8. ASSUME NEW w \in Workers, AdvanceWorkflow_Commit(w) PROVE MergeChange(v)
    BY <1>8 DEF AdvanceWorkflow_Commit, Return
<1>9. ASSUME NEW w \in Workers, Ack(w) PROVE MergeChange(v)
    BY <1>9 DEF Ack
<1>10. ASSUME NEW w \in Workers, Retry(w) \/ Crash(w) PROVE MergeChange(v)
    BY <1>10 DEF Retry, Crash, Abandon
<1>11. CASE ReapZombie \/ UNCHANGED engineVars
    BY <1>11 DEF ReapZombie, engineVars, workerVars
<1> QED
    BY <1>1, <1>2, <1>3, <1>4, <1>5, <1>6, <1>7, <1>8, <1>9, <1>10, <1>11
    DEF Next, NextEngine, HandleTaskResult, AdvanceWorkflow, Fail, AbortWorker,
        Quiescent, vars

-----------------------------------------------------------------------------
(* A removal takes rows of its own workflow.                               *)

Owns(r, t) ==
    /\ phase[r] \in Writing
    /\ call[r].op = "remove" => WorkflowOf[t] = call[r].workflow

OwnerInv == \A r \in Requests, t \in Tasks : tlock[t] = r => Owns(r, t)

\* Initially nobody holds a lock.
LEMMA OwnerInit == Init => OwnerInv
BY ConstantsAssumption DEF Init, InitStore, OwnerInv

\* The invariant is inductive: a request that takes or holds the lock of a task
\* row is in its transaction, and a removal locks rows of its workflow only.
LEMMA OwnerStep == TypeInv /\ OwnerInv /\ [Next]_vars => OwnerInv'
<1> SUFFICES ASSUME TypeInv, OwnerInv, [Next]_vars,
                    NEW q \in Requests, NEW t \in Tasks, tlock'[t] = q
             PROVE  Owns(q, t)'
    BY DEF OwnerInv
<1>1. q # Nobody
    BY ConstantsAssumption
<1>2. UNCHANGED <<tlock, phase, call>> => Owns(q, t)'
    BY DEF OwnerInv, Owns
<1> USE DEF TypeInv, TypeOK, StoreTypeOK, ApiTypeOK, RequestShape, OwnerInv, Owns,
        Writing, TaskStatusOps, WorkflowStatusOps, AfterFlush
<1>3. ASSUME NEW r \in Requests, UpdateStatus_Check(r) PROVE Owns(q, t)'
    BY <1>3 DEF UpdateStatus_Check, Arrive, storeVars, locks
<1>4. ASSUME NEW r \in Requests, UpdateStatus_Flush(r) PROVE Owns(q, t)'
    BY <1>1, <1>4, CallFields DEF UpdateStatus_Flush, Proceed
<1>5. ASSUME NEW r \in Requests, CreateTask_Check(r) PROVE Owns(q, t)'
    BY <1>5 DEF CreateTask_Check, Arrive, storeVars, locks
<1>6. ASSUME NEW r \in Requests, CreateTask_Flush(r) PROVE Owns(q, t)'
    BY <1>6 DEF CreateTask_Flush, Proceed
<1>7. ASSUME NEW r \in Requests, DeleteTask_Check(r) PROVE Owns(q, t)'
    BY <1>7 DEF DeleteTask_Check, Arrive, storeVars, locks
<1>8. ASSUME NEW r \in Requests, DeleteTask_Flush(r) PROVE Owns(q, t)'
    BY <1>1, <1>8, CallFields DEF DeleteTask_Flush, Proceed
<1>9. ASSUME NEW r \in Requests, CreateWorkflow(r) PROVE Owns(q, t)'
    BY <1>9 DEF CreateWorkflow, Proceed
<1>10. ASSUME NEW r \in Requests, StartWorkflow(r) PROVE Owns(q, t)'
    BY <1>10 DEF StartWorkflow, Proceed, locks
<1>11. ASSUME NEW r \in Requests, Transition_Check(r) PROVE Owns(q, t)'
    BY <1>11 DEF Transition_Check, Arrive, storeVars, locks
<1>12. ASSUME NEW r \in Requests, Transition_Flush(r) PROVE Owns(q, t)'
    BY <1>12 DEF Transition_Flush, Proceed
<1>13. ASSUME NEW r \in Requests, RemoveWorkflow_Check(r) PROVE Owns(q, t)'
    BY <1>13 DEF RemoveWorkflow_Check, Arrive, storeVars, locks
<1>14. ASSUME NEW r \in Requests, RemoveWorkflow_Tasks(r) PROVE Owns(q, t)'
    BY <1>14 DEF RemoveWorkflow_Tasks, LockedAlso, TasksOf, Proceed
<1>15. ASSUME NEW r \in Requests, RemoveWorkflow_Row(r) PROVE Owns(q, t)'
    BY <1>15 DEF RemoveWorkflow_Row, LockedAlso, TasksOf, Proceed
<1>16. ASSUME NEW r \in Requests, Release(r), call' = call PROVE Owns(q, t)'
    BY <1>1, <1>16 DEF Release, Proceed
<1>17. CASE NextEngine /\ UNCHANGED apiVars
    BY <1>2, <1>17 DEF NextEngine, HandleTaskResult, AdvanceWorkflow, Receive,
        HandleTaskResult_Fetch, HandleTaskResult_Lock, HandleTaskResult_Commit,
        AdvanceWorkflow_Skip, AdvanceWorkflow_Evaluate, AdvanceWorkflow_Publish,
        AdvanceWorkflow_Commit, Ack, Fail, Retry, Crash, Abandon, ReapZombie,
        storeVars, locks, apiVars
<1>18. CASE NextApi
    BY <1>3, <1>4, <1>5, <1>6, <1>7, <1>8, <1>9, <1>10, <1>11, <1>12, <1>13, <1>14,
       <1>15, <1>16, <1>18
    DEF NextApi, Commit, Rollback
<1> QED
    BY <1>2, <1>17, <1>18
    DEF Next, AbortWorker, Retry, Abandon, Quiescent, vars, storeVars, locks, apiVars

-----------------------------------------------------------------------------
(* One dispatch per attempt.                                               *)

Dispatched(t) == \E w \in Workers : t \in batch[w] \ unsent[w]

\* What t has been dispatched for: earlier attempts that were rolled back,
\* and at most one that is under way or has been committed.
Attempt(t) ==
    /\ published[t] <= 1 + aborts[t]
    /\ status[t] \in {"PENDING", "UNCREATED"} /\ ~Dispatched(t) => published[t] <= aborts[t]
    /\ \A w \in Workers : t \in unsent[w] => published[t] <= aborts[t]

AttemptInv == \A t \in Tasks : Attempt(t)

\* Initially nothing has been dispatched or rolled back.
LEMMA AttemptInit == Init => AttemptInv
BY DEF Init, InitStore, InitEngine, AttemptInv, Attempt, Dispatched

\* Only the steps of an evaluation and the failures after it touch a batch.
LEMMA AttemptWriters ==
    ASSUME [Next]_vars
    PROVE  \/ UNCHANGED <<batch, unsent, published, aborts>>
           \/ \E w \in Workers : \/ AdvanceWorkflow_Evaluate(w)
                                 \/ AdvanceWorkflow_Publish(w)
                                 \/ AdvanceWorkflow_Commit(w)
                                 \/ Retry(w) \/ Crash(w)
<1>1. CASE NextEngine
    BY <1>1 DEF NextEngine, HandleTaskResult, AdvanceWorkflow, Receive,
        HandleTaskResult_Fetch, HandleTaskResult_Lock, HandleTaskResult_Commit,
        AdvanceWorkflow_Skip, Ack, Fail, ReapZombie, storeVars, history, workerVars
<1>2. CASE NextApi /\ UNCHANGED engineVars
    BY <1>2 DEF NextApi, UpdateStatus_Check, UpdateStatus_Flush,
        CreateTask_Check, CreateTask_Flush, DeleteTask_Check, DeleteTask_Flush,
        CreateWorkflow, StartWorkflow, Transition_Check, Transition_Flush,
        RemoveWorkflow_Check, RemoveWorkflow_Tasks, RemoveWorkflow_Row,
        Commit, Rollback, storeVars, history, engineVars, workerVars
<1>3. CASE Quiescent \/ UNCHANGED vars
    BY <1>3 DEF Quiescent, vars, storeVars, history, engineVars, workerVars
<1> QED
    BY <1>1, <1>2, <1>3 DEF Next, AbortWorker

\* The invariant is inductive, given the locks and the life of the row.
LEMMA AttemptStep ==
    TypeInv /\ RowInv /\ LockInv /\ AttemptInv /\ [Next]_vars => AttemptInv'
<1> SUFFICES ASSUME TypeInv, RowInv, LockInv, AttemptInv, [Next]_vars,
                    NEW t \in Tasks
             PROVE  Attempt(t)'
    BY DEF AttemptInv
<1>1. /\ Attempt(t)
      /\ published[t] \in Nat /\ aborts[t] \in Nat
      /\ status'[t] \in {"PENDING", "UNCREATED"} => status[t] \in {"PENDING", "UNCREATED"}
    BY RowChanges DEF AttemptInv, RowChange, TypeInv, TypeOK, StoreTypeOK
<1> DEFINE Same == /\ published'[t] = published[t] /\ aborts'[t] = aborts[t]
                   /\ \A w \in Workers : t \in unsent'[w] => t \in unsent[w]
                   /\ Dispatched(t) => Dispatched(t)'
<1>2. Same => Attempt(t)'
    BY <1>1 DEF Attempt
<1> USE DEF TypeInv, TypeOK, StoreTypeOK, EngineTypeOK
<1>3. CASE UNCHANGED <<batch, unsent, published, aborts>>
    BY <1>2, <1>3 DEF Dispatched
<1>4. ASSUME NEW w \in Workers, AdvanceWorkflow_Evaluate(w) PROVE Attempt(t)'
  <2>1. /\ batch[w] = {} /\ batch' = [batch EXCEPT ![w] = batch'[w]]
        /\ unsent' = [unsent EXCEPT ![w] = batch'[w]]
        /\ published' = published /\ aborts' = aborts /\ status' = status
    BY <1>4 DEF AdvanceWorkflow_Evaluate, WorkerShape, history, rows
  <2>2. Dispatched(t) => Dispatched(t)'
    BY <2>1 DEF Dispatched
  <2>3. CASE t \notin batch'[w]
    BY <1>2, <2>1, <2>2, <2>3
  <2>4. CASE t \in batch'[w]
    <3>1. t \in Ready(TasksOf(job[w].workflow), StatusSeen(w), UpstreamRows)
      BY <1>4, <2>4 DEF AdvanceWorkflow_Evaluate
    <3>2. StatusSeen(w)[t] = "PENDING" /\ WorkflowOf[t] = job[w].workflow
      BY <3>1 DEF Ready, TasksOf
    <3>3. status[t] = "PENDING"
      BY <3>2 DEF StatusSeen, ResultStatus
    <3>4. \A v \in Workers : t \notin batch[v]
      <4> SUFFICES ASSUME NEW v \in Workers, t \in batch[v] PROVE FALSE
        OBVIOUS
      <4>1. wlock[job[w].workflow] = v
        BY <3>2 DEF LockInv, WorkerShape, PCs, Holding
      <4> QED
        BY <1>4, <4>1, ConstantsAssumption DEF AdvanceWorkflow_Evaluate, ForUpdateFree
    <3>5. published[t] <= aborts[t]
      BY <1>1, <3>3, <3>4 DEF Attempt, Dispatched
    <3> QED
      BY <1>1, <2>1, <3>5 DEF Attempt
  <2> QED
    BY <2>3, <2>4
<1>5. ASSUME NEW w \in Workers, AdvanceWorkflow_Publish(w) PROVE Attempt(t)'
  <2>1. PICK u \in unsent[w] : /\ published' = [published EXCEPT ![u] = @ + 1]
                               /\ unsent' = [unsent EXCEPT ![w] = @ \ {u}]
    BY <1>5 DEF AdvanceWorkflow_Publish
  <2>2. /\ batch' = batch /\ aborts' = aborts /\ u \in batch[w] /\ u \in Tasks
    BY <1>5 DEF AdvanceWorkflow_Publish, WorkerShape
  <2>3. Dispatched(t) => Dispatched(t)'
    BY <2>1, <2>2 DEF Dispatched
  <2>4. CASE t # u
    BY <1>2, <2>1, <2>2, <2>3, <2>4
  <2>5. CASE t = u
    <3>1. published[t] <= aborts[t]
      BY <1>1, <2>1, <2>5 DEF Attempt
    <3>2. Dispatched(t)'
      BY <2>1, <2>2, <2>5 DEF Dispatched
    <3>3. \A v \in Workers : t \notin unsent'[v]
      BY <2>1, <2>2, <2>5, OneBatch DEF WorkerShape
    <3> QED
      BY <1>1, <2>1, <2>2, <2>5, <3>1, <3>2, <3>3 DEF Attempt
  <2> QED
    BY <2>4, <2>5
<1>6. ASSUME NEW w \in Workers, AdvanceWorkflow_Commit(w) PROVE Attempt(t)'
  <2>1. /\ batch' = [batch EXCEPT ![w] = {}] /\ unsent' = unsent
        /\ published' = published /\ aborts' = aborts
        /\ status' = [x \in Tasks |-> IF x \in batch[w] THEN "QUEUED" ELSE status[x]]
    BY <1>6 DEF AdvanceWorkflow_Commit, history
  <2>2. CASE t \in batch[w]
    BY <1>1, <2>1, <2>2 DEF Attempt
  <2>3. CASE t \notin batch[w]
    BY <1>2, <2>1, <2>3 DEF Dispatched
  <2> QED
    BY <2>2, <2>3
<1>7. ASSUME NEW w \in Workers, Retry(w) \/ Crash(w) PROVE Attempt(t)'
  <2>1. /\ batch' = [batch EXCEPT ![w] = {}] /\ unsent' = [unsent EXCEPT ![w] = {}]
        /\ published' = published
        /\ aborts'[t] = IF t \in batch[w] \ unsent[w] THEN aborts[t] + 1 ELSE aborts[t]
    BY <1>7 DEF Retry, Crash, Abandon
  <2>2. \A v \in Workers : t \in unsent'[v] => t \in unsent[v] /\ v # w
    BY <2>1
  <2>3. CASE t \in batch[w] \ unsent[w]
    BY <1>1, <2>1, <2>2, <2>3 DEF Attempt
  <2>4. CASE t \in unsent[w]
    BY <1>1, <2>1, <2>2, <2>4 DEF Attempt
  <2>5. CASE t \notin batch[w] /\ t \notin unsent[w]
    BY <1>2, <2>1, <2>2, <2>5 DEF Dispatched
  <2> QED
    BY <2>3, <2>4, <2>5
<1> QED
    BY <1>3, <1>4, <1>5, <1>6, <1>7, AttemptWriters

\* One dispatch per attempt (orchestration_engine.py:27-33, 81-101): whatever
\* the graph, the workers, the callbacks and the failures, a task is dispatched
\* again only after the transaction that dispatched it before was rolled back.
THEOREM DispatchedOncePerAttempt == Spec => []OneDispatchPerAttempt
<1> DEFINE Inv == TypeInv /\ RowInv /\ LockInv /\ AttemptInv
<1>1. Init => Inv
    BY TypingInit, RowInit, LockInit, AttemptInit
<1>2. Inv /\ [Next]_vars => Inv'
    BY TypingStep, RowStep, LockStep, AttemptStep
<1>3. Inv => OneDispatchPerAttempt
    BY DEF AttemptInv, Attempt, OneDispatchPerAttempt
<1> QED
    BY <1>1, <1>2, <1>3, PTL DEF Spec

-----------------------------------------------------------------------------
(* Work only for an active workflow.                                       *)

Deciding(w) == pc[w] \in {"publish", "commit"}

ActiveInv ==
    /\ \A w \in Workers : pc[w] = "advance" => row[w] = NoRow
    /\ \A w \in Workers : Deciding(w) => wstatus[job[w].workflow] \in Active

\* Initially no worker has a job.
LEMMA ActiveInit == Init => ActiveInv
BY DEF Init, InitEngine, ActiveInv, Deciding

\* With expiring sessions an evaluation begins with a fresh row; a worker that
\* decides has evaluated.
ActiveChange(v) ==
    /\ pc'[v] = "advance" => row'[v] = NoRow
    /\ Deciding(v)' => job'[v] = job[v] /\ (Deciding(v) \/ AdvanceWorkflow_Evaluate(v))

\* Every step does as ActiveChange says.
LEMMA ActiveChanges ==
    ASSUME ExpireOnCommit = TRUE, TypeInv, ActiveInv, [Next]_vars, NEW v \in Workers
    PROVE  ActiveChange(v)
<1> USE DEF TypeInv, TypeOK, EngineTypeOK, ActiveInv, ActiveChange, Deciding
<1>1. ASSUME NEW w \in Workers, Receive(w) PROVE ActiveChange(v)
    BY <1>1 DEF Receive, WorkerShape
<1>2. ASSUME NEW w \in Workers, HandleTaskResult_Fetch(w) PROVE ActiveChange(v)
    BY <1>2 DEF HandleTaskResult_Fetch, Return, WorkerShape
<1>3. ASSUME NEW w \in Workers, HandleTaskResult_Lock(w) PROVE ActiveChange(v)
    BY <1>3 DEF HandleTaskResult_Lock, Return, WorkerShape
<1>4. ASSUME NEW w \in Workers, HandleTaskResult_Commit(w) PROVE ActiveChange(v)
    BY <1>4 DEF HandleTaskResult_Commit, WorkerShape
<1>5. ASSUME NEW w \in Workers, AdvanceWorkflow_Skip(w) PROVE ActiveChange(v)
    BY <1>5 DEF AdvanceWorkflow_Skip, Return, WorkerShape
<1>6. ASSUME NEW w \in Workers, AdvanceWorkflow_Evaluate(w) PROVE ActiveChange(v)
    BY <1>6 DEF AdvanceWorkflow_Evaluate, WorkerShape
<1>7. ASSUME NEW w \in Workers, AdvanceWorkflow_Publish(w) PROVE ActiveChange(v)
    BY <1>7 DEF AdvanceWorkflow_Publish, WorkerShape
<1>8. ASSUME NEW w \in Workers, AdvanceWorkflow_Commit(w) PROVE ActiveChange(v)
    BY <1>8 DEF AdvanceWorkflow_Commit, Return, WorkerShape
<1>9. ASSUME NEW w \in Workers, Ack(w) PROVE ActiveChange(v)
    BY <1>9 DEF Ack, WorkerShape
<1>10. ASSUME NEW w \in Workers, Retry(w) PROVE ActiveChange(v)
    BY <1>10 DEF Retry, Abandon, WorkerShape
<1>11. ASSUME NEW w \in Workers, Crash(w) PROVE ActiveChange(v)
    BY <1>11 DEF Crash, Abandon, WorkerShape
<1>12. CASE ReapZombie
    BY <1>12 DEF ReapZombie, workerVars
<1>13. CASE UNCHANGED engineVars
    BY <1>13 DEF engineVars, workerVars
<1> QED
    BY <1>1, <1>2, <1>3, <1>4, <1>5, <1>6, <1>7, <1>8, <1>9, <1>10, <1>11, <1>12, <1>13
    DEF Next, NextEngine, HandleTaskResult, AdvanceWorkflow, Fail, AbortWorker,
        Quiescent, vars

\* A worker that has decided keeps to its decision until it commits or fails.
LEMMA DecisionKept ==
    ASSUME TypeInv, [Next]_vars, NEW v \in Workers, Deciding(v)'
    PROVE  /\ job'[v] = job[v]
           /\ \/ Deciding(v) /\ verdict'[v] = verdict[v] /\ batch'[v] = batch[v]
              \/ AdvanceWorkflow_Evaluate(v)
<1> DEFINE Kept == /\ Deciding(v) /\ job'[v] = job[v]
                   /\ verdict'[v] = verdict[v] /\ batch'[v] = batch[v]
<1> USE DEF TypeInv, TypeOK, EngineTypeOK, Deciding
<1>1. ASSUME NEW w \in Workers, Receive(w) PROVE Kept
    BY <1>1 DEF Receive
<1>2. ASSUME NEW w \in Workers, HandleTaskResult(w) PROVE Kept
    BY <1>2 DEF HandleTaskResult, HandleTaskResult_Fetch, HandleTaskResult_Lock,
        HandleTaskResult_Commit, Return
<1>3. ASSUME NEW w \in Workers, AdvanceWorkflow_Skip(w) PROVE Kept
    BY <1>3 DEF AdvanceWorkflow_Skip, Return
<1>4. ASSUME NEW w \in Workers, AdvanceWorkflow_Evaluate(w)
      PROVE  Kept \/ (v = w /\ job'[v] = job[v])
    BY <1>4 DEF AdvanceWorkflow_Evaluate
<1>5. ASSUME NEW w \in Workers, AdvanceWorkflow_Publish(w) PROVE Kept
    BY <1>5 DEF AdvanceWorkflow_Publish
<1>6. ASSUME NEW w \in Workers, AdvanceWorkflow_Commit(w) PROVE Kept
    BY <1>6 DEF AdvanceWorkflow_Commit, Return
<1>7. ASSUME NEW w \in Workers, Ack(w) PROVE Kept
    BY <1>7 DEF Ack
<1>8. ASSUME NEW w \in Workers, Retry(w) \/ Crash(w) PROVE Kept
    BY <1>8 DEF Retry, Crash, Abandon
<1>9. ASSUME ReapZombie \/ UNCHANGED engineVars PROVE Kept
    BY <1>9 DEF ReapZombie, engineVars, workerVars
<1> QED
    BY <1>1, <1>2, <1>3, <1>4, <1>5, <1>6, <1>7, <1>8, <1>9
    DEF Next, NextEngine, AdvanceWorkflow, Fail, AbortWorker, Quiescent, vars

\* Only two steps write the status of a workflow.
LEMMA WorkflowWriters ==
    ASSUME [Next]_vars
    PROVE  \/ wstatus' = wstatus
           \/ \E w \in Workers : AdvanceWorkflow_Commit(w)
           \/ \E r \in Requests : Commit(r)
<1>1. CASE NextEngine
    BY <1>1 DEF NextEngine, HandleTaskResult, AdvanceWorkflow, Receive,
        HandleTaskResult_Fetch, HandleTaskResult_Lock, HandleTaskResult_Commit,
        AdvanceWorkflow_Skip, AdvanceWorkflow_Evaluate, AdvanceWorkflow_Publish,
        Ack, Fail, Retry, Crash, Abandon, ReapZombie, storeVars, rows
<1>2. CASE NextApi
    BY <1>2 DEF NextApi, UpdateStatus_Check, UpdateStatus_Flush,
        CreateTask_Check, CreateTask_Flush, DeleteTask_Check, DeleteTask_Flush,
        CreateWorkflow, StartWorkflow, Transition_Check, Transition_Flush,
        RemoveWorkflow_Check, RemoveWorkflow_Tasks, RemoveWorkflow_Row,
        Rollback, storeVars, rows
<1>3. CASE Quiescent \/ UNCHANGED vars
    BY <1>3 DEF Quiescent, vars, storeVars, rows
<1>4. ASSUME NEW w \in Workers, AbortWorker(w)
      PROVE  wstatus' = wstatus
    BY <1>4 DEF AbortWorker, Retry, Abandon, rows
<1> QED
    BY <1>1, <1>2, <1>3, <1>4 DEF Next

\* A workflow goes only with a removal.
LEMMA WorkflowsGo ==
    ASSUME TypeInv, [Next]_vars, NEW wf \in Workflows,
           WorkflowExists(wf), ~WorkflowExists(wf)'
    PROVE  \E r \in Requests : Commit(r) /\ call[r].op = "remove" /\ call[r].workflow = wf
<1> USE DEF TypeInv, TypeOK, StoreTypeOK, EngineTypeOK, WorkflowExists, NoRowStatus, Status
<1>1. ASSUME NEW w \in Workers, AdvanceWorkflow_Commit(w) PROVE FALSE
    BY <1>1 DEF AdvanceWorkflow_Commit
<1>2. ASSUME NEW r \in Requests, Commit(r)
      PROVE  call[r].op = "remove" /\ call[r].workflow = wf
  <2>1. call[r] \in Calls
    BY <1>2 DEF RequestShape, Commit
  <2>2. wstatus' = [wstatus EXCEPT ![call[r].workflow] = NewWorkflowStatus(call[r])]
    BY <1>2 DEF Commit
  <2>3. call[r].workflow = wf /\ NewWorkflowStatus(call[r]) \in NoRowStatus
    BY <2>2
  <2>4. TargetStatus(call[r]) \in Status
    BY <2>1, CallFields
  <2> QED
    BY <2>3, <2>4 DEF NewWorkflowStatus
<1> QED
    BY <1>1, <1>2, WorkflowWriters

\* Under the lock of a worker nobody else writes the status.
LEMMA StatusHeld ==
    ASSUME TypeInv, LockInv, [Next]_vars, NEW w \in Workers, Holding(w), Holding(w)'
    PROVE  wstatus'[job[w].workflow] = wstatus[job[w].workflow]
<1> DEFINE wf == job[w].workflow
<1> USE DEF TypeInv, TypeOK, StoreTypeOK, EngineTypeOK
<1>1. wlock[wf] = w /\ w \notin Requests
    BY ConstantsAssumption DEF LockInv
<1>2. ASSUME NEW v \in Workers, AdvanceWorkflow_Commit(v) PROVE wstatus'[wf] = wstatus[wf]
  <2>1. v # w /\ wlock[job[v].workflow] = v
    BY <1>2 DEF AdvanceWorkflow_Commit, Return, LockInv, Holding
  <2>2. wf # job[v].workflow
    BY <1>1, <2>1
  <2> QED
    BY <1>2, <2>2 DEF AdvanceWorkflow_Commit
<1>3. ASSUME NEW r \in Requests, Commit(r) PROVE wstatus'[wf] = wstatus[wf]
  <2>1. CASE call[r].op \in WorkflowOps
    <3>1. wf # call[r].workflow
      BY <1>1, <1>3, <2>1 DEF Commit, LockInv
    <3>2. wstatus' = [wstatus EXCEPT ![call[r].workflow] = NewWorkflowStatus(call[r])]
      BY <1>3, <2>1 DEF Commit
    <3>3. wf \in Workflows
      BY MessageFields DEF WorkerShape, Holding
    <3> QED
      BY <3>1, <3>2, <3>3
  <2>2. CASE call[r].op \notin WorkflowOps
    BY <1>3, <2>2 DEF Commit
  <2> QED
    BY <2>1, <2>2
<1> QED
    BY <1>2, <1>3, WorkflowWriters

\* The invariant is inductive when sessions expire their objects.
LEMMA ActiveStep ==
    ASSUME ExpireOnCommit = TRUE
    PROVE  TypeInv /\ LockInv /\ ActiveInv /\ [Next]_vars => ActiveInv'
<1> SUFFICES ASSUME TypeInv, LockInv, ActiveInv, [Next]_vars PROVE ActiveInv'
    OBVIOUS
<1>1. ASSUME NEW w \in Workers PROVE ActiveChange(w)
    BY ActiveChanges
<1>2. ASSUME NEW w \in Workers, Deciding(w)' PROVE wstatus'[job'[w].workflow] \in Active
  <2>1. CASE Deciding(w)
    BY <1>1, <1>2, <2>1, StatusHeld DEF ActiveChange, ActiveInv, Deciding, Holding
  <2>2. CASE AdvanceWorkflow_Evaluate(w)
    BY <1>1, <1>2, <2>2 DEF AdvanceWorkflow_Evaluate, ActiveInv, RowSeen, rows
  <2> QED
    BY <1>1, <1>2, <2>1, <2>2 DEF ActiveChange
<1> QED
    BY <1>1, <1>2 DEF ActiveInv, ActiveChange

\* No dispatch to a paused or ended workflow (orchestration_engine.py:35-36,
\* 81-99), for sessions that expire their objects at commit: what the engine
\* read of the status under the lock is still so at the last dispatch.
THEOREM DispatchWhileActive ==
    ASSUME ExpireOnCommit = TRUE
    PROVE  Spec => []DispatchOnlyWhileActive
<1> DEFINE Inv == TypeInv /\ LockInv /\ ActiveInv
<1>1. Init => Inv
    BY TypingInit, LockInit, ActiveInit
<1>2. Inv /\ [Next]_vars => Inv'
    BY TypingStep, LockStep, ActiveStep
<1>3. Inv => DispatchOnlyWhileActive
    BY DEF ActiveInv, Deciding, DispatchOnlyWhileActive
<1> QED
    BY <1>1, <1>2, <1>3, PTL DEF Spec

\* A pause or an end is never overwritten by a worker that decided before it
\* (orchestration_engine.py:35, 66, 72), for the same sessions: a step that
\* takes a workflow out of any other status is the commit of a request.
THEOREM PauseRespected ==
    ASSUME ExpireOnCommit = TRUE
    PROVE  Spec => EngineRespectsPause
<1> DEFINE Inv == TypeInv /\ LockInv /\ ActiveInv
           Respected == \A wf \in Workflows :
              wstatus[wf] \notin Active /\ wstatus'[wf] # wstatus[wf] => phase' # phase
<1>1. Init => Inv
    BY TypingInit, LockInit, ActiveInit
<1>2. Inv /\ [Next]_vars => Inv'
    BY TypingStep, LockStep, ActiveStep
<1>3. Inv /\ [Next]_vars => [Respected]_vars
  <2> SUFFICES ASSUME Inv, [Next]_vars, NEW wf \in Workflows,
                      wstatus[wf] \notin Active, wstatus'[wf] # wstatus[wf]
               PROVE  phase' # phase
    OBVIOUS
  <2>1. ASSUME NEW w \in Workers, AdvanceWorkflow_Commit(w) PROVE FALSE
    <3>1. wf = job[w].workflow
      BY <2>1 DEF AdvanceWorkflow_Commit, TypeInv, TypeOK, StoreTypeOK
    <3> QED
      BY <2>1, <3>1 DEF AdvanceWorkflow_Commit, ActiveInv, Deciding
  <2>2. ASSUME NEW r \in Requests, Commit(r) PROVE phase'[r] # phase[r]
    BY <2>2 DEF Commit, Release, Proceed, TypeInv, TypeOK, ApiTypeOK
  <2> QED
    BY <2>1, <2>2, WorkflowWriters
<1>4. QED
    BY <1>1, <1>2, <1>3, PTL DEF Spec, EngineRespectsPause
=============================================================================
