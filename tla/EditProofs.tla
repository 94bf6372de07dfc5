------------------------------ MODULE EditProofs ------------------------------
(***************************************************************************)
(* Edits of a graph that the engine is working on.  An INSERT of a task    *)
(* locks the rows it refers to FOR KEY SHARE, and this weak lock is what   *)
(* keeps a task from being created without its edges, without its workflow *)
(* or behind the back of an evaluation that declares the workflow done.    *)
(* The last part follows who waits for whose locks.                        *)
(***************************************************************************)
EXTENDS RefinementProofs, FiniteSetTheorems, WellFoundedInduction

\* A creation that has flushed its INSERT has the workflow row locked, and
\* nobody takes away a row it refers to.
CreationHolds(r) ==
    /\ Underway(r) /\ call[r].op = "create" => WorkflowOf[call[r].task] = call[r].workflow
    /\ phase[r] = "flushed" /\ call[r].op = "create" =>
          /\ r \in keyShare[call[r].workflow]
          /\ WorkflowExists(call[r].workflow)
          /\ \A u \in Upstream[call[r].task] : TaskExists(u) /\ ~Deleting(u)

\* A removal that has flushed everything has all the rows of its workflow, and
\* no creation is about to add one.
RemovalHolds(r) ==
    phase[r] = "flushed" /\ call[r].op = "remove" =>
        /\ keyShare[call[r].workflow] = {}
        /\ \A t \in TasksOf(call[r].workflow) : tlock[t] = r

\* A worker that is about to declare its workflow COMPLETED is right.
Earned(w) ==
    Deciding(w) /\ verdict[w] = "COMPLETED" => TasksOf(job[w].workflow) \subseteq completed

EditInv ==
    /\ \A w \in Workers : Holding(w) => keyShare[job[w].workflow] = {}
    /\ \A r \in Requests : CreationHolds(r) /\ RemovalHolds(r)
    /\ NoOrphans
    /\ \A w \in Workers : Earned(w)

\* What the other modules prove, as far as it is needed here.
EditBase == TypeInv /\ RowInv /\ LockInv /\ DispatchInv /\ OwnerInv

\* Initially nothing is under way and each task is in a workflow.
LEMMA EditInit == Init => EditInv
BY ConstantsAssumption
   DEF Init, InitStore, InitEngine, InitApi, EditInv, CreationHolds, RemovalHolds, Earned,
       Underway, Writing, Holding, Deciding, NoOrphans, TaskExists, WorkflowExists,
       NoRowStatus

-----------------------------------------------------------------------------
(* Who takes which lock.                                                   *)

\* The key share locks are taken by creations and dropped at their end.
LEMMA KeyShareWriters ==
    ASSUME [Next]_vars
    PROVE  \/ keyShare' = keyShare
           \/ \E r \in Requests : CreateTask_Flush(r) \/ Release(r)
<1>1. CASE NextEngine
    BY <1>1 DEF NextEngine, HandleTaskResult, AdvanceWorkflow, Receive,
        HandleTaskResult_Fetch, HandleTaskResult_Lock, HandleTaskResult_Commit,
        AdvanceWorkflow_Skip, AdvanceWorkflow_Evaluate, AdvanceWorkflow_Publish,
        AdvanceWorkflow_Commit, Ack, Fail, Retry, Crash, Abandon, ReapZombie,
        storeVars, locks
<1>2. CASE NextApi
    BY <1>2 DEF NextApi, UpdateStatus_Check, UpdateStatus_Flush,
        CreateTask_Check, DeleteTask_Check, DeleteTask_Flush,
        CreateWorkflow, StartWorkflow, Transition_Check, Transition_Flush,
        RemoveWorkflow_Check, RemoveWorkflow_Tasks, RemoveWorkflow_Row,
        Commit, Rollback, storeVars, locks
<1> QED
    BY <1>1, <1>2
    DEF Next, AbortWorker, Retry, Abandon, Quiescent, vars, storeVars, locks

\* Only a creation enters a key share lock, of the workflow it names, and only
\* its end takes it out.
LEMMA KeyShares ==
    ASSUME TypeInv, [Next]_vars, NEW wf \in Workflows, NEW q \in Requests
    PROVE  /\ q \in keyShare'[wf] /\ q \notin keyShare[wf] =>
                 CreateTask_Flush(q) /\ call[q].workflow = wf
           /\ q \in keyShare[wf] /\ q \notin keyShare'[wf] => phase'[q] = "done"
<1> USE DEF TypeInv, TypeOK, StoreTypeOK, ApiTypeOK
<1>1. ASSUME NEW r \in Requests, CreateTask_Flush(r),
             keyShare'[wf] # keyShare[wf]
      PROVE  keyShare'[wf] = keyShare[wf] \cup {r} /\ call[r].workflow = wf
    BY <1>1 DEF CreateTask_Flush
<1>2. ASSUME NEW r \in Requests, Release(r)
      PROVE  keyShare'[wf] = keyShare[wf] \ {r} /\ phase'[r] = "done"
    BY <1>2 DEF Release, Proceed
<1> QED
    BY <1>1, <1>2, KeyShareWriters

\* A worker that newly holds the workflow row found no key share lock on it.
LEMMA HoldersTake ==
    ASSUME TypeInv, [Next]_vars, NEW v \in Workers, Holding(v)'
    PROVE  /\ job'[v] = job[v] /\ job[v] \in Message
           /\ \/ Holding(v)
              \/ keyShare'[job[v].workflow] = {}
<1> USE DEF TypeInv, TypeOK, EngineTypeOK, Holding
<1>1. ASSUME NEW w \in Workers, Receive(w) PROVE job'[v] = job[v] /\ Holding(v)
    BY <1>1 DEF Receive
<1>2. ASSUME NEW w \in Workers, HandleTaskResult_Fetch(w)
      PROVE  job'[v] = job[v] /\ Holding(v)
    BY <1>2 DEF HandleTaskResult_Fetch, Return
<1>3. ASSUME NEW w \in Workers, HandleTaskResult_Lock(w)
      PROVE  job'[v] = job[v] /\ (Holding(v) \/ keyShare'[job[v].workflow] = {})
    BY <1>3 DEF HandleTaskResult_Lock, Return, ForUpdateFree
<1>4. ASSUME NEW w \in Workers, HandleTaskResult_Commit(w)
      PROVE  job'[v] = job[v] /\ Holding(v)
    BY <1>4 DEF HandleTaskResult_Commit
<1>5. ASSUME NEW w \in Workers, AdvanceWorkflow_Evaluate(w)
      PROVE  job'[v] = job[v] /\ (Holding(v) \/ keyShare'[job[v].workflow] = {})
    BY <1>5 DEF AdvanceWorkflow_Evaluate, ForUpdateFree
<1>6. ASSUME NEW w \in Workers,
             AdvanceWorkflow_Skip(w) \/ AdvanceWorkflow_Publish(w) \/ AdvanceWorkflow_Commit(w)
      PROVE  job'[v] = job[v] /\ Holding(v)
    BY <1>6 DEF AdvanceWorkflow_Skip, AdvanceWorkflow_Publish, AdvanceWorkflow_Commit, Return
<1>7. ASSUME NEW w \in Workers, Ack(w) PROVE job'[v] = job[v] /\ Holding(v)
    BY <1>7 DEF Ack
<1>8. ASSUME NEW w \in Workers, Retry(w) \/ Crash(w) PROVE job'[v] = job[v] /\ Holding(v)
    BY <1>8 DEF Retry, Crash, Abandon
<1>9. ASSUME ReapZombie \/ UNCHANGED engineVars PROVE job'[v] = job[v] /\ Holding(v)
    BY <1>9 DEF ReapZombie, engineVars, workerVars
<1>10. /\ job'[v] = job[v]
       /\ Holding(v) \/ keyShare'[job[v].workflow] = {}
    BY <1>1, <1>2, <1>3, <1>4, <1>5, <1>6, <1>7, <1>8, <1>9
    DEF Next, NextEngine, HandleTaskResult, AdvanceWorkflow, Fail, AbortWorker,
        Quiescent, vars
<1>11. TypeInv'
    BY TypingStep
<1> QED
    BY <1>10, <1>11 DEF WorkerShape

\* A row is locked for deletion only while no creation refers to it.
LEMMA NewDeletions ==
    ASSUME TypeInv, OwnerInv, [Next]_vars, NEW t \in Tasks, Deleting(t)', ~Deleting(t)
    PROVE  ~Referencing(t)
<1> DEFINE q == tlock'[t]
<1> USE DEF TypeInv, TypeOK, StoreTypeOK, ApiTypeOK
<1>1. q \in Requests /\ call'[q].op \in {"delete", "remove"} /\ q # Nobody
    BY ConstantsAssumption DEF Deleting
<1>2. tlock[t] # q
  <2> SUFFICES ASSUME tlock[t] = q PROVE FALSE
    OBVIOUS
  <2>1. phase[q] # "idle"
    BY <1>1 DEF OwnerInv, Owns, Writing
  <2>2. call'[q] = call[q]
    BY <1>1, <2>1, RequestChanges DEF RequestChange
  <2> QED
    BY <1>1, <2>2 DEF Deleting
<1>3. ASSUME NEW r \in Requests, UpdateStatus_Flush(r) PROVE FALSE
  <2>1. q = r /\ call' = call /\ call[r].op \in TaskStatusOps
    BY <1>2, <1>3 DEF UpdateStatus_Flush
  <2> QED
    BY <1>1, <2>1 DEF TaskStatusOps
<1>4. ASSUME NEW r \in Requests, DeleteTask_Flush(r) PROVE ~Referencing(t)
    BY <1>2, <1>4 DEF DeleteTask_Flush
<1>5. ASSUME NEW r \in Requests, RemoveWorkflow_Tasks(r) \/ RemoveWorkflow_Row(r)
      PROVE  ~Referencing(t)
    BY <1>2, <1>5 DEF RemoveWorkflow_Tasks, RemoveWorkflow_Row, LockedAlso, Deletable
<1>6. ASSUME NEW r \in Requests, Release(r) PROVE FALSE
    BY <1>1, <1>2, <1>6 DEF Release
<1>7. CASE NextApi
    BY <1>2, <1>3, <1>4, <1>5, <1>6, <1>7
    DEF NextApi, UpdateStatus_Check, CreateTask_Check, CreateTask_Flush, DeleteTask_Check,
        CreateWorkflow, StartWorkflow, Transition_Check, Transition_Flush,
        RemoveWorkflow_Check, Commit, Rollback, storeVars, locks
<1>8. CASE NextEngine
    BY <1>2, <1>8 DEF NextEngine, HandleTaskResult, AdvanceWorkflow, Receive,
        HandleTaskResult_Fetch, HandleTaskResult_Lock, HandleTaskResult_Commit,
        AdvanceWorkflow_Skip, AdvanceWorkflow_Evaluate, AdvanceWorkflow_Publish,
        AdvanceWorkflow_Commit, Ack, Fail, Retry, Crash, Abandon, ReapZombie,
        storeVars, locks
<1> QED
    BY <1>2, <1>7, <1>8 DEF Next, AbortWorker, Retry, Abandon, Quiescent, vars, storeVars, locks

\* A workflow gets a task only from a creation that has its row locked.
LEMMA NewTasks ==
    ASSUME TypeInv, RowInv, EditInv, [Next]_vars, NEW wf \in Workflows,
           NEW t \in TasksOf(wf)', t \notin TasksOf(wf)
    PROVE  \E r \in Requests :
              /\ phase[r] = "flushed" /\ phase'[r] = "done"
              /\ call[r].op = "create" /\ call[r].task = t
              /\ call[r].workflow = wf /\ WorkflowOf[t] = wf
              /\ r \in keyShare[wf] /\ WorkflowExists(wf)
<1>1. t \in Tasks /\ WorkflowOf[t] = wf /\ TaskExists(t)' /\ ~TaskExists(t)
    BY DEF TasksOf
<1>2. status[t] = "UNCREATED" /\ status'[t] # "UNCREATED"
    BY <1>1, RowChanges DEF RowChange, TaskExists, NoRowStatus
<1>3. PICK r \in Requests : /\ phase[r] = "flushed" /\ call[r].op = "create"
                            /\ call[r].task = t /\ phase'[r] = "done"
    BY <1>1, <1>2, RowChanges DEF RowChange
<1> QED
    BY <1>1, <1>3 DEF EditInv, CreationHolds, Underway, Writing

-----------------------------------------------------------------------------
(* The invariant is inductive, one lemma for each of its parts.            *)

\* A worker that holds the workflow row holds up creations.
LEMMA NoShareStep ==
    ASSUME EditBase, EditInv, [Next]_vars, NEW w \in Workers, Holding(w)'
    PROVE  keyShare'[job'[w].workflow] = {}
<1> DEFINE wf == job[w].workflow
<1>1. job'[w] = job[w] /\ wf \in Workflows
    BY HoldersTake, MessageFields DEF EditBase
<1>2. CASE Holding(w)
  <2>1. keyShare[wf] = {} /\ wlock[wf] = w
    BY <1>2 DEF EditInv, EditBase, LockInv
  <2>2. ASSUME NEW q \in keyShare'[wf] PROVE FALSE
    <3>1. q \in Requests
      BY <1>1, <2>2, TypingStep DEF EditBase, TypeInv, TypeOK, StoreTypeOK
    <3>2. CreateTask_Flush(q) /\ call[q].workflow = wf
      BY <1>1, <2>1, <2>2, <3>1, KeyShares DEF EditBase
    <3> QED
      BY <2>1, <3>2 DEF CreateTask_Flush
  <2> QED
    BY <1>1, <2>2
<1> QED
    BY <1>1, <1>2, HoldersTake DEF EditBase

\* What a creation has locked stays until it commits.
LEMMA CreationStep ==
    ASSUME EditBase, EditInv, [Next]_vars, NEW r \in Requests
    PROVE  CreationHolds(r)'
<1> USE DEF EditBase
<1>1. ASSUME Underway(r)', call'[r].op = "create"
      PROVE  WorkflowOf[call'[r].task] = call'[r].workflow
    BY <1>1, FlushChanges DEF FlushChange, EditInv, CreationHolds
<1>2. ASSUME phase'[r] = "flushed", call'[r].op = "create"
      PROVE  /\ r \in keyShare'[call'[r].workflow]
             /\ wstatus'[call'[r].workflow] \notin NoRowStatus
             /\ \A u \in Upstream[call'[r].task] : TaskExists(u)' /\ ~Deleting(u)'
  <2>1. /\ call[r] = call'[r] /\ call'[r] \in Calls
        /\ \/ phase[r] = "flushed"
           \/ CreateTask_Flush(r) /\ phase[r] = "checked"
    BY <1>2, FlushChanges, RequestChanges, TypingStep
    DEF FlushChange, RequestChange, TypeInv, RequestShape, CreateTask_Flush
  <2>2. PICK wf \in Workflows, t \in Tasks :
            /\ call[r].workflow = wf /\ call'[r].workflow = wf
            /\ call[r].task = t /\ call'[r].task = t
    BY <2>1, CallFields
  <2>3. Upstream[t] \subseteq Tasks
    BY ConstantsAssumption
  <2>4. /\ r \in keyShare'[wf]
        /\ WorkflowExists(wf)
        /\ \A u \in Upstream[t] : TaskExists(u) /\ ~Deleting(u)
    <3>1. CASE phase[r] = "flushed"
      BY <1>2, <2>1, <2>2, <3>1, KeyShares DEF EditInv, CreationHolds
    <3>2. CASE CreateTask_Flush(r) /\ phase[r] = "checked"
      BY <1>2, <2>1, <2>2, <3>2
      DEF CreateTask_Flush, Proceed, TypeInv, TypeOK, StoreTypeOK, ApiTypeOK
    <3> QED
      BY <2>1, <3>1, <3>2
  <2>5. WorkflowExists(wf)'
    <3> SUFFICES ASSUME NEW q \in Requests, Commit(q), call[q].op = "remove",
                        call[q].workflow = wf
                 PROVE  FALSE
      BY <2>4, WorkflowsGo
    <3>1. keyShare[wf] = {} /\ phase[q] = "flushed"
      BY DEF Commit, EditInv, RemovalHolds
    <3>2. CASE phase[r] = "flushed"
      BY <1>2, <2>1, <2>2, <3>1, <3>2 DEF EditInv, CreationHolds
    <3>3. CASE CreateTask_Flush(r)
      BY <1>2, <2>1, <3>1, <3>3 DEF CreateTask_Flush, Commit, Release, Proceed,
         TypeInv, TypeOK, ApiTypeOK
    <3> QED
      BY <2>1, <3>2, <3>3
  <2>6. ASSUME NEW u \in Upstream[t] PROVE TaskExists(u)' /\ ~Deleting(u)'
    <3>1. u \in Tasks /\ TaskExists(u) /\ ~Deleting(u)
      BY <2>3, <2>4
    <3>2. TaskExists(u)'
      <4>1. status'[u] # "UNCREATED"
        BY <3>1, RowChanges DEF RowChange, TaskExists, NoRowStatus
      <4>2. ASSUME status'[u] = "DELETED" PROVE FALSE
        BY <3>1, <4>2, Deletions DEF Deleting, TaskExists, NoRowStatus
      <4> QED
        BY <4>1, <4>2 DEF TaskExists, NoRowStatus
    <3>3. ASSUME Deleting(u)' PROVE FALSE
      <4>1. ~Referencing(u)
        BY <3>1, <3>3, NewDeletions
      <4>2. CASE phase[r] = "flushed"
        BY <1>2, <2>1, <2>2, <4>1, <4>2 DEF Referencing, Writing
      <4>3. CASE CreateTask_Flush(r)
        BY <3>1, <3>3, <4>3 DEF CreateTask_Flush, Deleting
      <4> QED
        BY <2>1, <4>2, <4>3
    <3> QED
      BY <3>2, <3>3
  <2> QED
    BY <2>2, <2>4, <2>5, <2>6 DEF WorkflowExists
<1> QED
    BY <1>1, <1>2 DEF CreationHolds, WorkflowExists

\* What a removal has locked stays complete until it commits.
LEMMA RemovalStep ==
    ASSUME EditBase, EditInv, [Next]_vars, NEW r \in Requests
    PROVE  RemovalHolds(r)'
<1> USE DEF EditBase
<1> SUFFICES ASSUME phase'[r] = "flushed", call'[r].op = "remove"
             PROVE  /\ keyShare'[call'[r].workflow] = {}
                    /\ \A t \in Tasks :
                          WorkflowOf[t] = call'[r].workflow /\ TaskExists(t)' => tlock'[t] = r
    BY DEF RemovalHolds, TasksOf
<1>1. /\ call[r] = call'[r] /\ call'[r] \in Calls
      /\ \/ phase[r] = "flushed"
         \/ RemoveWorkflow_Row(r) /\ phase[r] = "removing"
    BY FlushChanges, RequestChanges, TypingStep
    DEF FlushChange, RequestChange, TypeInv, RequestShape, RemoveWorkflow_Row
<1>2. PICK wf \in Workflows : call[r].workflow = wf /\ call'[r].workflow = wf
    BY <1>1, CallFields
<1>3. CASE RemoveWorkflow_Row(r)
    BY <1>1, <1>2, <1>3
    DEF RemoveWorkflow_Row, ForUpdateFree, LockedAlso, TasksOf, TaskExists, rows
<1>4. CASE phase[r] = "flushed"
  <2>1. keyShare[wf] = {} /\ wlock[wf] = r
    BY <1>1, <1>2, <1>4 DEF EditInv, RemovalHolds, LockInv, WorkflowOps
  <2>2. ASSUME NEW q \in keyShare'[wf] PROVE FALSE
    <3>1. q \in Requests
      BY <2>2, TypingStep DEF TypeInv, TypeOK, StoreTypeOK
    <3>2. CreateTask_Flush(q) /\ call[q].workflow = wf
      BY <2>1, <2>2, <3>1, KeyShares
    <3> QED
      BY <1>1, <2>1, <3>2 DEF CreateTask_Flush, Removing
  <2>3. ASSUME NEW t \in Tasks, WorkflowOf[t] = wf, TaskExists(t)' PROVE tlock'[t] = r
    <3>1. t \in TasksOf(wf)
      BY <2>1, <2>3, NewTasks DEF TasksOf
    <3>2. tlock[t] = r
      BY <1>1, <1>2, <1>4, <3>1 DEF EditInv, RemovalHolds
    <3> QED
      BY <1>4, <3>2, TaskLockKept DEF Writing
  <2> QED
    BY <1>2, <2>2, <2>3
<1> QED
    BY <1>1, <1>3, <1>4

\* A task comes only into a workflow that stays, and a workflow goes only with
\* its tasks.
LEMMA OrphanStep ==
    ASSUME EditBase, EditInv, [Next]_vars
    PROVE  NoOrphans'
<1> USE DEF EditBase
<1> SUFFICES ASSUME NEW t \in Tasks, TaskExists(t)', ~WorkflowExists(WorkflowOf[t])'
             PROVE  FALSE
    BY DEF NoOrphans
<1> DEFINE wf == WorkflowOf[t]
<1>1. wf \in Workflows
    BY ConstantsAssumption
<1> HIDE DEF wf
<1>2. ~WorkflowExists(wf)' /\ t \in TasksOf(wf)'
    BY DEF wf, TasksOf
<1>3. WorkflowExists(wf)
  <2>1. CASE t \in TasksOf(wf)
    BY <2>1 DEF EditInv, NoOrphans, TasksOf
  <2>2. CASE t \notin TasksOf(wf)
    BY <1>1, <1>2, <2>2, NewTasks
  <2> QED
    BY <2>1, <2>2
<1>4. PICK r \in Requests : Commit(r) /\ call[r].op = "remove" /\ call[r].workflow = wf
    BY <1>1, <1>2, <1>3, WorkflowsGo
<1>5. /\ phase[r] = "flushed" /\ keyShare[wf] = {}
      /\ \A x \in TasksOf(wf) : tlock[x] = r
    BY <1>4 DEF Commit, EditInv, RemovalHolds
<1>6. t \in TasksOf(wf)
    BY <1>1, <1>2, <1>5, NewTasks
<1>7. status'[t] = "DELETED"
    BY <1>4, <1>5, <1>6 DEF Commit, WorkflowOps
<1> QED
    BY <1>7 DEF TaskExists, NoRowStatus

\* An evaluation that finds all tasks completed has read no status that was not
\* committed: the one its session puts in the place of the row's own was, too.
LEMMA VerdictIsEarned ==
    ASSUME EditBase, NEW w \in Workers, AdvanceWorkflow_Evaluate(w),
           verdict'[w] = "COMPLETED"
    PROVE  TasksOf(job[w].workflow) \subseteq completed
<1> USE DEF EditBase, TypeInv, TypeOK, StoreTypeOK, EngineTypeOK
<1> DEFINE T == TasksOf(job[w].workflow)
<1>1. Verdict(T, StatusSeen(w)) = "COMPLETED"
    BY DEF AdvanceWorkflow_Evaluate
<1>2. \A t \in T : StatusSeen(w)[t] = "COMPLETED"
    BY <1>1 DEF Verdict, AnyFailed, AllCompleted, Terminal
<1> SUFFICES ASSUME NEW t \in T PROVE t \in completed
    OBVIOUS
<1>3. t \in Tasks /\ StatusSeen(w)[t] = "COMPLETED"
    BY <1>2 DEF TasksOf
<1>4. CASE row[w] # NoRow /\ t = job[w].task
    BY <1>3, <1>4
    DEF StatusSeen, ResultStatus, DispatchInv, OwnResult, AdvanceWorkflow_Evaluate
<1>5. CASE ~(row[w] # NoRow /\ t = job[w].task)
    BY <1>3, <1>5 DEF StatusSeen, DispatchInv
<1> QED
    BY <1>4, <1>5

\* Under the lock of a worker that has decided no task joins its workflow.
LEMMA NoTaskJoins ==
    ASSUME EditBase, EditInv, [Next]_vars, NEW w \in Workers, Deciding(w),
           NEW wf \in Workflows, job[w].workflow = wf
    PROVE  TasksOf(wf)' \subseteq TasksOf(wf)
<1>1. keyShare[wf] = {}
    BY DEF EditInv, Deciding, Holding
<1> QED
    BY <1>1, NewTasks DEF EditBase

\* What made a worker declare its workflow COMPLETED stays true.
LEMMA EarnedStep ==
    ASSUME EditBase, EditInv, [Next]_vars, NEW w \in Workers
    PROVE  Earned(w)'
<1> USE DEF EditBase
<1> SUFFICES ASSUME Deciding(w)', verdict'[w] = "COMPLETED",
                    NEW wf \in Workflows, job'[w].workflow = wf
             PROVE  TasksOf(wf)' \subseteq completed'
  <2>1. Deciding(w)' => job'[w].workflow \in Workflows
    BY TypingStep, MessageFields DEF TypeInv, WorkerShape, Deciding
  <2> QED
    BY <2>1 DEF Earned, TasksOf, TaskExists
<1>1. completed \subseteq completed'
  <2>1. completed \subseteq Tasks
    BY DEF TypeInv, TypeOK, StoreTypeOK
  <2> QED
    BY <2>1, RowChanges DEF RowChange
<1>2. CASE Deciding(w) /\ verdict'[w] = verdict[w]
  <2>1. job[w].workflow = wf
    BY DecisionKept
  <2>2. TasksOf(wf) \subseteq completed
    BY <1>2, <2>1 DEF EditInv, Earned
  <2> QED
    BY <1>1, <1>2, <2>1, <2>2, NoTaskJoins
<1>3. CASE AdvanceWorkflow_Evaluate(w)
  <2>1. TasksOf(wf) \subseteq completed
    BY <1>3, VerdictIsEarned, DecisionKept
  <2>2. TasksOf(wf)' = TasksOf(wf)
    BY <1>3 DEF AdvanceWorkflow_Evaluate, TasksOf, TaskExists, rows
  <2> QED
    BY <1>1, <2>1, <2>2
<1> QED
    BY <1>2, <1>3, DecisionKept

\* The invariant is inductive.
LEMMA EditStep == EditBase /\ EditInv /\ [Next]_vars => EditInv'
<1> SUFFICES ASSUME EditBase, EditInv, [Next]_vars PROVE EditInv'
    OBVIOUS
<1> QED
    BY NoShareStep, CreationStep, RemovalStep, OrphanStep, EarnedStep DEF EditInv

\* What holds initially and is kept: the invariant and what it rests on.
LEMMA EditSafety == Spec => [](EditBase /\ EditInv)
<1>1. Init => EditBase /\ EditInv
    BY TypingInit, RowInit, LockInit, DispatchInit, OwnerInit, EditInit DEF EditBase
<1>2. EditBase /\ EditInv /\ [Next]_vars => (EditBase /\ EditInv)'
    BY TypingStep, RowStep, LockStep, DispatchStep, OwnerStep, EditStep DEF EditBase
<1> QED
    BY <1>1, <1>2, PTL DEF Spec

-----------------------------------------------------------------------------
(* The theorems.                                                           *)

\* No orphans (workflow_service.py:99-106, task_service.py:44-82): however a
\* creation and a removal of its workflow interleave, the creation is refused or
\* its task goes with the workflow.  For any number of either.
THEOREM NothingIsOrphaned == Spec => []NoOrphans
<1>1. EditInv => NoOrphans
    BY DEF EditInv
<1> QED
    BY <1>1, EditSafety, PTL

\* A task starts with all its edges (task_service.py:67-77, 110-114): between
\* the INSERT of an edge and its commit nobody deletes the upstream row.
THEOREM EdgesAreKept == Spec => CreatedWithDependencies
<1> DEFINE Kept == \A t \in Tasks :
                      status[t] = "UNCREATED" /\ status'[t] = "PENDING"
                         => \A u \in Upstream[t] : TaskExists(u) /\ status'[u] # "DELETED"
<1>1. EditBase /\ EditInv /\ [Next]_vars => [Kept]_vars
  <2> SUFFICES ASSUME EditBase, EditInv, [Next]_vars, NEW t \in Tasks,
                      status[t] = "UNCREATED", status'[t] = "PENDING",
                      NEW u \in Upstream[t]
               PROVE  TaskExists(u) /\ status'[u] # "DELETED"
    OBVIOUS
  <2> USE DEF EditBase
  <2>1. u \in Tasks
    BY ConstantsAssumption
  <2>2. PICK r \in Requests : /\ phase[r] = "flushed" /\ call[r].op = "create"
                              /\ call[r].task = t
    BY RowChanges DEF RowChange
  <2>3. TaskExists(u) /\ ~Deleting(u)
    BY <2>2 DEF EditInv, CreationHolds
  <2>4. ASSUME status'[u] = "DELETED" PROVE FALSE
    BY <2>1, <2>3, <2>4, Deletions DEF Deleting, TaskExists, NoRowStatus
  <2> QED
    BY <2>3, <2>4
<1> QED
    BY <1>1, EditSafety, PTL DEF Spec, CreatedWithDependencies

\* When a worker's commit makes a workflow COMPLETED, all its tasks have been.
LEMMA CommitIsEarned ==
    ASSUME EditBase, EditInv, [Next]_vars, NEW w \in Workers, AdvanceWorkflow_Commit(w),
           NEW wf \in Workflows, wstatus[wf] # "COMPLETED", wstatus'[wf] = "COMPLETED"
    PROVE  TasksOf(wf)' \subseteq completed'
<1> USE DEF EditBase
<1>1. job[w].workflow = wf /\ verdict[w] = "COMPLETED" /\ completed' = completed
    BY DEF AdvanceWorkflow_Commit, history, TypeInv, TypeOK, StoreTypeOK
<1>2. Deciding(w)
    BY DEF AdvanceWorkflow_Commit, Deciding
<1>3. TasksOf(wf) \subseteq completed
    BY <1>1, <1>2 DEF EditInv, Earned
<1> QED
    BY <1>1, <1>2, <1>3, NoTaskJoins

\* A worker declares COMPLETED only what is (orchestration_engine.py:27-33,
\* 71-75, task_service.py:44-82): for any requests at all, at the commit of the
\* verdict no task of the workflow is left that was never COMPLETED.
THEOREM VerdictsAreEarned == Spec => CompletionIsEarned
<1> DEFINE IsEarned == \A wf \in Workflows :
              wstatus[wf] # "COMPLETED" /\ wstatus'[wf] = "COMPLETED" /\ phase' = phase
                 => TasksOf(wf)' \subseteq completed'
<1>1. EditBase /\ EditInv /\ [Next]_vars => [IsEarned]_vars
  <2> SUFFICES ASSUME EditBase, EditInv, [Next]_vars, NEW wf \in Workflows,
                      wstatus[wf] # "COMPLETED", wstatus'[wf] = "COMPLETED",
                      phase' = phase
               PROVE  TasksOf(wf)' \subseteq completed'
    OBVIOUS
  <2>1. ASSUME NEW r \in Requests, Commit(r) PROVE FALSE
    BY <2>1 DEF Commit, Release, Proceed, EditBase, TypeInv, TypeOK, ApiTypeOK
  <2> QED
    BY <2>1, CommitIsEarned, WorkflowWriters
<1> QED
    BY <1>1, EditSafety, PTL DEF Spec, CompletionIsEarned

\* Nobody but the engine completes a workflow, and nobody adds to a graph.
EngineCompletes ==
    \A c \in Calls : c.op # "create" /\ (c.op = "update" => c.status # "COMPLETED")

\* COMPLETED means done (orchestration_engine.py:71-75) as long as no client
\* says COMPLETED itself by PATCH, which the service accepts, and no task is
\* created, which may happen in a workflow that has just ended.
THEOREM CompletedIsDone ==
    ASSUME EngineCompletes
    PROVE  Spec => []CompletedMeansDone
<1>1. Init => CompletedMeansDone
    BY DEF Init, InitStore, CompletedMeansDone
<1>2. EditBase /\ EditInv /\ CompletedMeansDone /\ [Next]_vars => CompletedMeansDone'
  <2> SUFFICES ASSUME EditBase, EditInv, CompletedMeansDone, [Next]_vars,
                      NEW wf \in Workflows, wstatus'[wf] = "COMPLETED"
               PROVE  TasksOf(wf)' \subseteq completed'
    BY DEF CompletedMeansDone, TasksOf, TaskExists
  <2> USE DEF EditBase
  <2>1. TasksOf(wf)' \subseteq TasksOf(wf)
    BY NewTasks DEF TypeInv, RequestShape, EngineCompletes
  <2>2. CASE wstatus[wf] = "COMPLETED"
    <3>1. TasksOf(wf) \subseteq completed /\ completed \subseteq Tasks
      BY <2>2 DEF CompletedMeansDone, TypeInv, TypeOK, StoreTypeOK
    <3>2. completed \subseteq completed'
      BY <3>1, RowChanges DEF RowChange
    <3> QED
      BY <2>1, <3>1, <3>2
  <2>3. ASSUME wstatus[wf] # "COMPLETED", NEW r \in Requests, Commit(r) PROVE FALSE
    <3>1. call[r] \in Calls /\ call[r] \in Call
      BY <2>3, CallsAssumption DEF Commit, TypeInv, RequestShape
    <3>2. call[r].op \in WorkflowOps /\ NewWorkflowStatus(call[r]) = "COMPLETED"
      BY <2>3 DEF Commit, TypeInv, TypeOK, StoreTypeOK
    <3> QED
      BY <3>1, <3>2
      DEF NewWorkflowStatus, TargetStatus, WorkflowOps, WorkflowStatusOps, EngineCompletes
  <2> QED
    BY <2>2, <2>3, CommitIsEarned, WorkflowWriters
<1> QED
    BY <1>1, <1>2, EditSafety, PTL DEF Spec

-----------------------------------------------------------------------------
(* Who waits for whom.                                                     *)

\* A request that has written all it writes: it needs no lock any more.
Finishing(r) == phase[r] \in {"flushed", "raising"}

RowOwners ==
    /\ \A wf \in Workflows, r \in Requests : wlock[wf] = r => Finishing(r)
    /\ \A wf \in Workflows, r \in Requests : r \in keyShare[wf] => Finishing(r)
    /\ \A wf \in Workflows, w \in Workers :
          wlock[wf] = w => Holding(w) /\ job[w].workflow = wf

LockedRowsExist == \A t \in Tasks : tlock[t] # Nobody => TaskExists(t)

Removes(q) == q \in Requests /\ call[q].op = "remove"

\* Two removals do not share the task rows of a workflow.
OneRemoval ==
    \A t, u \in Tasks :
        WorkflowOf[t] = WorkflowOf[u] /\ Removes(tlock[t]) /\ Removes(tlock[u])
            => tlock[t] = tlock[u]

WaitInv == RowOwners /\ LockedRowsExist /\ OneRemoval

\* Initially nothing is locked.
LEMMA WaitInit == Init => WaitInv
BY ConstantsAssumption
   DEF Init, InitStore, WaitInv, RowOwners, LockedRowsExist, OneRemoval, Removes

\* A request is done with its statements until its transaction ends.
LEMMA FinishingEnds ==
    ASSUME TypeInv, [Next]_vars, NEW q \in Requests, Finishing(q), ~Finishing(q)'
    PROVE  Release(q)
<1> USE DEF TypeInv, TypeOK, ApiTypeOK, Finishing
<1>1. ASSUME NEW r \in Requests, phase[r] \in {"idle", "checked", "removing"},
             NEW p, phase' = [phase EXCEPT ![r] = p]
      PROVE  FALSE
    BY <1>1
<1>2. ASSUME NEW r \in Requests, Release(r) PROVE r = q
    BY <1>2 DEF Release, Proceed
<1>3. CASE NextApi
  <2>1. ASSUME NEW r \in Requests,
               \/ UpdateStatus_Check(r) \/ CreateTask_Check(r) \/ DeleteTask_Check(r)
               \/ Transition_Check(r) \/ RemoveWorkflow_Check(r)
               \/ CreateWorkflow(r) \/ StartWorkflow(r)
        PROVE  FALSE
    BY <1>1, <2>1
    DEF UpdateStatus_Check, CreateTask_Check, DeleteTask_Check, Transition_Check,
        RemoveWorkflow_Check, CreateWorkflow, StartWorkflow, Arrive, Proceed
  <2>2. ASSUME NEW r \in Requests,
               \/ UpdateStatus_Flush(r) \/ CreateTask_Flush(r) \/ DeleteTask_Flush(r)
               \/ Transition_Flush(r) \/ RemoveWorkflow_Tasks(r) \/ RemoveWorkflow_Row(r)
        PROVE  FALSE
    BY <1>1, <2>2
    DEF UpdateStatus_Flush, CreateTask_Flush, DeleteTask_Flush, Transition_Flush,
        RemoveWorkflow_Tasks, RemoveWorkflow_Row, Proceed
  <2> QED
    BY <1>2, <1>3, <2>1, <2>2 DEF NextApi, Commit, Rollback
<1> QED
    BY <1>3 DEF Next, AbortWorker, Quiescent, vars, apiVars

\* A worker takes a workflow row for itself or gives it back.
LEMMA WorkersTakeRows ==
    ASSUME TypeInv, NextEngine \/ \E w \in Workers : AbortWorker(w), NEW wf \in Workflows
    PROVE  wlock'[wf] \in {wlock[wf], Nobody} \cup Workers
<1> USE DEF TypeInv, TypeOK, StoreTypeOK
<1>1. ASSUME NEW w \in Workers, HandleTaskResult_Lock(w) \/ AdvanceWorkflow_Evaluate(w)
      PROVE  wlock'[wf] \in {wlock[wf], w}
    BY <1>1 DEF HandleTaskResult_Lock, AdvanceWorkflow_Evaluate
<1>2. ASSUME NEW w \in Workers, wlock' = WithoutWorkflowLock(w)
      PROVE  wlock'[wf] \in {wlock[wf], Nobody}
    BY <1>2 DEF WithoutWorkflowLock
<1> QED
    BY <1>1, <1>2
    DEF NextEngine, HandleTaskResult, AdvanceWorkflow, Receive,
        HandleTaskResult_Fetch, HandleTaskResult_Commit, AdvanceWorkflow_Skip,
        AdvanceWorkflow_Publish, AdvanceWorkflow_Commit, Ack, Fail, Retry, Crash,
        Abandon, ReapZombie, AbortWorker, storeVars, locks

\* A lock on a workflow row that a request has is of a transaction that only
\* ends.
LEMMA RequestOwns ==
    ASSUME TypeInv, RowOwners, [Next]_vars, NEW wf \in Workflows, NEW q \in Requests,
           wlock'[wf] = q
    PROVE  Finishing(q)'
<1> USE ConstantsAssumption DEF TypeInv, TypeOK, StoreTypeOK, ApiTypeOK
<1>1. CASE wlock[wf] = q
  <2>1. Finishing(q) /\ ~Release(q)
    BY <1>1 DEF RowOwners, Release, WithoutWorkflowLock
  <2> QED
    BY <2>1, FinishingEnds
<1>2. CASE wlock[wf] # q
  <2>1. ASSUME NEW r \in Requests,
               CreateWorkflow(r) \/ Transition_Flush(r) \/ RemoveWorkflow_Row(r)
        PROVE  Finishing(q)'
    BY <1>2, <2>1, CallFields
    DEF CreateWorkflow, Transition_Flush, RemoveWorkflow_Row, Proceed, RequestShape,
        Finishing, AfterFlush
  <2>2. ASSUME NEW r \in Requests, Release(r) PROVE FALSE
    BY <1>2, <2>2 DEF Release, WithoutWorkflowLock
  <2>3. CASE NextApi
    BY <1>2, <2>1, <2>2, <2>3
    DEF NextApi, UpdateStatus_Check, UpdateStatus_Flush, CreateTask_Check, CreateTask_Flush,
        DeleteTask_Check, DeleteTask_Flush, StartWorkflow, Transition_Check,
        RemoveWorkflow_Check, RemoveWorkflow_Tasks, Commit, Rollback, storeVars, locks
  <2> QED
    BY <1>2, <2>3, WorkersTakeRows DEF Next, Quiescent, vars, storeVars, locks
<1> QED
    BY <1>1, <1>2

\* A key share lock is of a creation that only ends.
LEMMA SharerOwns ==
    ASSUME TypeInv, RowOwners, [Next]_vars, NEW wf \in Workflows, NEW q \in Requests,
           q \in keyShare'[wf]
    PROVE  Finishing(q)'
<1> USE DEF TypeInv, TypeOK, StoreTypeOK, ApiTypeOK
<1>1. CASE q \in keyShare[wf]
  <2>1. Finishing(q) /\ ~Release(q)
    BY <1>1 DEF RowOwners, Release
  <2> QED
    BY <2>1, FinishingEnds
<1>2. CASE q \notin keyShare[wf]
  <2>1. CreateTask_Flush(q)
    BY <1>2, KeyShares
  <2> QED
    BY <1>2, <2>1 DEF CreateTask_Flush, Proceed, Finishing, AfterFlush
<1> QED
    BY <1>1, <1>2

\* A worker's transaction ends with its lock.
LEMMA HoldingEnds ==
    ASSUME TypeInv, [Next]_vars, NEW v \in Workers, Holding(v), ~Holding(v)'
    PROVE  wlock' = WithoutWorkflowLock(v)
<1> USE DEF TypeInv, TypeOK, EngineTypeOK, Holding
<1>1. ASSUME NEW w \in Workers, pc[w] \notin {"merge", "publish", "commit"},
             NEW p, pc' = [pc EXCEPT ![w] = p]
      PROVE  FALSE
    BY <1>1
<1>2. ASSUME NEW w \in Workers,
             \/ Receive(w) \/ HandleTaskResult_Fetch(w) \/ HandleTaskResult_Lock(w)
             \/ AdvanceWorkflow_Skip(w) \/ AdvanceWorkflow_Evaluate(w) \/ Ack(w)
      PROVE  FALSE
    BY <1>1, <1>2
    DEF Receive, HandleTaskResult_Fetch, HandleTaskResult_Lock, AdvanceWorkflow_Skip,
        AdvanceWorkflow_Evaluate, Ack, Return
<1>3. ASSUME NEW w \in Workers, AdvanceWorkflow_Publish(w) PROVE FALSE
    BY <1>3 DEF AdvanceWorkflow_Publish
<1>4. ASSUME NEW w \in Workers,
             \/ HandleTaskResult_Commit(w) \/ AdvanceWorkflow_Commit(w)
             \/ Retry(w) \/ Crash(w)
      PROVE  v = w /\ wlock' = WithoutWorkflowLock(v)
    BY <1>4
    DEF HandleTaskResult_Commit, AdvanceWorkflow_Commit, Retry, Crash, Abandon, Return
<1> QED
    BY <1>2, <1>3, <1>4
    DEF Next, NextEngine, HandleTaskResult, AdvanceWorkflow, Fail, AbortWorker,
        ReapZombie, Quiescent, vars, engineVars, workerVars

\* A lock on a workflow row that a worker has is of the job it is holding.
LEMMA WorkerOwns ==
    ASSUME TypeInv, RowOwners, [Next]_vars, NEW wf \in Workflows, NEW v \in Workers,
           wlock'[wf] = v
    PROVE  Holding(v)' /\ job'[v].workflow = wf
<1> USE ConstantsAssumption DEF TypeInv, TypeOK, StoreTypeOK, EngineTypeOK
<1>1. CASE wlock[wf] = v
  <2>1. Holding(v) /\ job[v].workflow = wf
    BY <1>1 DEF RowOwners
  <2>2. Holding(v)'
    BY <1>1, <2>1, HoldingEnds DEF WithoutWorkflowLock
  <2> QED
    BY <2>1, <2>2, HoldersTake
<1>2. CASE wlock[wf] # v
  <2>1. ASSUME NEW w \in Workers, HandleTaskResult_Lock(w) \/ AdvanceWorkflow_Evaluate(w)
        PROVE  Holding(v)' /\ job'[v].workflow = wf
    BY <1>2, <2>1
    DEF HandleTaskResult_Lock, AdvanceWorkflow_Evaluate, WorkerShape, Holding
  <2>2. ASSUME NEW p, wlock' = WithoutWorkflowLock(p) PROVE FALSE
    BY <1>2, <2>2 DEF WithoutWorkflowLock
  <2>3. ASSUME NEW r \in Requests, NEW x, wlock' = [wlock EXCEPT ![x] = r] PROVE FALSE
    BY <1>2, <2>3
  <2>4. CASE NextApi
    BY <1>2, <2>2, <2>3, <2>4
    DEF NextApi, UpdateStatus_Check, UpdateStatus_Flush, CreateTask_Check, CreateTask_Flush,
        DeleteTask_Check, DeleteTask_Flush, CreateWorkflow, StartWorkflow, Transition_Check,
        Transition_Flush, RemoveWorkflow_Check, RemoveWorkflow_Tasks, RemoveWorkflow_Row,
        Commit, Rollback, Release, storeVars, locks
  <2>5. CASE NextEngine
    BY <1>2, <2>1, <2>2, <2>5
    DEF NextEngine, HandleTaskResult, AdvanceWorkflow, Receive,
        HandleTaskResult_Fetch, HandleTaskResult_Commit, AdvanceWorkflow_Skip,
        AdvanceWorkflow_Publish, AdvanceWorkflow_Commit, Ack, Fail, Retry, Crash,
        Abandon, ReapZombie, storeVars, locks
  <2> QED
    BY <1>2, <2>2, <2>4, <2>5
    DEF Next, AbortWorker, Retry, Abandon, Quiescent, vars, storeVars, locks
<1> QED
    BY <1>1, <1>2

\* The row of a task is locked by a request that changes or deletes it.
LEMMA RowTakers ==
    ASSUME TypeInv, [Next]_vars, NEW t \in Tasks,
           tlock'[t] # tlock[t], tlock'[t] # Nobody
    PROVE  \E r \in Requests :
              /\ tlock'[t] = r /\ call' = call /\ status' = status
              /\ \/ UpdateStatus_Flush(r) \/ DeleteTask_Flush(r)
                 \/ RemoveWorkflow_Tasks(r) \/ RemoveWorkflow_Row(r)
<1> USE DEF TypeInv, TypeOK, StoreTypeOK
<1>1. ASSUME NEW r \in Requests,
             \/ UpdateStatus_Flush(r) \/ DeleteTask_Flush(r)
             \/ RemoveWorkflow_Tasks(r) \/ RemoveWorkflow_Row(r)
      PROVE  tlock'[t] = r /\ call' = call /\ status' = status
    BY <1>1 DEF UpdateStatus_Flush, DeleteTask_Flush, RemoveWorkflow_Tasks,
        RemoveWorkflow_Row, LockedAlso, rows
<1>2. ASSUME NEW r \in Requests, Release(r) PROVE FALSE
    BY <1>2 DEF Release
<1>3. CASE NextApi
    BY <1>1, <1>2, <1>3
    DEF NextApi, UpdateStatus_Check, CreateTask_Check, CreateTask_Flush, DeleteTask_Check,
        CreateWorkflow, StartWorkflow, Transition_Check, Transition_Flush,
        RemoveWorkflow_Check, Commit, Rollback, storeVars, locks
<1>4. CASE NextEngine
    BY <1>4 DEF NextEngine, HandleTaskResult, AdvanceWorkflow, Receive,
        HandleTaskResult_Fetch, HandleTaskResult_Lock, HandleTaskResult_Commit,
        AdvanceWorkflow_Skip, AdvanceWorkflow_Evaluate, AdvanceWorkflow_Publish,
        AdvanceWorkflow_Commit, Ack, Fail, Retry, Crash, Abandon, ReapZombie,
        storeVars, locks
<1> QED
    BY <1>3, <1>4 DEF Next, AbortWorker, Retry, Abandon, Quiescent, vars, storeVars, locks

\* A locked row is there, and goes with its lock.
LEMMA LockedRowsStep ==
    ASSUME TypeInv, RowInv, LockedRowsExist, [Next]_vars
    PROVE  LockedRowsExist'
<1> SUFFICES ASSUME NEW t \in Tasks, tlock'[t] # Nobody PROVE TaskExists(t)'
    BY DEF LockedRowsExist
<1>1. TaskExists(t)
  <2>1. CASE tlock'[t] = tlock[t]
    BY <2>1 DEF LockedRowsExist
  <2>2. CASE tlock'[t] # tlock[t]
    <3>1. status[t] # "UNCREATED"
      BY <2>2, NewTaskLocks
    <3>2. ASSUME NEW r \in Requests, UpdateStatus_Flush(r) PROVE status[t] # "DELETED"
      BY <2>2, <3>2 DEF UpdateStatus_Flush, TypeInv, TypeOK, StoreTypeOK
    <3>3. ASSUME NEW r \in Requests, DeleteTask_Flush(r) PROVE status[t] # "DELETED"
      BY <2>2, <3>3 DEF DeleteTask_Flush, TaskExists, NoRowStatus, TypeInv, TypeOK, StoreTypeOK
    <3>4. ASSUME NEW r \in Requests, RemoveWorkflow_Tasks(r) \/ RemoveWorkflow_Row(r)
          PROVE  status[t] # "DELETED"
      BY <2>2, <3>4
      DEF RemoveWorkflow_Tasks, RemoveWorkflow_Row, LockedAlso, TasksOf, TaskExists, NoRowStatus
    <3>5. status[t] # "DELETED"
      BY <2>2, <3>2, <3>3, <3>4, RowTakers
    <3> QED
      BY <3>1, <3>5 DEF TaskExists, NoRowStatus
  <2> QED
    BY <2>1, <2>2
<1>2. status'[t] # "UNCREATED"
    BY <1>1, RowChanges DEF RowChange, TaskExists, NoRowStatus
<1>3. ASSUME status'[t] = "DELETED" PROVE FALSE
  <2>1. PICK r \in Requests : Commit(r) /\ tlock[t] = r
    BY <1>1, <1>3, Deletions DEF TaskExists, NoRowStatus
  <2> QED
    BY <2>1 DEF Commit, Release
<1> QED
    BY <1>2, <1>3 DEF TaskExists, NoRowStatus

\* A removal that takes a row finds those of the same workflow free or its own.
LEMMA RemovalTakesAll ==
    ASSUME TypeInv, OwnerInv, LockedRowsExist, [Next]_vars,
           NEW t \in Tasks, NEW u \in Tasks, WorkflowOf[t] = WorkflowOf[u],
           Removes(tlock[t])', tlock'[t] # tlock[t], Removes(tlock[u])'
    PROVE  tlock'[u] = tlock'[t]
<1> USE DEF TypeInv, TypeOK, StoreTypeOK, ApiTypeOK
<1>1. tlock'[t] # Nobody
    BY ConstantsAssumption DEF Removes
<1>2. PICK r \in Requests :
          /\ tlock'[t] = r /\ call[r].op = "remove"
          /\ RemoveWorkflow_Tasks(r) \/ RemoveWorkflow_Row(r)
    BY <1>1, RowTakers DEF Removes, UpdateStatus_Flush, DeleteTask_Flush, TaskStatusOps
<1> DEFINE T == TasksOf(call[r].workflow)
<1>3. tlock' = LockedAlso(r, T) /\ Deletable(r, T)
    BY <1>2 DEF RemoveWorkflow_Tasks, RemoveWorkflow_Row
<1>4. t \in T
    BY <1>3 DEF LockedAlso
<1>5. CASE u \in T
    BY <1>2, <1>3, <1>5 DEF LockedAlso
<1>6. CASE u \notin T
  <2>1. tlock'[u] = tlock[u] /\ tlock[u] # Nobody
    BY <1>3, <1>6, ConstantsAssumption DEF LockedAlso, Removes
  <2> QED
    BY <1>4, <1>6, <2>1 DEF LockedRowsExist, TasksOf
<1> QED
    BY <1>5, <1>6

\* Removals of one workflow come one after the other.
LEMMA OneRemovalStep ==
    ASSUME TypeInv, OwnerInv, LockedRowsExist, OneRemoval, [Next]_vars
    PROVE  OneRemoval'
<1> SUFFICES ASSUME NEW t \in Tasks, NEW u \in Tasks, WorkflowOf[t] = WorkflowOf[u],
                    Removes(tlock[t])', Removes(tlock[u])'
             PROVE  tlock'[t] = tlock'[u]
    BY DEF OneRemoval
<1>1. CASE tlock'[t] # tlock[t] \/ tlock'[u] # tlock[u]
    BY <1>1, RemovalTakesAll
<1>2. CASE tlock'[t] = tlock[t] /\ tlock'[u] = tlock[u]
  <2>1. ASSUME NEW q \in Requests, tlock[t] = q \/ tlock[u] = q PROVE call'[q] = call[q]
    BY <2>1, RequestChanges DEF OwnerInv, Owns, Writing, RequestChange
  <2> QED
    BY <1>2, <2>1 DEF Removes, OneRemoval
<1> QED
    BY <1>1, <1>2

\* The invariant is inductive.
LEMMA WaitStep == EditBase /\ WaitInv /\ [Next]_vars => WaitInv'
<1> SUFFICES ASSUME EditBase, WaitInv, [Next]_vars PROVE WaitInv'
    OBVIOUS
<1>1. RowOwners'
    BY RequestOwns, SharerOwns, WorkerOwns DEF EditBase, WaitInv, RowOwners
<1>2. LockedRowsExist' /\ OneRemoval'
    BY LockedRowsStep, OneRemovalStep DEF EditBase, WaitInv
<1> QED
    BY <1>1, <1>2 DEF WaitInv

\* What holds in every state of what the proofs below use.
WaitBase == EditBase /\ WaitInv

\* What holds initially and is kept.
LEMMA WaitSafety == Spec => []WaitBase
<1>1. Init => WaitBase
    BY TypingInit, RowInit, LockInit, DispatchInit, OwnerInit, WaitInit
    DEF WaitBase, EditBase
<1>2. WaitBase /\ [Next]_vars => WaitBase'
    BY TypingStep, RowStep, LockStep, DispatchStep, OwnerStep, WaitStep
    DEF WaitBase, EditBase
<1> QED
    BY <1>1, <1>2, PTL DEF Spec

Process == Workers \cup Requests

\* Whoever is waited for is in a transaction.
LEMMA AwaitedOwns ==
    ASSUME WaitBase, NEW p \in Process, NEW q \in Process, Awaits(p, q)
    PROVE  \/ q \in Workers /\ Holding(q)
           \/ q \in Requests /\ phase[q] \in Writing
<1> USE DEF WaitBase, EditBase, TypeInv
<1>1. ASSUME NEW wf \in Workflows, q = wlock[wf] \/ q \in keyShare[wf]
      PROVE  \/ q \in Workers /\ Holding(q)
             \/ q \in Requests /\ phase[q] \in Writing
    BY <1>1 DEF Process, WaitInv, RowOwners, Finishing, Writing, TypeOK, StoreTypeOK
<1>2. ASSUME NEW t \in Tasks, q = tlock[t]
      PROVE  q \in Requests /\ phase[q] \in Writing
    BY <1>2, ConstantsAssumption DEF Process, OwnerInv, Owns, TypeOK, StoreTypeOK
<1>3. CASE p \in Workers /\ JobAwaits(p, q)
  <2>1. pc[p] \in {"lock", "advance"} => job[p].workflow \in Workflows
    BY <1>3, MessageFields DEF WorkerShape
  <2>2. AboutToWrite(p) \subseteq Tasks
    BY <1>3, ResultFields DEF AboutToWrite, WorkerShape, TypeOK, EngineTypeOK
  <2> QED
    BY <1>1, <1>2, <1>3, <2>1, <2>2 DEF JobAwaits
<1>4. CASE p \in Requests /\ RequestAwaits(p, q)
  <2>1. phase[p] # "idle"
    BY <1>4 DEF RequestAwaits
  <2>2. /\ call[p].workflow \in Workflows /\ call[p].task \in Tasks
        /\ Upstream[call[p].task] \subseteq Tasks
    BY <1>4, <2>1, CallFields, ConstantsAssumption DEF RequestShape
  <2>3. TasksOf(call[p].workflow) \subseteq Tasks
    BY DEF TasksOf
  <2> QED
    BY <1>1, <1>2, <1>4, <2>2, <2>3 DEF RequestAwaits
<1> QED
    BY <1>3, <1>4 DEF Awaits

\* A request that only ends waits for nobody.
LEMMA FinishingWaitsNot ==
    ASSUME WaitBase, NEW r \in Requests, Finishing(r), NEW q
    PROVE  ~Awaits(r, q)
BY ConstantsAssumption DEF Awaits, RequestAwaits, Finishing

\* A worker that has its workflow row and waits, waits for a task row; who has
\* it and waits as well is a removal.
LEMMA HolderAwaits ==
    ASSUME WaitBase, NEW v \in Workers, Holding(v), NEW q \in Process, Awaits(v, q),
           NEW x, Awaits(q, x)
    PROVE  /\ q \in Requests /\ phase[q] = "removing"
           /\ \E t \in AboutToWrite(v) : t \in Tasks /\ tlock[t] = q
<1> USE DEF WaitBase, EditBase, TypeInv
<1>1. AboutToWrite(v) \subseteq Tasks
    BY ResultFields DEF AboutToWrite, WorkerShape, TypeOK, EngineTypeOK
<1>2. PICK t \in AboutToWrite(v) : tlock[t] = q
    BY ConstantsAssumption DEF Awaits, JobAwaits, Holding
<1>3. q \in Requests /\ phase[q] \in Writing
    BY <1>1, <1>2, ConstantsAssumption DEF Process, OwnerInv, Owns, TypeOK, StoreTypeOK
<1>4. phase[q] = "removing"
    BY <1>3, FinishingWaitsNot DEF Finishing, Writing
<1> QED
    BY <1>1, <1>2, <1>3, <1>4

\* A removal that waits for somebody who waits as well, waits for a worker that
\* has the workflow row, or for a removal that has rows of the same workflow.
LEMMA RemovalAwaits ==
    ASSUME WaitBase, NEW r \in Requests, phase[r] = "removing",
           NEW q \in Process, Awaits(r, q), NEW x, Awaits(q, x)
    PROVE  \/ q \in Workers /\ Holding(q) /\ wlock[call[r].workflow] = q
           \/ /\ q \in Requests /\ q # r /\ phase[q] = "removing"
              /\ \E t \in TasksOf(call[r].workflow) : tlock[t] = q
<1> USE DEF WaitBase, EditBase, TypeInv, Process
<1>1. q \in Requests => phase[q] = "removing"
  <2>1. q \in Requests => phase[q] \in Writing /\ ~Finishing(q)
    BY AwaitedOwns, FinishingWaitsNot, ConstantsAssumption
  <2> QED
    BY <2>1 DEF Finishing, Writing
<1>2. r \notin Workers /\ call[r].workflow \in Workflows /\ call[r].op = "remove"
    BY ConstantsAssumption, CallFields DEF RequestShape
<1>3. q \in Requests => call[q].op = "remove"
    BY <1>1 DEF RequestShape
<1>4. \/ q = wlock[call[r].workflow] \/ q \in keyShare[call[r].workflow]
      \/ q # r /\ \E t \in TasksOf(call[r].workflow) : q = tlock[t]
    BY <1>2, <1>3 DEF Awaits, RequestAwaits
<1>5. CASE q = wlock[call[r].workflow] \/ q \in keyShare[call[r].workflow]
  <2>1. q \notin Requests
    BY <1>1, <1>2, <1>5 DEF WaitInv, RowOwners, Finishing
  <2>2. q = wlock[call[r].workflow]
    BY <1>2, <1>5, <2>1 DEF TypeOK, StoreTypeOK
  <2> QED
    BY <1>2, <2>1, <2>2 DEF WaitInv, RowOwners
<1>6. ASSUME q # r, NEW t \in TasksOf(call[r].workflow), q = tlock[t]
      PROVE  q \in Requests /\ q # r /\ phase[q] = "removing"
    BY <1>1, <1>6, ConstantsAssumption DEF TasksOf, TypeOK, StoreTypeOK
<1> QED
    BY <1>4, <1>5, <1>6

\* A removal that has task rows waits for a worker only.
LEMMA RemoverAwaits ==
    ASSUME WaitBase, NEW r \in Requests, phase[r] = "removing", NEW t \in Tasks, tlock[t] = r,
           NEW q \in Process, Awaits(r, q), NEW x, Awaits(q, x)
    PROVE  q \in Workers /\ Holding(q) /\ wlock[call[r].workflow] = q
<1> USE DEF WaitBase, EditBase, TypeInv
<1> SUFFICES ASSUME q \in Requests, q # r, phase[q] = "removing",
                    NEW u \in TasksOf(call[r].workflow), tlock[u] = q
             PROVE  FALSE
    BY RemovalAwaits
<1>1. Removes(r) /\ Removes(q)
    BY DEF Removes, RequestShape
<1>2. WorkflowOf[t] = call[r].workflow /\ u \in Tasks /\ WorkflowOf[u] = call[r].workflow
    BY <1>1 DEF Removes, OwnerInv, Owns, TasksOf
<1> QED
    BY <1>1, <1>2 DEF WaitInv, OneRemoval

\* Where everybody waits for one of the set, there is a circle.
LEMMA CircleWithin ==
    ASSUME NEW S \in SUBSET Workers, AwaitEachOther(S)
    PROVE  \E C \in SUBSET S : Circle(C)
<1> DEFINE Closed == {T \in SUBSET S : AwaitEachOther(T)}
<1>1. IsFiniteSet(S)
    BY WorkersAssumption, FS_Subset
<1>2. IsWellFoundedOn(StrictSubsetOrdering(S), SUBSET S)
    BY <1>1, FS_StrictSubsetOrderingWellFounded, FS_FiniteSubsetsOfFinite
<1>3. Closed \subseteq SUBSET S /\ Closed # {}
    OBVIOUS
<1> HIDE DEF Closed
<1>4. PICK C \in Closed : \A T \in Closed : <<T, C>> \notin StrictSubsetOrdering(S)
    BY <1>2, <1>3, WFMin
<1>5. C \in SUBSET S /\ AwaitEachOther(C)
    BY <1>3 DEF Closed
<1>6. ASSUME NEW T \in SUBSET C, AwaitEachOther(T) PROVE T = C
  <2>1. T \in Closed /\ T \in SUBSET S
    BY <1>5, <1>6 DEF Closed
  <2> QED
    BY <1>4, <1>5, <2>1 DEF StrictSubsetOrdering
<1> QED
    BY <1>5, <1>6 DEF Circle

\* Among those that wait for one another some are workers that have a workflow
\* row, and these wait for one another by way of removals.
LEMMA StuckWorkers ==
    ASSUME WaitBase, NEW P \in SUBSET Process, P # {},
           \A p \in P : \E q \in P : Awaits(p, q)
    PROVE  AwaitEachOther({v \in P \cap Workers : Holding(v)})
<1> DEFINE S == {v \in P \cap Workers : Holding(v)}
<1>1. ASSUME NEW r \in P, r \in Requests, phase[r] = "removing",
             NEW t \in Tasks, tlock[t] = r
      PROVE  \E w \in S : wlock[call[r].workflow] = w
  <2>1. PICK q \in P : Awaits(r, q)
    OBVIOUS
  <2>2. PICK x \in P : Awaits(q, x)
    OBVIOUS
  <2> QED
    BY <1>1, <2>1, <2>2, RemoverAwaits
<1>2. ASSUME NEW r \in P, r \in Requests, phase[r] = "removing" PROVE S # {}
  <2>1. PICK q \in P : Awaits(r, q)
    OBVIOUS
  <2>2. PICK x \in P : Awaits(q, x)
    OBVIOUS
  <2>3. CASE q \in Workers /\ Holding(q)
    BY <2>3
  <2>4. CASE /\ q \in Requests /\ q # r /\ phase[q] = "removing"
             /\ \E t \in TasksOf(call[r].workflow) : tlock[t] = q
    BY <1>1, <2>4 DEF TasksOf
  <2> QED
    BY <1>2, <2>1, <2>2, <2>3, <2>4, RemovalAwaits
<1>3. S # {}
  <2>1. PICK p \in P : TRUE
    OBVIOUS
  <2>2. PICK q \in P : Awaits(p, q)
    OBVIOUS
  <2>3. PICK x \in P : Awaits(q, x)
    OBVIOUS
  <2>4. CASE q \in Workers /\ Holding(q)
    BY <2>4
  <2>5. CASE q \in Requests /\ phase[q] \in Writing
    BY <1>2, <2>3, <2>5, FinishingWaitsNot DEF Writing, Finishing
  <2> QED
    BY <2>2, <2>4, <2>5, AwaitedOwns
<1>4. ASSUME NEW v \in S PROVE \E w \in S : WaitsFor(v, w)
  <2>1. PICK q \in P : Awaits(v, q)
    OBVIOUS
  <2>2. PICK x \in P : Awaits(q, x)
    OBVIOUS
  <2>3. /\ q \in Requests /\ phase[q] = "removing"
        /\ \E t \in AboutToWrite(v) : t \in Tasks /\ tlock[t] = q
    BY <2>1, <2>2, HolderAwaits
  <2> QED
    BY <1>1, <2>3 DEF WaitsFor
<1> QED
    BY <1>3, <1>4 DEF AwaitEachOther

\* Nobody is stuck (orchestration_engine.py:33, 101; workflow_service.py:105;
\* core/database.py:50-59): for any number of workers and requests, a set of them
\* that wait for one another, or for a lock left behind, has a worker in it that
\* is in a circle of workers and removals.  SomebodyMoves says in terms of
\* ENABLED what this says in terms of who waits for whom.
THEOREM NobodyIsStuck == Spec => []NobodyStuck
<1>1. WaitBase => NobodyStuck
  <2> SUFFICES ASSUME WaitBase, NEW P \in SUBSET Process, StuckTogether(P)
               PROVE  \E w \in P \cap Workers : Deadlocked(w)
    BY DEF NobodyStuck, Process
  <2>1. ASSUME NEW p \in P PROVE \E q \in P : Awaits(p, q)
    <3>1. PICK q \in Process : Awaits(p, q) /\ (q \in P \/ Over(q))
      BY DEF StuckTogether, Process
    <3>2. ~Over(q)
      BY <3>1, AwaitedOwns, ConstantsAssumption DEF Over, Holding, Writing
    <3> QED
      BY <3>1, <3>2
  <2>2. AwaitEachOther({v \in P \cap Workers : Holding(v)})
    BY <2>1, StuckWorkers DEF StuckTogether
  <2>3. PICK C \in SUBSET {v \in P \cap Workers : Holding(v)} : Circle(C)
    BY <2>2, CircleWithin
  <2>4. PICK w \in C : TRUE
    BY <2>3 DEF Circle, AwaitEachOther
  <2> QED
    BY <2>3, <2>4 DEF Deadlocked
<1> QED
    BY <1>1, WaitSafety, PTL

-----------------------------------------------------------------------------
(* How long a deadlock lasts.                                              *)

\* What becomes of a job that is about to write task rows.
WriterChange(v) ==
    pc[v] \in {"merge", "commit"} /\ pc'[v] # "idle" =>
        \/ pc'[v] = pc[v] /\ job'[v] = job[v] /\ batch'[v] = batch[v]
        \/ HandleTaskResult_Commit(v) \/ AdvanceWorkflow_Commit(v)

\* A worker that is about to write task rows does so, gives up or waits.
LEMMA WriterChanges ==
    ASSUME TypeInv, [Next]_vars, NEW v \in Workers
    PROVE  WriterChange(v)
<1> USE DEF TypeInv, TypeOK, EngineTypeOK, WriterChange
<1>1. ASSUME NEW w \in Workers, Receive(w) PROVE WriterChange(v)
    BY <1>1 DEF Receive
<1>2. ASSUME NEW w \in Workers, HandleTaskResult_Fetch(w) PROVE WriterChange(v)
    BY <1>2 DEF Return, HandleTaskResult_Fetch
<1>3. ASSUME NEW w \in Workers, HandleTaskResult_Lock(w) PROVE WriterChange(v)
    BY <1>3 DEF Return, HandleTaskResult_Lock
<1>4. ASSUME NEW w \in Workers, HandleTaskResult_Commit(w) PROVE WriterChange(v)
    BY <1>4 DEF HandleTaskResult_Commit
<1>5. ASSUME NEW w \in Workers, AdvanceWorkflow_Skip(w) PROVE WriterChange(v)
    BY <1>5 DEF Return, AdvanceWorkflow_Skip
<1>6. ASSUME NEW w \in Workers, AdvanceWorkflow_Evaluate(w) PROVE WriterChange(v)
    BY <1>6 DEF AdvanceWorkflow_Evaluate
<1>7. ASSUME NEW w \in Workers, AdvanceWorkflow_Publish(w) PROVE WriterChange(v)
    BY <1>7 DEF AdvanceWorkflow_Publish
<1>8. ASSUME NEW w \in Workers, AdvanceWorkflow_Commit(w) PROVE WriterChange(v)
    BY <1>8 DEF Return, AdvanceWorkflow_Commit
<1>9. ASSUME NEW w \in Workers, Ack(w) PROVE WriterChange(v)
    BY <1>9 DEF Ack
<1>10. ASSUME NEW w \in Workers, Retry(w) PROVE WriterChange(v)
    BY <1>10 DEF Abandon, Retry
<1>11. ASSUME NEW w \in Workers, Crash(w) PROVE WriterChange(v)
    BY <1>11 DEF Abandon, Crash
<1>12. CASE ReapZombie
    BY <1>12 DEF ReapZombie, workerVars
<1>13. CASE UNCHANGED engineVars
    BY <1>13 DEF engineVars, workerVars
<1> QED
    BY <1>1, <1>2, <1>3, <1>4, <1>5, <1>6, <1>7, <1>8, <1>9, <1>10, <1>11, <1>12,
       <1>13
    DEF Next, NextEngine, HandleTaskResult, AdvanceWorkflow, Fail, AbortWorker,
        Quiescent, vars

\* The removal is where it was.
RemovalWaits(r) == phase'[r] = "removing" /\ call'[r] = call[r]

\* A removal does not go on while a worker has the workflow row.
LEMMA RemovalStays ==
    ASSUME TypeInv, [Next]_vars, NEW r \in Requests, phase[r] = "removing",
           wlock[call[r].workflow] \in Workers, phase'[r] # "done"
    PROVE  RemovalWaits(r)
<1> USE DEF TypeInv, TypeOK, ApiTypeOK, RemovalWaits
<1>1. ASSUME NEW q \in Requests, UpdateStatus_Check(q) PROVE RemovalWaits(r)
    BY <1>1 DEF Arrive, UpdateStatus_Check
<1>2. ASSUME NEW q \in Requests, UpdateStatus_Flush(q) PROVE RemovalWaits(r)
    BY <1>2 DEF Proceed, UpdateStatus_Flush
<1>3. ASSUME NEW q \in Requests, CreateTask_Check(q) PROVE RemovalWaits(r)
    BY <1>3 DEF Arrive, CreateTask_Check
<1>4. ASSUME NEW q \in Requests, CreateTask_Flush(q) PROVE RemovalWaits(r)
    BY <1>4 DEF Proceed, CreateTask_Flush
<1>5. ASSUME NEW q \in Requests, DeleteTask_Check(q) PROVE RemovalWaits(r)
    BY <1>5 DEF Arrive, DeleteTask_Check
<1>6. ASSUME NEW q \in Requests, DeleteTask_Flush(q) PROVE RemovalWaits(r)
    BY <1>6 DEF Proceed, DeleteTask_Flush
<1>7. ASSUME NEW q \in Requests, CreateWorkflow(q) PROVE RemovalWaits(r)
    BY <1>7 DEF Proceed, CreateWorkflow
<1>8. ASSUME NEW q \in Requests, StartWorkflow(q) PROVE RemovalWaits(r)
    BY <1>8 DEF Proceed, StartWorkflow
<1>9. ASSUME NEW q \in Requests, Transition_Check(q) PROVE RemovalWaits(r)
    BY <1>9 DEF Arrive, Transition_Check
<1>10. ASSUME NEW q \in Requests, Transition_Flush(q) PROVE RemovalWaits(r)
    BY <1>10 DEF Proceed, Transition_Flush
<1>11. ASSUME NEW q \in Requests, RemoveWorkflow_Check(q) PROVE RemovalWaits(r)
    BY <1>11 DEF Arrive, RemoveWorkflow_Check
<1>12. ASSUME NEW q \in Requests, RemoveWorkflow_Tasks(q) PROVE RemovalWaits(r)
    BY <1>12 DEF Proceed, RemoveWorkflow_Tasks
<1>13. ASSUME NEW q \in Requests, RemoveWorkflow_Row(q) PROVE RemovalWaits(r)
    BY <1>13, ConstantsAssumption DEF ForUpdateFree, Proceed, RemoveWorkflow_Row
<1>14. ASSUME NEW q \in Requests, Commit(q) PROVE RemovalWaits(r)
    BY <1>14 DEF Release, Proceed, Commit
<1>15. ASSUME NEW q \in Requests, Rollback(q) PROVE RemovalWaits(r)
    BY <1>15 DEF Release, Proceed, Rollback
<1>16. CASE UNCHANGED apiVars
    BY <1>16 DEF apiVars
<1> QED
    BY <1>1, <1>2, <1>3, <1>4, <1>5, <1>6, <1>7, <1>8, <1>9, <1>10, <1>11, <1>12,
       <1>13, <1>14, <1>15, <1>16
    DEF Next, NextApi, AbortWorker, Quiescent, vars

\* One wait of several lasts.
LEMMA WaitLasts ==
    ASSUME WaitBase, [Next]_vars, NEW S \in SUBSET Workers, ~Aborted(S),
           NEW v \in S, NEW w \in S, WaitsFor(v, w), \E x \in S : WaitsFor(w, x)
    PROVE  WaitsFor(v, w)'
<1> USE DEF WaitBase, EditBase
<1>1. ASSUME NEW x \in S, NEW y \in S, WaitsFor(x, y)
      PROVE  /\ AboutToWrite(x)' = AboutToWrite(x)
             /\ Holding(x) /\ Holding(x)'
  <2>1. PICK t \in AboutToWrite(x) : tlock[t] \in Requests
    BY <1>1 DEF WaitsFor
  <2>2. pc[x] \in {"merge", "commit"}
    BY <2>1 DEF AboutToWrite
  <2>3. ~HandleTaskResult_Commit(x) /\ ~AdvanceWorkflow_Commit(x)
    BY <2>1, ConstantsAssumption
    DEF AboutToWrite, HandleTaskResult_Commit, AdvanceWorkflow_Commit
  <2>4. pc'[x] # "idle"
    BY DEF Aborted
  <2> QED
    BY <2>2, <2>3, <2>4, WriterChanges DEF WriterChange, AboutToWrite, Holding
<1>2. PICK r \in Requests, t \in AboutToWrite(v) :
          phase[r] = "removing" /\ tlock[t] = r /\ wlock[call[r].workflow] = w
    BY DEF WaitsFor
<1>3. phase'[r] = "removing" /\ call'[r] = call[r]
    BY <1>2, RemovalStays DEF Aborted, RemovalWaits
<1>4. t \in Tasks
    BY <1>2, ResultFields
    DEF AboutToWrite, TypeInv, TypeOK, EngineTypeOK, WorkerShape
<1>5. tlock'[t] = r
    BY <1>2, <1>3, <1>4, TaskLockKept DEF Writing
<1>6. call[r].workflow \in Workflows
    BY <1>2, CallFields DEF TypeInv, RequestShape
<1>7. wlock'[call[r].workflow] = w
    BY <1>1, <1>2, <1>6, WorkflowLockKept, ConstantsAssumption
<1> QED
    BY <1>1, <1>2, <1>3, <1>5, <1>7 DEF WaitsFor

\* For any numbers of workers and requests, workers that wait for each other
\* through removals do so until one of these jobs or removals is aborted: nobody
\* else's commit can free them.
THEOREM DeadlocksNeedAborts == Spec => DeadlocksLast
<1>1. WaitBase /\ [Next]_vars =>
          [\A S \in SUBSET Workers :
              AwaitEachOther(S) /\ ~AwaitEachOther(S)' => Aborted(S)]_vars
  <2> SUFFICES ASSUME WaitBase, [Next]_vars, NEW S \in SUBSET Workers,
                      AwaitEachOther(S), ~Aborted(S)
               PROVE  AwaitEachOther(S)'
    OBVIOUS
  <2>1. ASSUME NEW v \in S PROVE \E w \in S : WaitsFor(v, w)'
    BY WaitLasts DEF AwaitEachOther
  <2> QED
    BY <2>1 DEF AwaitEachOther
<1> QED
    BY <1>1, WaitSafety, PTL DEF Spec, DeadlocksLast
=============================================================================
