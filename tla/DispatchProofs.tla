--------------------------- MODULE DispatchProofs ---------------------------
(***************************************************************************)
(* No task is dispatched before its upstream tasks have been COMPLETED.    *)
(* The engine decides on rows it has not locked and dispatches later, so   *)
(* the proof carries the reason along: what made a task ready stays true.  *)
(* And none is forgotten: results are kept until their task has ended, and *)
(* a task that becomes ready is seen by an evaluation that follows, but    *)
(* for the one kind of failure that takes it along.                        *)
(***************************************************************************)
EXTENDS LockProofs

UpstreamDone(t) == \A u \in Upstream[t] : u \in completed \/ status[u] = "DELETED"

\* The result a worker still has in its session when it evaluates was
\* committed: the session overrides the row by a status the row has had.
OwnResult(w) ==
    pc[w] = "advance" /\ row[w] # NoRow =>
        /\ job[w] \in ResultMessage
        /\ job[w].success => job[w].task \in completed

DispatchInv ==
    /\ \A t \in Tasks : status[t] = "COMPLETED" => t \in completed
    /\ \A w \in Workers : OwnResult(w)
    /\ \A w \in Workers : \A t \in batch[w] : UpstreamDone(t)
    /\ DispatchAfterUpstream

\* Initially nothing has been dispatched and no task is COMPLETED.
LEMMA DispatchInit == Init => DispatchInv
BY DEF Init, InitStore, InitEngine, DispatchInv, OwnResult, DispatchAfterUpstream

\* Deleted rows stay deleted and completed only grows, so done stays done.
LEMMA UpstreamStaysDone ==
    ASSUME TypeInv, RowInv, [Next]_vars, NEW t \in Tasks, UpstreamDone(t)
    PROVE  UpstreamDone(t)'
BY RowChanges, ConstantsAssumption DEF UpstreamDone, RowChange

\* Where the tasks of a batch and the object a worker evaluates come from.
DispatchChange(v) ==
    /\ batch'[v] \subseteq batch[v] \/ AdvanceWorkflow_Evaluate(v)
    /\ pc'[v] = "advance" /\ row'[v] # NoRow =>
          \/ pc[v] = "advance" /\ row[v] # NoRow /\ job'[v] = job[v]
          \/ HandleTaskResult_Commit(v)

\* Every step does as DispatchChange says.
LEMMA DispatchChanges ==
    ASSUME TypeInv, [Next]_vars, NEW v \in Workers
    PROVE  DispatchChange(v)
<1> USE DEF TypeInv, TypeOK, EngineTypeOK, DispatchChange
<1>1. ASSUME NEW w \in Workers, Receive(w) PROVE DispatchChange(v)
    BY <1>1 DEF Receive, WorkerShape
<1>2. ASSUME NEW w \in Workers, HandleTaskResult_Fetch(w) PROVE DispatchChange(v)
    BY <1>2 DEF HandleTaskResult_Fetch, Return, WorkerShape
<1>3. ASSUME NEW w \in Workers, HandleTaskResult_Lock(w) PROVE DispatchChange(v)
    BY <1>3 DEF HandleTaskResult_Lock, Return, WorkerShape
<1>4. ASSUME NEW w \in Workers, HandleTaskResult_Commit(w) PROVE DispatchChange(v)
    BY <1>4 DEF HandleTaskResult_Commit, WorkerShape
<1>5. ASSUME NEW w \in Workers, AdvanceWorkflow_Skip(w) PROVE DispatchChange(v)
    BY <1>5 DEF AdvanceWorkflow_Skip, Return, WorkerShape
<1>6. ASSUME NEW w \in Workers, AdvanceWorkflow_Evaluate(w) PROVE DispatchChange(v)
    BY <1>6 DEF AdvanceWorkflow_Evaluate, WorkerShape
<1>7. ASSUME NEW w \in Workers, AdvanceWorkflow_Publish(w) PROVE DispatchChange(v)
    BY <1>7 DEF AdvanceWorkflow_Publish, WorkerShape
<1>8. ASSUME NEW w \in Workers, AdvanceWorkflow_Commit(w) PROVE DispatchChange(v)
    BY <1>8 DEF AdvanceWorkflow_Commit, Return, WorkerShape
<1>9. ASSUME NEW w \in Workers, Ack(w) PROVE DispatchChange(v)
    BY <1>9 DEF Ack, WorkerShape
<1>10. ASSUME NEW w \in Workers, Retry(w) PROVE DispatchChange(v)
    BY <1>10 DEF Retry, Abandon, WorkerShape
<1>11. ASSUME NEW w \in Workers, Crash(w) PROVE DispatchChange(v)
    BY <1>11 DEF Crash, Abandon, WorkerShape
<1>12. CASE ReapZombie
    BY <1>12 DEF ReapZombie, workerVars
<1>13. CASE UNCHANGED engineVars
    BY <1>13 DEF engineVars, workerVars
<1> QED
    BY <1>1, <1>2, <1>3, <1>4, <1>5, <1>6, <1>7, <1>8, <1>9, <1>10, <1>11, <1>12,
       <1>13
    DEF Next, NextEngine, HandleTaskResult, AdvanceWorkflow, Fail, AbortWorker,
        Quiescent, vars

\* Only tasks of a batch are dispatched.
LEMMA DispatchedFromBatch ==
    ASSUME TypeInv, [Next]_vars, NEW t \in Tasks, published'[t] # published[t]
    PROVE  \E w \in Workers : t \in batch[w]
<1>1. ASSUME NEW w \in Workers, AdvanceWorkflow_Publish(w) PROVE t \in batch[w]
    BY <1>1 DEF AdvanceWorkflow_Publish, TypeInv, TypeOK, StoreTypeOK, WorkerShape
<1>2. CASE NextEngine
    BY <1>1, <1>2 DEF NextEngine, HandleTaskResult, AdvanceWorkflow, Receive,
        HandleTaskResult_Fetch, HandleTaskResult_Lock, HandleTaskResult_Commit,
        AdvanceWorkflow_Skip, AdvanceWorkflow_Evaluate, AdvanceWorkflow_Commit,
        Ack, Fail, Retry, Crash, Abandon, ReapZombie, storeVars, history
<1>3. CASE NextApi
    BY <1>3 DEF NextApi, UpdateStatus_Check, UpdateStatus_Flush,
        CreateTask_Check, CreateTask_Flush, DeleteTask_Check, DeleteTask_Flush,
        CreateWorkflow, StartWorkflow, Transition_Check, Transition_Flush,
        RemoveWorkflow_Check, RemoveWorkflow_Tasks, RemoveWorkflow_Row,
        Commit, Rollback, storeVars, history
<1>4. CASE Quiescent \/ UNCHANGED vars
    BY <1>4 DEF Quiescent, vars, storeVars, history
<1>5. \A w \in Workers : ~AbortWorker(w)
    BY DEF AbortWorker, Retry, Abandon
<1> QED
    BY <1>2, <1>3, <1>4, <1>5 DEF Next

\* What an evaluation puts in its batch has its upstream done.
LEMMA ReadyIsDone ==
    ASSUME TypeInv, RowInv, DispatchInv, NEW w \in Workers,
           AdvanceWorkflow_Evaluate(w), NEW t \in batch'[w]
    PROVE  UpstreamDone(t)
<1> DEFINE T == TasksOf(job[w].workflow)
<1>1. t \in Ready(T, StatusSeen(w), UpstreamRows)
    BY DEF AdvanceWorkflow_Evaluate, TypeInv, TypeOK, EngineTypeOK
<1>2. /\ t \in Tasks /\ status[t] # "UNCREATED"
      /\ \A u \in UpstreamRows[t] : StatusSeen(w)[u] = "COMPLETED"
    BY <1>1 DEF Ready, DepsMet, TasksOf, TaskExists, NoRowStatus
<1>3. ASSUME NEW u \in Upstream[t], status[u] # "DELETED" PROVE u \in completed
  <2>1. u \in Tasks /\ u \in UpstreamRows[t]
    BY <1>2, <1>3, ConstantsAssumption DEF RowInv, UpstreamRows, TaskExists, NoRowStatus
  <2>2. StatusSeen(w)[u] = "COMPLETED"
    BY <1>2, <2>1
  <2>3. CASE row[w] # NoRow /\ u = job[w].task
    <3>1. ResultStatus(job[w]) = "COMPLETED"
      BY <2>1, <2>2, <2>3 DEF StatusSeen
    <3>2. job[w].success
      BY <3>1 DEF ResultStatus
    <3> QED
      BY <2>3, <3>2 DEF DispatchInv, OwnResult, AdvanceWorkflow_Evaluate
  <2>4. CASE ~(row[w] # NoRow /\ u = job[w].task)
    BY <2>1, <2>2, <2>4 DEF StatusSeen, DispatchInv
  <2> QED
    BY <2>3, <2>4
<1> QED
    BY <1>3 DEF UpstreamDone

\* The invariant is inductive.
LEMMA DispatchStep == TypeInv /\ RowInv /\ DispatchInv /\ [Next]_vars => DispatchInv'
<1> SUFFICES ASSUME TypeInv, RowInv, DispatchInv, [Next]_vars PROVE DispatchInv'
    OBVIOUS
<1>1. \A t \in Tasks : RowChange(t)
    BY RowChanges
<1>2. \A w \in Workers : DispatchChange(w)
    BY DispatchChanges
<1>3. TypeInv'
    BY TypingStep
<1>4. ASSUME NEW t \in Tasks, status'[t] = "COMPLETED" PROVE t \in completed'
    BY <1>1, <1>4 DEF RowChange, DispatchInv
<1>5. ASSUME NEW w \in Workers PROVE OwnResult(w)'
  <2>1. CASE pc[w] = "advance" /\ row[w] # NoRow /\ job'[w] = job[w]
    <3>1. job[w] \in ResultMessage /\ job[w].task \in Tasks
      BY <2>1, ResultFields DEF DispatchInv, OwnResult
    <3> QED
      BY <1>1, <2>1, <3>1 DEF DispatchInv, OwnResult, RowChange
  <2>2. CASE HandleTaskResult_Commit(w)
    <3>1. job' = job /\ job[w] \in ResultMessage
      BY <2>2 DEF HandleTaskResult_Commit, TypeInv, WorkerShape
    <3>2. job[w].success => job[w].task \in completed'
      BY <2>2 DEF HandleTaskResult_Commit
    <3> QED
      BY <3>1, <3>2 DEF OwnResult
  <2> QED
    BY <1>2, <2>1, <2>2 DEF DispatchChange, OwnResult
<1>6. ASSUME NEW w \in Workers, NEW t \in batch'[w] PROVE UpstreamDone(t)'
  <2>1. t \in Tasks
    BY <1>3 DEF TypeInv, TypeOK, EngineTypeOK
  <2>2. UpstreamDone(t)
    BY <1>2, ReadyIsDone DEF DispatchChange, DispatchInv
  <2> QED
    BY <2>1, <2>2, UpstreamStaysDone
<1>7. ASSUME NEW t \in Tasks, published'[t] > 0 PROVE UpstreamDone(t)'
  <2>1. CASE published'[t] = published[t]
    <3>1. UpstreamDone(t)
      BY <1>7, <2>1 DEF DispatchInv, DispatchAfterUpstream, UpstreamDone
    <3> QED
      BY <3>1, UpstreamStaysDone
  <2>2. CASE published'[t] # published[t]
    <3>1. UpstreamDone(t)
      BY <2>2, DispatchedFromBatch DEF DispatchInv
    <3> QED
      BY <3>1, UpstreamStaysDone
  <2> QED
    BY <2>1, <2>2
<1> QED
    BY <1>4, <1>5, <1>6, <1>7 DEF DispatchInv, DispatchAfterUpstream, UpstreamDone

\* Dispatch in dependency order (orchestration_engine.py:58-62, 81-99): for any
\* graph, any number of workers, requests, faults and crashes, and either kind
\* of session, a task is dispatched only when each of its upstream tasks has
\* been COMPLETED or has been deleted.
THEOREM DispatchInOrder == Spec => []DispatchAfterUpstream
<1> DEFINE Inv == TypeInv /\ RowInv /\ DispatchInv
<1>1. Init => Inv
    BY TypingInit, RowInit, DispatchInit
<1>2. Inv /\ [Next]_vars => Inv'
    BY TypingStep, RowStep, DispatchStep
<1>3. Inv => DispatchAfterUpstream
    BY DEF DispatchInv
<1> QED
    BY <1>1, <1>2, <1>3, PTL DEF Spec

-----------------------------------------------------------------------------
(* Jobs and messages.                                                      *)

\* A job ends by an exception or with its worker.
Breaks(w) == Fail(w) \/ Crash(w) \/ AbortWorker(w)

\* Only a job can break: it is retried, or the worker dies.
LEMMA HowItBreaks ==
    ASSUME NEW w \in Workers, Breaks(w)
    PROVE  pc[w] # "idle" /\ (Retry(w) \/ Crash(w))
<1>1. AbortWorker(w) => AboutToWrite(w) # {}
    BY DEF AbortWorker, Deadlocked, Circle, AwaitEachOther, WaitsFor
<1> QED
    BY <1>1 DEF Breaks, Fail, Crash, AbortWorker, AboutToWrite

\* Where a job comes from, and how its statements follow one another.
WorkerMove(v) ==
    /\ pc'[v] # "idle" => \/ pc[v] # "idle" /\ job'[v] = job[v]
                          \/ job'[v] \in Message /\ queue[job'[v]] > 0
    /\ pc[v] \in {"fetch", "lock", "merge"} =>
          \/ pc'[v] \in {"fetch", "lock", "merge"} /\ job'[v] = job[v]
          \/ HandleTaskResult_Fetch(v) /\ Ended(job[v].task)
          \/ HandleTaskResult_Lock(v) /\ pc[v] = "lock" /\ ~WorkflowExists(job[v].workflow)
          \/ HandleTaskResult_Commit(v)
          \/ Breaks(v)
    /\ pc[v] = "advance" => \/ pc'[v] = "advance" /\ job'[v] = job[v] /\ row'[v] = row[v]
                            \/ AdvanceWorkflow_Skip(v) \/ AdvanceWorkflow_Evaluate(v)
                            \/ Breaks(v)
    /\ Deciding(v) => Deciding(v)' \/ AdvanceWorkflow_Commit(v) \/ Breaks(v)

\* Every step does as WorkerMove says.
LEMMA WorkerMoves ==
    ASSUME TypeInv, [Next]_vars, NEW v \in Workers
    PROVE  WorkerMove(v)
<1> USE DEF TypeInv, TypeOK, EngineTypeOK, WorkerMove, Deciding
<1>1. ASSUME NEW w \in Workers, Receive(w) PROVE WorkerMove(v)
  <2>1. PICK m \in Message : queue[m] > 0 /\ job' = [job EXCEPT ![w] = m]
    BY <1>1 DEF Receive
  <2>2. pc[w] = "idle" /\ \A x \in Workers \ {w} : pc'[x] = pc[x] /\ row' = row
    BY <1>1 DEF Receive
  <2> QED
    BY <2>1, <2>2
<1>2. ASSUME NEW w \in Workers, HandleTaskResult_Fetch(w) PROVE WorkerMove(v)
  <2>1. /\ pc[w] = "fetch" /\ job' = job
        /\ pc'[w] = "lock" \/ (pc'[w] = "ack" /\ Ended(job[w].task))
        /\ \A x \in Workers \ {w} : pc'[x] = pc[x] /\ row'[x] = row[x]
    BY <1>2 DEF HandleTaskResult_Fetch, Return
  <2> QED
    BY <1>2, <2>1
<1>3. ASSUME NEW w \in Workers, HandleTaskResult_Lock(w) PROVE WorkerMove(v)
  <2>1. /\ pc[w] = "lock" /\ job' = job
        /\ pc'[w] = "merge" \/ (pc'[w] = "ack" /\ ~WorkflowExists(job[w].workflow))
        /\ \A x \in Workers \ {w} : pc'[x] = pc[x] /\ row'[x] = row[x]
    BY <1>3 DEF HandleTaskResult_Lock, Return
  <2> QED
    BY <1>3, <2>1
<1>4. ASSUME NEW w \in Workers, HandleTaskResult_Commit(w) PROVE WorkerMove(v)
  <2>1. /\ pc[w] = "merge" /\ pc'[w] = "advance" /\ job' = job
        /\ \A x \in Workers \ {w} : pc'[x] = pc[x] /\ row'[x] = row[x]
    BY <1>4 DEF HandleTaskResult_Commit
  <2> QED
    BY <1>4, <2>1
<1>5. ASSUME NEW w \in Workers, AdvanceWorkflow_Skip(w) PROVE WorkerMove(v)
  <2>1. /\ pc[w] = "advance" /\ pc'[w] = "ack" /\ job' = job
        /\ \A x \in Workers \ {w} : pc'[x] = pc[x] /\ row'[x] = row[x]
    BY <1>5 DEF AdvanceWorkflow_Skip, Return
  <2> QED
    BY <1>5, <2>1
<1>6. ASSUME NEW w \in Workers, AdvanceWorkflow_Evaluate(w) PROVE WorkerMove(v)
  <2>1. /\ pc[w] = "advance" /\ pc'[w] \in {"publish", "commit"} /\ job' = job
        /\ \A x \in Workers \ {w} : pc'[x] = pc[x] /\ row'[x] = row[x]
    BY <1>6 DEF AdvanceWorkflow_Evaluate
  <2> QED
    BY <1>6, <2>1
<1>7. ASSUME NEW w \in Workers, AdvanceWorkflow_Publish(w) PROVE WorkerMove(v)
    BY <1>7 DEF AdvanceWorkflow_Publish
<1>8. ASSUME NEW w \in Workers, AdvanceWorkflow_Commit(w) PROVE WorkerMove(v)
  <2>1. /\ pc[w] = "commit" /\ pc'[w] = "ack" /\ job' = job
        /\ \A x \in Workers \ {w} : pc'[x] = pc[x] /\ row'[x] = row[x]
    BY <1>8 DEF AdvanceWorkflow_Commit, Return
  <2> QED
    BY <1>8, <2>1
<1>9. ASSUME NEW w \in Workers, Ack(w) PROVE WorkerMove(v)
    BY <1>9 DEF Ack
<1>10. ASSUME NEW w \in Workers, Breaks(w) PROVE WorkerMove(v)
  <2>1. Retry(w) \/ Crash(w)
    BY <1>10, HowItBreaks
  <2>2. /\ pc'[w] = "idle"
        /\ \A x \in Workers \ {w} : pc'[x] = pc[x] /\ row'[x] = row[x] /\ job'[x] = job[x]
    BY <2>1 DEF Retry, Crash, Abandon
  <2> QED
    BY <1>10, <2>2
<1>11. CASE ReapZombie \/ UNCHANGED engineVars
    BY <1>11 DEF ReapZombie, engineVars, workerVars
<1> QED
    BY <1>1, <1>2, <1>3, <1>4, <1>5, <1>6, <1>7, <1>8, <1>9, <1>10, <1>11
    DEF Breaks, Next, NextEngine, HandleTaskResult, AdvanceWorkflow, Quiescent, vars

\* Whom a message is from: a client's callback, the reaper, or a job that is
\* to be repeated; and the messages that wake a workflow up.
Origin(m) ==
    \/ m.kind = "advance"
    \/ m.workflow = WorkflowOf[m.task]
    \/ \E c \in Calls : c.op = "result" /\ m.workflow = c.workflow /\ m.task = c.task
    \/ \E w \in Workers : /\ pc[w] # "idle" /\ job[w].kind = "result"
                          /\ m.workflow = job[w].workflow /\ m.task = job[w].task

\* What a job that breaks does to the queue.
LEMMA QueueOfBroken ==
    ASSUME TypeInv, NEW w \in Workers, Breaks(w), queue' # queue
    PROVE  \E m \in Message :
              /\ queue' = Enqueued(m) /\ m.kind = job[w].kind /\ m.workflow = job[w].workflow
              /\ m.kind = "result" => m.task = job[w].task
<1>1. job[w] \in Message
    BY HowItBreaks DEF TypeInv, WorkerShape
<1>2. CASE queue' = Enqueued(job[w])
    BY <1>1, <1>2
<1>3. CASE /\ job[w].retries # MaxRetries
           /\ queue' = Enqueued([job[w] EXCEPT !.retries = @ + 1])
  <2>1. [job[w] EXCEPT !.retries = @ + 1] \in Message
    BY <1>1, <1>3, MessageFields
  <2>2. CASE job[w] \in AdvanceMessage
    BY <1>3, <2>1, <2>2 DEF AdvanceMessage
  <2>3. CASE job[w] \in ResultMessage
    BY <1>3, <2>1, <2>3 DEF ResultMessage
  <2> QED
    BY <1>1, <2>2, <2>3 DEF Message
<1> QED
    BY <1>2, <1>3, HowItBreaks DEF Retry, Crash

\* What can be added to the queue.
LEMMA QueueSteps ==
    ASSUME TypeInv, [Next]_vars
    PROVE  \/ queue' = queue
           \/ \E w \in Workers : Receive(w)
           \/ \E m \in Message : queue' = Enqueued(m) /\ Origin(m)
<1> USE DEF TypeInv
<1>1. ASSUME NEW r \in Requests, UpdateStatus_Flush(r), queue' # queue
      PROVE  \E m \in Message : queue' = Enqueued(m) /\ Origin(m)
  <2>1. call[r] \in Calls /\ call[r].op = "result"
        /\ queue' = Enqueued(Result(call[r].workflow, call[r].task,
                                    call[r].success, call[r].output))
    BY <1>1 DEF UpdateStatus_Flush, RequestShape
  <2>2. Result(call[r].workflow, call[r].task, call[r].success, call[r].output) \in Message
    BY <2>1, CallFields, NewMessages
  <2> QED
    BY <2>1, <2>2 DEF Origin, Result
<1>2. ASSUME NEW wf \in Workflows
      PROVE  Advance(wf) \in Message /\ Origin(Advance(wf))
    BY ConstantsAssumption DEF Origin, Advance, Message, AdvanceMessage
<1>3. ASSUME NEW r \in Requests, StartWorkflow(r), queue' # queue
      PROVE  \E m \in Message : queue' = Enqueued(m) /\ Origin(m)
    BY <1>2, <1>3, CallFields DEF StartWorkflow
<1>4. ASSUME NEW r \in Requests, Transition_Flush(r), queue' # queue
      PROVE  \E m \in Message : queue' = Enqueued(m) /\ Origin(m)
    BY <1>2, <1>4, CallFields DEF Transition_Flush, RequestShape
<1>5. ASSUME ReapZombie
      PROVE  \E m \in Message : queue' = Enqueued(m) /\ Origin(m)
  <2>1. PICK t \in Tasks : queue' = Enqueued(Result(WorkflowOf[t], t, FALSE, FALSE))
    BY <1>5 DEF ReapZombie
  <2>2. Result(WorkflowOf[t], t, FALSE, FALSE) \in Message
    BY ConstantsAssumption, NewMessages
  <2> QED
    BY <2>1, <2>2 DEF Origin, Result
<1>6. ASSUME NEW w \in Workers, HandleTaskResult(w) \/ AdvanceWorkflow(w) \/ Ack(w)
      PROVE  queue' = queue
    BY <1>6 DEF HandleTaskResult, AdvanceWorkflow, HandleTaskResult_Fetch,
        HandleTaskResult_Lock, HandleTaskResult_Commit, AdvanceWorkflow_Skip,
        AdvanceWorkflow_Evaluate, AdvanceWorkflow_Publish, AdvanceWorkflow_Commit,
        Ack, storeVars
<1>7. ASSUME NEW w \in Workers, Breaks(w), queue' # queue
      PROVE  \E m \in Message : queue' = Enqueued(m) /\ Origin(m)
  <2>1. PICK m \in Message :
           /\ queue' = Enqueued(m) /\ m.kind = job[w].kind /\ m.workflow = job[w].workflow
           /\ m.kind = "result" => m.task = job[w].task
    BY <1>7, QueueOfBroken
  <2>2. Origin(m)
    BY <1>7, <2>1, HowItBreaks, MessageFields DEF Origin
  <2> QED
    BY <2>1, <2>2
<1>8. CASE \E r \in Requests :
             \/ UpdateStatus_Check(r) \/ CreateTask_Check(r) \/ CreateTask_Flush(r)
             \/ DeleteTask_Check(r) \/ DeleteTask_Flush(r) \/ CreateWorkflow(r)
             \/ Transition_Check(r) \/ RemoveWorkflow_Check(r) \/ RemoveWorkflow_Tasks(r)
             \/ RemoveWorkflow_Row(r) \/ Commit(r) \/ Rollback(r)
    BY <1>8
    DEF UpdateStatus_Check, CreateTask_Check, CreateTask_Flush, DeleteTask_Check,
        DeleteTask_Flush, CreateWorkflow, Transition_Check, RemoveWorkflow_Check,
        RemoveWorkflow_Tasks, RemoveWorkflow_Row, Commit, Rollback, storeVars
<1>9. CASE Quiescent \/ UNCHANGED vars
    BY <1>9 DEF Quiescent, vars, storeVars
<1> QED
    BY <1>1, <1>3, <1>4, <1>5, <1>6, <1>7, <1>8, <1>9 DEF Breaks, Next, NextEngine, NextApi

\* A message is there until a worker takes it.
LEMMA MessagesStay ==
    ASSUME TypeInv, [Next]_vars, NEW m \in Message, queue[m] > 0
    PROVE  \/ queue'[m] > 0
           \/ \E w \in Workers : Receive(w) /\ job'[w] = m
<1> USE DEF TypeInv, TypeOK, StoreTypeOK, EngineTypeOK
<1>1. ASSUME NEW w \in Workers, Receive(w), queue'[m] = 0 PROVE job'[w] = m
    BY <1>1 DEF Receive
<1>2. ASSUME NEW w \in Workers, Receive(w) PROVE queue'[m] \in Nat
    BY <1>2 DEF Receive
<1>3. ASSUME NEW n \in Message, queue' = Enqueued(n) PROVE queue'[m] > 0
    BY <1>3 DEF Enqueued
<1> QED
    BY <1>1, <1>2, <1>3, QueueSteps

\* No result is dropped (orchestration_engine.py:116-132, workers/tasks.py:98-112,
\* celery_app.py:27): for any instance, a result that was published is in the
\* queue or with a worker until its task has ended, however jobs fail, die, are
\* aborted and retried, unless the last attempt fails or the workflow is gone.
THEOREM ResultsAreKept == Spec => ResultsSurvive
<1> DEFINE Kept == \A t \in Tasks :
              Reported(t) /\ ~Reported(t)' =>
                  \/ HasEnded(t)' \/ GivenUp(t)
                  \/ \E w \in Workers : /\ pc[w] = "lock" /\ job[w].task = t
                                        /\ ~WorkflowExists(job[w].workflow)
<1>1. Init => TypeInv
    BY TypingInit
<1>2. TypeInv /\ [Next]_vars => TypeInv'
    BY TypingStep
<1>3. TypeInv /\ [Next]_vars => [Kept]_vars
  <2> SUFFICES ASSUME TypeInv, [Next]_vars, NEW t \in Tasks, ~Reported(t)',
                      NEW m \in ResultMessage, m.task = t,
                      \/ queue[m] > 0
                      \/ \E w \in Workers : pc[w] \in {"fetch", "lock", "merge"} /\ job[w] = m
               PROVE  \/ HasEnded(t)' \/ GivenUp(t)
                      \/ \E w \in Workers : /\ pc[w] = "lock" /\ job[w].task = t
                                            /\ ~WorkflowExists(job[w].workflow)
    BY DEF Reported
  <2>1. m \in Message /\ m.kind = "result"
    BY DEF Message, ResultMessage
  <2>2. ~(queue'[m] > 0)
    BY DEF Reported
  <2>3. ASSUME NEW w \in Workers PROVE ~(pc'[w] \in {"fetch", "lock", "merge"} /\ job'[w] = m)
    BY DEF Reported
  <2>4. CASE queue[m] > 0
    <3>1. PICK w \in Workers : Receive(w) /\ job'[w] = m
      BY <2>1, <2>2, <2>4, MessagesStay
    <3>2. pc'[w] = "fetch"
      BY <2>1, <3>1 DEF Receive, TypeInv, TypeOK, EngineTypeOK
    <3> QED
      BY <2>3, <3>1, <3>2
  <2>5. ASSUME NEW w \in Workers, pc[w] \in {"fetch", "lock", "merge"}, job[w] = m
        PROVE  \/ HasEnded(t)' \/ GivenUp(t)
               \/ pc[w] = "lock" /\ ~WorkflowExists(job[w].workflow)
    <3>1. CASE HandleTaskResult_Fetch(w) /\ Ended(job[w].task)
      BY <2>5, <3>1 DEF HandleTaskResult_Fetch, Ended, TaskExists, HasEnded, storeVars, rows
    <3>2. CASE HandleTaskResult_Commit(w)
      <4>1. status'[t] = ResultStatus(m)
        BY <2>5, <3>2 DEF HandleTaskResult_Commit, TypeInv, TypeOK, StoreTypeOK
      <4> QED
        BY <4>1, ResultFields DEF HasEnded
    <3>3. CASE Breaks(w)
      <4>1. CASE queue' = queue
        <5>1. pc'[w] = "idle"
          BY <3>3, HowItBreaks DEF Retry, Crash, Abandon, TypeInv, TypeOK, EngineTypeOK
        <5> QED
          BY <2>5, <4>1, <5>1 DEF GivenUp
      <4>2. CASE queue' # queue
        <5>1. PICK n \in Message :
                 queue' = Enqueued(n) /\ n.kind = "result" /\ n.task = t
          BY <2>1, <2>5, <3>3, <4>2, QueueOfBroken
        <5>2. n \in ResultMessage
          BY <5>1, MessageFields
        <5>3. queue'[n] > 0
          BY <5>1 DEF Enqueued, TypeInv, TypeOK, StoreTypeOK
        <5> QED
          BY <5>1, <5>2, <5>3 DEF Reported
      <4> QED
        BY <4>1, <4>2
    <3> QED
      BY <2>3, <2>5, <3>1, <3>2, <3>3, WorkerMoves DEF WorkerMove
  <2> QED
    BY <2>4, <2>5
<1>4. QED
    BY <1>1, <1>2, <1>3, PTL DEF Spec, ResultsSurvive

-----------------------------------------------------------------------------
(* No wake-up is lost.                                                     *)

\* What a wake-up must not meet: tasks that come and go, which wakes nobody up; a
\* callback that ends the task itself, or names another workflow than the
\* task's; a PATCH to RUNNING, which is not followed by an event; and an edge
\* between workflows, for a result wakes up one of them only.
Undisturbed ==
    /\ \A t \in Tasks : \A u \in Upstream[t] : WorkflowOf[u] = WorkflowOf[t]
    /\ \A c \in Calls :
          /\ c.op \notin {"create", "delete"}
          /\ c.op \in TaskStatusOps => c.status # "COMPLETED"
          /\ c.op = "result" => c.workflow = WorkflowOf[c.task]
          /\ c.op = "update" => c.status # "RUNNING"

\* No job fails or dies, nor is one aborted for the sake of a removal.
Unfailing ==
    /\ MaxFaults = 0 /\ MaxCrashes = 0
    /\ {"session_factory", "enum_labels"} \cap Defects = {}
    /\ \A c \in Calls : c.op # "remove"

\* This step is the commit of a removal of wf.
RemovedNow(wf) ==
    \E r \in Requests : Commit(r) /\ call[r].op = "remove" /\ call[r].workflow = wf

OwnWorkflow(m) == m.kind = "result" => m.workflow = WorkflowOf[m.task]

\* A worker's batch is whole: no ready task of its workflow is missing.
Whole(w) ==
    Deciding(w) /\ verdict[w] \notin Terminal => ReadyIn(job[w].workflow) \subseteq batch[w]

\* The status in the object that a result job keeps for its evaluation was
\* read under the lock.
FreshStatus(w) == pc[w] = "merge" => row[w].status = wstatus[job[w].workflow]

\* The task whose result is still in the session is not PENDING in its row.
OwnTask(w) ==
    pc[w] = "advance" /\ row[w] # NoRow =>
        /\ job[w] \in ResultMessage
        /\ status[job[w].task] \notin {"PENDING", "UNCREATED"}

\* A workflow that is being resumed is there.
Resumed(r) ==
    phase[r] = "flushed" /\ call[r].op = "resume" => WorkflowExists(call[r].workflow)

WakeInv ==
    /\ \A m \in Message : queue[m] > 0 => OwnWorkflow(m)
    /\ \A w \in Workers : pc[w] # "idle" => OwnWorkflow(job[w])
    /\ \A w \in Workers : FreshStatus(w) /\ OwnTask(w) /\ Whole(w)
    /\ \A r \in Requests : Resumed(r)

WakeBase == TypeInv /\ RowInv /\ LockInv /\ OwnerInv

\* Initially there are no messages and no jobs.
LEMMA WakeInit == Init => WakeInv
BY DEF Init, InitStore, InitEngine, InitApi, WakeInv, FreshStatus, OwnTask, Whole, Deciding,
       Resumed

\* Messages and jobs are about a task of the workflow they name.
LEMMA OwnWorkflowStep ==
    ASSUME Undisturbed, WakeBase, WakeInv, [Next]_vars
    PROVE  /\ \A m \in Message : queue'[m] > 0 => OwnWorkflow(m)
           /\ \A w \in Workers : pc'[w] # "idle" => OwnWorkflow(job'[w])
<1> USE DEF WakeBase, TypeInv, TypeOK, StoreTypeOK, EngineTypeOK
<1>1. ASSUME NEW m \in Message, queue'[m] > 0 PROVE OwnWorkflow(m)
  <2>1. ASSUME NEW w \in Workers, Receive(w) PROVE queue[m] > 0
    BY <1>1, <2>1 DEF Receive
  <2>2. ASSUME NEW n \in Message, queue' = Enqueued(n), Origin(n)
        PROVE  queue[m] > 0 \/ OwnWorkflow(m)
    <3>1. queue[m] > 0 \/ m = n
      BY <1>1, <2>2 DEF Enqueued
    <3>2. OwnWorkflow(n)
      BY <2>2 DEF Origin, OwnWorkflow, Undisturbed, WakeInv
    <3> QED
      BY <3>1, <3>2
  <2> QED
    BY <1>1, <2>1, <2>2, QueueSteps DEF WakeInv
<1>2. ASSUME NEW w \in Workers, pc'[w] # "idle" PROVE OwnWorkflow(job'[w])
    BY <1>2, WorkerMoves DEF WorkerMove, WakeInv
<1> QED
    BY <1>1, <1>2

\* No row comes, and one goes only with its workflow.
LEMMA RowsStay ==
    ASSUME Undisturbed, WakeBase, [Next]_vars, NEW t \in Tasks, ~RemovedNow(WorkflowOf[t])
    PROVE  TaskExists(t)' = TaskExists(t)
<1> USE DEF WakeBase
<1>1. ASSUME NEW r \in Requests, phase[r] = "flushed"
      PROVE  call[r].op \notin {"create", "delete"}
    BY <1>1 DEF TypeInv, RequestShape, Undisturbed
<1>2. status'[t] # "UNCREATED" <=> status[t] # "UNCREATED"
    BY <1>1, RowChanges DEF RowChange
<1>3. status[t] = "DELETED" => status'[t] = "DELETED"
    BY RowChanges DEF RowChange
<1>4. ASSUME status[t] # "DELETED" PROVE status'[t] # "DELETED"
  <2>1. ASSUME NEW r \in Requests, Commit(r), tlock[t] = r PROVE call[r].op # "remove"
    BY <2>1 DEF RemovedNow, OwnerInv, Owns
  <2>2. ASSUME NEW r \in Requests, Commit(r) PROVE call[r].op # "delete"
    BY <1>1, <2>2 DEF Commit
  <2> QED
    BY <1>4, <2>1, <2>2, Deletions
<1> QED
    BY <1>2, <1>3, <1>4 DEF TaskExists, NoRowStatus

\* The object a worker locked and the task whose result it committed.
LEMMA ObjectStep ==
    ASSUME WakeBase, WakeInv, [Next]_vars, NEW w \in Workers
    PROVE  FreshStatus(w)' /\ OwnTask(w)'
<1> USE DEF WakeBase
<1>1. ASSUME pc'[w] = "merge" PROVE row'[w].status = wstatus'[job'[w].workflow]
    BY <1>1, MergeChanges, StatusHeld DEF MergeChange, WakeInv, FreshStatus, Holding
<1>2. ASSUME pc'[w] = "advance", row'[w] # NoRow
      PROVE  job'[w] \in ResultMessage /\ status'[job'[w].task] \notin {"PENDING", "UNCREATED"}
  <2>1. CASE pc[w] = "advance" /\ row[w] # NoRow /\ job'[w] = job[w]
    BY <2>1, ResultFields, RowChanges DEF RowChange, WakeInv, OwnTask
  <2>2. CASE HandleTaskResult_Commit(w)
    <3>1. job' = job /\ job[w] \in ResultMessage
      BY <2>2 DEF HandleTaskResult_Commit, TypeInv, WorkerShape
    <3>2. status'[job[w].task] \in Terminal
      BY <2>2, <3>1, ResultFields DEF HandleTaskResult_Commit, TypeInv, TypeOK, StoreTypeOK
    <3> QED
      BY <3>1, <3>2 DEF Terminal
  <2> QED
    BY <1>2, <2>1, <2>2, DispatchChanges DEF DispatchChange
<1> QED
    BY <1>1, <1>2 DEF FreshStatus, OwnTask

-----------------------------------------------------------------------------
(* Ready tasks.                                                            *)

\* A task that is ready is a PENDING task of the workflow.
LEMMA ReadyFields ==
    ASSUME NEW wf, NEW t \in ReadyIn(wf)
    PROVE  /\ t \in Tasks /\ WorkflowOf[t] = wf /\ status[t] = "PENDING"
           /\ \A u \in Upstream[t] : TaskExists(u) => status[u] = "COMPLETED"
BY ConstantsAssumption DEF ReadyIn, Ready, DepsMet, TasksOf, UpstreamRows

\* Which task rows become COMPLETED: those of a result that is merged.
LEMMA NewlyCompleted ==
    ASSUME Undisturbed, WakeBase, WakeInv, [Next]_vars, NEW u \in Tasks,
           status[u] # "COMPLETED", status'[u] = "COMPLETED"
    PROVE  \E w \in Workers : /\ HandleTaskResult_Commit(w) /\ UNCHANGED apiVars
                              /\ job[w].workflow = WorkflowOf[u]
<1> USE DEF WakeBase, TypeInv, TypeOK, StoreTypeOK
<1>1. ASSUME NEW w \in Workers, HandleTaskResult_Commit(w)
      PROVE  job[w].workflow = WorkflowOf[u]
  <2>1. job[w] \in ResultMessage
    BY <1>1 DEF HandleTaskResult_Commit, WorkerShape
  <2>2. job[w].task = u
    BY <1>1 DEF HandleTaskResult_Commit
  <2>3. job[w].kind = "result" /\ OwnWorkflow(job[w])
    BY <1>1, <2>1 DEF ResultMessage, HandleTaskResult_Commit, WakeInv
  <2> QED
    BY <2>2, <2>3 DEF OwnWorkflow
<1>2. ASSUME NEW w \in Workers, AdvanceWorkflow_Commit(w) PROVE FALSE
    BY <1>2 DEF AdvanceWorkflow_Commit
<1>3. ASSUME NEW r \in Requests, Commit(r) PROVE FALSE
  <2>1. call[r] \in Calls /\ phase[r] = "flushed" /\ call[r] \in Call
    BY <1>3, CallsAssumption DEF Commit, RequestShape
  <2>2. call[r].op \notin {"create", "delete", "start"}
    BY <2>1 DEF Undisturbed, RowInv, RequestRows, Underway, Writing
  <2>3. CASE call[r].op \in WorkflowOps
    BY <1>3, <2>3 DEF Commit
  <2>4. CASE call[r].op \notin WorkflowOps
    <3>1. call[r].op \in TaskStatusOps
      BY <2>1, <2>2, <2>4 DEF Call, Ops
    <3>2. status' = [status EXCEPT ![call[r].task] = call[r].status]
      BY <1>3, <2>2, <2>4 DEF Commit, NewTaskStatus
    <3> QED
      BY <2>1, <3>1, <3>2 DEF Undisturbed
  <2> QED
    BY <2>3, <2>4
<1> QED
    BY <1>1, <1>2, <1>3, StatusWriters

\* A task becomes ready only by the result of a task of the same workflow.
LEMMA NewlyReady ==
    ASSUME Undisturbed, WakeBase, WakeInv, [Next]_vars, NEW wf \in Workflows,
           NEW t \in ReadyIn(wf)', t \notin ReadyIn(wf), ~RemovedNow(wf)
    PROVE  \E w \in Workers : /\ HandleTaskResult_Commit(w) /\ UNCHANGED apiVars
                              /\ job[w].workflow = wf
<1> USE ConstantsAssumption
<1>1. /\ t \in Tasks /\ WorkflowOf[t] = wf /\ status'[t] = "PENDING"
      /\ \A u \in Upstream[t] : TaskExists(u)' => status'[u] = "COMPLETED"
    BY DEF ReadyIn, Ready, DepsMet, TasksOf, UpstreamRows
<1>2. \A u \in Tasks : WorkflowOf[u] = wf => TaskExists(u)' = TaskExists(u)
    BY RowsStay
<1>3. TaskExists(t) /\ status[t] = "PENDING"
  <2>1. TaskExists(t)'
    BY <1>1 DEF TaskExists, NoRowStatus
  <2> QED
    BY <1>1, <1>2, <2>1, RowChanges DEF RowChange, WakeBase, TaskExists, NoRowStatus
<1>4. PICK u \in UpstreamRows[t] : status[u] # "COMPLETED"
    BY <1>1, <1>3 DEF ReadyIn, Ready, DepsMet, TasksOf
<1>5. u \in Upstream[t] /\ u \in Tasks /\ TaskExists(u)
    BY <1>1, <1>4 DEF UpstreamRows
<1>6. WorkflowOf[u] = wf
    BY <1>1, <1>5 DEF Undisturbed
<1>7. status'[u] = "COMPLETED"
    BY <1>1, <1>2, <1>5, <1>6
<1> QED
    BY <1>4, <1>5, <1>6, <1>7, NewlyCompleted

\* An evaluation that does not end the workflow misses no ready task, although
\* it reads one task's status from its session and not from the row.
LEMMA EvaluationIsWhole ==
    ASSUME Undisturbed, WakeBase, WakeInv, NEW w \in Workers,
           AdvanceWorkflow_Evaluate(w), verdict'[w] \notin Terminal
    PROVE  ReadyIn(job[w].workflow) \subseteq batch'[w]
<1> DEFINE wf == job[w].workflow
           seen == StatusSeen(w)
           outcome == Verdict(TasksOf(wf), seen)
<1> USE ConstantsAssumption DEF WakeBase, TypeInv, TypeOK, EngineTypeOK
<1>1. outcome = "NONE" /\ batch'[w] = Ready(TasksOf(wf), seen, UpstreamRows)
  <2>1. outcome \in {"NONE", "FAILED", "COMPLETED"}
    BY DEF Verdict
  <2> HIDE DEF outcome
  <2>2. outcome = "NONE"
    BY <2>1 DEF AdvanceWorkflow_Evaluate, Terminal, outcome
  <2> QED
    BY <2>2 DEF AdvanceWorkflow_Evaluate, outcome
<1>2. \A u \in TasksOf(wf) : seen[u] # "FAILED"
    BY <1>1 DEF Verdict, AnyFailed
<1>3. SUFFICES ASSUME NEW t \in ReadyIn(wf) PROVE t \in batch'[w]
    OBVIOUS
<1>4. /\ t \in Tasks /\ WorkflowOf[t] = wf /\ status[t] = "PENDING" /\ t \in TasksOf(wf)
      /\ \A u \in Upstream[t] : TaskExists(u) => status[u] = "COMPLETED"
    BY ReadyFields DEF ReadyIn, Ready
<1>5. seen[t] = "PENDING"
    BY <1>4 DEF StatusSeen, WakeInv, OwnTask, AdvanceWorkflow_Evaluate
<1>6. ASSUME NEW u \in UpstreamRows[t] PROVE seen[u] = "COMPLETED"
  <2>1. u \in Tasks /\ u \in Upstream[t] /\ TaskExists(u) /\ status[u] = "COMPLETED"
    BY <1>4 DEF UpstreamRows
  <2>2. u \in TasksOf(wf)
    BY <1>4, <2>1 DEF Undisturbed, TasksOf
  <2>3. seen[u] # "FAILED"
    BY <1>2, <2>2
  <2> QED
    BY <2>1, <2>3 DEF StatusSeen, ResultStatus
<1> QED
    BY <1>1, <1>4, <1>5, <1>6 DEF Ready, DepsMet

\* A worker's batch stays whole: under the lock of its workflow nobody else
\* merges a result there.
LEMMA WholeStep ==
    ASSUME Undisturbed, WakeBase, WakeInv, [Next]_vars, NEW w \in Workers
    PROVE  Whole(w)'
<1> USE DEF WakeBase
<1> SUFFICES ASSUME Deciding(w)', verdict'[w] \notin Terminal
             PROVE  (ReadyIn(job[w].workflow) \subseteq batch[w])'
    BY DEF Whole
<1>1. job[w] \in Message
  <2>1. Deciding(w) \/ AdvanceWorkflow_Evaluate(w)
    BY DecisionKept
  <2> QED
    BY <2>1 DEF TypeInv, WorkerShape, Deciding, AdvanceWorkflow_Evaluate
<1>2. PICK wf \in Workflows : wf = job[w].workflow
    BY <1>1, MessageFields
<1> SUFFICES ASSUME NEW t \in ReadyIn(wf)' PROVE job'[w] = job[w] /\ t \in batch'[w]
    BY <1>2, DecisionKept
<1>3. job'[w] = job[w]
    BY DecisionKept
<1>4. CASE AdvanceWorkflow_Evaluate(w)
  <2>1. status' = status
    BY <1>4 DEF AdvanceWorkflow_Evaluate, rows
  <2>2. t \in ReadyIn(wf)
    BY <2>1 DEF ReadyIn, TasksOf, UpstreamRows, TaskExists
  <2> QED
    BY <1>2, <1>3, <1>4, <2>2, EvaluationIsWhole
<1>5. CASE Deciding(w) /\ verdict'[w] = verdict[w] /\ batch'[w] = batch[w]
  <2>1. t \in ReadyIn(wf)
    <3> SUFFICES ASSUME t \notin ReadyIn(wf) PROVE FALSE
      OBVIOUS
    <3>1. ~RemovedNow(wf)
      BY <1>2, <1>5, ConstantsAssumption
      DEF RemovedNow, Commit, WorkflowOps, LockInv, Holding, Deciding
    <3>2. PICK v \in Workers : HandleTaskResult_Commit(v) /\ job[v].workflow = wf
      BY <3>1, NewlyReady
    <3>3. wlock[wf] = v /\ wlock[wf] = w /\ pc[v] = "merge"
      BY <1>2, <1>5, <3>2 DEF LockInv, Holding, Deciding, HandleTaskResult_Commit
    <3> QED
      BY <1>5, <3>3 DEF Deciding
  <2> QED
    BY <1>2, <1>3, <1>5, <2>1 DEF WakeInv, Whole
<1> QED
    BY <1>4, <1>5, DecisionKept

-----------------------------------------------------------------------------
(* Evaluations that are due.                                               *)

\* A worker that receives an advance message is about to evaluate afresh.
LEMMA AdvanceReceived ==
    ASSUME WakeBase, NEW wf \in Workflows, NEW w \in Workers,
           Receive(w), job'[w] \in AdvanceMessage, job'[w].workflow = wf
    PROVE  Due(wf)'
<1>1. PICK m \in Message :
         /\ job' = [job EXCEPT ![w] = m]
         /\ pc' = [pc EXCEPT ![w] = IF m.kind = "result" THEN "fetch" ELSE "advance"]
    BY DEF Receive
<1>2. m.kind = "advance"
    BY <1>1 DEF WakeBase, TypeInv, TypeOK, EngineTypeOK, AdvanceMessage
<1>3. pc'[w] = "advance" /\ row'[w] = NoRow
    BY <1>1, <1>2 DEF Receive, WakeBase, TypeInv, TypeOK, EngineTypeOK, WorkerShape
<1> QED
    BY <1>2, <1>3 DEF Due

\* A job that breaks at its evaluation comes back or is forgotten.
LEMMA BrokenJob ==
    ASSUME WakeBase, NEW wf \in Workflows, NEW w \in Workers, Breaks(w),
           pc[w] = "advance" \/ Deciding(w), job[w].workflow = wf
    PROVE  Due(wf)' \/ Forgotten(wf)
<1> USE DEF WakeBase, TypeInv, TypeOK, StoreTypeOK, EngineTypeOK
<1>1. job[w] \in Message
    BY DEF WorkerShape, Deciding
<1>2. pc'[w] = "idle"
    BY HowItBreaks DEF Retry, Crash, Abandon
<1>3. CASE job[w].kind = "result" \/ queue' = queue
    BY <1>2, <1>3 DEF Forgotten, Deciding
<1>4. CASE job[w].kind = "advance" /\ queue' # queue
  <2>1. PICK n \in Message :
           queue' = Enqueued(n) /\ n.kind = "advance" /\ n.workflow = wf
    BY <1>4, QueueOfBroken
  <2>2. n \in AdvanceMessage /\ queue'[n] > 0
    BY <2>1 DEF Message, ResultMessage, Enqueued
  <2> QED
    BY <2>1, <2>2 DEF Due
<1> QED
    BY <1>1, <1>3, <1>4, MessageFields

\* An evaluation that is due stays so until it is done or forgotten; it is
\* skipped only if nobody has the lock and the workflow is not active.
LEMMA DueKept ==
    ASSUME WakeBase, [Next]_vars, NEW wf \in Workflows, WorkflowExists(wf), Due(wf)
    PROVE  \/ Due(wf)' \/ Forgotten(wf)
           \/ wlock[wf] = Nobody /\ wstatus[wf] \notin Active
           \/ \E w \in Workers : AdvanceWorkflow_Evaluate(w) /\ job[w].workflow = wf
<1>1. ASSUME NEW m \in AdvanceMessage, m.workflow = wf, queue[m] > 0 PROVE Due(wf)'
  <2>1. m \in Message
    BY DEF Message
  <2>2. CASE queue'[m] > 0
    BY <1>1, <2>2 DEF Due
  <2>3. ASSUME NEW w \in Workers, Receive(w), job'[w] = m PROVE Due(wf)'
    BY <1>1, <2>3, AdvanceReceived
  <2> QED
    BY <1>1, <2>1, <2>2, <2>3, MessagesStay DEF WakeBase
<1>2. ASSUME NEW w \in Workers, pc[w] = "advance", job[w].workflow = wf,
             row[w] # NoRow => row[w].status \in Active
      PROVE  \/ Due(wf)' \/ Forgotten(wf)
             \/ wlock[wf] = Nobody /\ wstatus[wf] \notin Active
             \/ AdvanceWorkflow_Evaluate(w)
  <2>1. CASE pc'[w] = "advance" /\ job'[w] = job[w] /\ row'[w] = row[w]
    BY <1>2, <2>1 DEF Due
  <2>2. CASE AdvanceWorkflow_Skip(w)
    BY <1>2, <2>2 DEF AdvanceWorkflow_Skip, ForUpdateFree, RowSeen
  <2>3. CASE Breaks(w)
    BY <1>2, <2>3, BrokenJob
  <2> QED
    BY <1>2, <2>1, <2>2, <2>3, WorkerMoves DEF WorkerMove, WakeBase
<1> QED
    BY <1>1, <1>2 DEF Due

\* Nobody removes a workflow that is being resumed.
LEMMA ResumedStep ==
    ASSUME Undisturbed, WakeBase, WakeInv, [Next]_vars, NEW r \in Requests
    PROVE  Resumed(r)'
<1> USE DEF WakeBase, TypeInv, TypeOK, StoreTypeOK, ApiTypeOK
<1> SUFFICES ASSUME phase'[r] = "flushed", call'[r].op = "resume"
             PROVE  WorkflowExists(call[r].workflow)'
    BY DEF Resumed
<1>1. PICK wf : wf = call'[r].workflow
    OBVIOUS
<1> SUFFICES WorkflowExists(wf)'
    BY <1>1 DEF WorkflowExists
<1>2. CASE phase[r] = "flushed"
  <2>1. call'[r] = call[r] /\ call[r] \in Calls
    BY <1>2, RequestChanges DEF RequestChange, RequestShape
  <2>2. wf \in Workflows /\ WorkflowExists(wf)
    BY <1>1, <1>2, <2>1, CallFields DEF WakeInv, Resumed
  <2>3. ASSUME NEW q \in Requests, Commit(q), call[q].op = "remove", call[q].workflow = wf
        PROVE  FALSE
    BY <1>1, <1>2, <2>1, <2>3 DEF Commit, LockInv, WorkflowOps, WorkflowStatusOps
  <2> QED
    BY <2>2, <2>3, WorkflowsGo
<1>3. CASE phase[r] # "flushed"
  <2>1. Transition_Flush(r)
    BY <1>3, FlushChanges DEF FlushChange, WorkflowStatusOps
  <2>2. call' = call /\ WorkflowExists(wf) /\ rows' = rows
    BY <1>1, <2>1 DEF Transition_Flush, Proceed
  <2> QED
    BY <2>2 DEF WorkflowExists, rows
<1> QED
    BY <1>2, <1>3

\* The message a request publishes with its resume is not used up before its
\* commit: the request has the row.
LEMMA AnnouncedStep ==
    ASSUME Undisturbed, WakeBase, WakeInv, [Next]_vars, NEW wf \in Workflows, Announced(wf)
    PROVE  Announced(wf)' \/ Forgotten(wf)
<1> USE DEF WakeBase, TypeInv, TypeOK, StoreTypeOK, ApiTypeOK
<1> SUFFICES ASSUME NEW r \in Requests, phase'[r] = "flushed", call'[r].op = "resume",
                    call'[r].workflow = wf
             PROVE  Due(wf)' \/ Forgotten(wf)
    BY DEF Announced
<1>1. CASE phase[r] = "flushed"
  <2>1. call'[r] = call[r]
    BY <1>1, RequestChanges DEF RequestChange
  <2>2. WorkflowExists(wf) /\ Due(wf) /\ wlock[wf] = r /\ r # Nobody
    BY <1>1, <2>1, ConstantsAssumption
    DEF WakeInv, Resumed, Announced, LockInv, WorkflowOps, WorkflowStatusOps
  <2>3. ASSUME NEW w \in Workers, AdvanceWorkflow_Evaluate(w), job[w].workflow = wf
        PROVE  wlock[wf] = Nobody
    BY <2>3 DEF AdvanceWorkflow_Evaluate, ForUpdateFree
  <2> QED
    BY <2>2, <2>3, DueKept
<1>2. CASE phase[r] # "flushed"
  <2>1. Transition_Flush(r)
    BY <1>2, FlushChanges DEF FlushChange, WorkflowStatusOps
  <2>2. queue' = Enqueued(Advance(wf))
    BY <2>1 DEF Transition_Flush, Proceed
  <2>3. Advance(wf) \in Message /\ Advance(wf) \in AdvanceMessage /\ Advance(wf).workflow = wf
    BY ConstantsAssumption DEF Advance, Message, AdvanceMessage
  <2>4. queue'[Advance(wf)] > 0
    BY <2>2, <2>3 DEF Enqueued
  <2> QED
    BY <2>3, <2>4 DEF Due
<1> QED
    BY <1>1, <1>2

-----------------------------------------------------------------------------
(* Every ready task is seen.                                               *)

\* A ready task is in the batch of whoever evaluates, or the workflow ends.
LEMMA EvaluationSees ==
    ASSUME Undisturbed, WakeBase, WakeInv, NEW w \in Workers,
           AdvanceWorkflow_Evaluate(w), NEW wf, wf = job[w].workflow,
           NEW t \in ReadyIn(wf)
    PROVE  Seen(wf, t)'
<1>1. t \in batch'[w] \/ verdict'[w] \in Terminal
    BY EvaluationIsWhole
<1>2. job'[w] = job[w] /\ pc'[w] \in {"publish", "commit"}
    BY DEF AdvanceWorkflow_Evaluate, WakeBase, TypeInv, TypeOK, EngineTypeOK
<1> QED
    BY <1>1, <1>2 DEF Seen, Deciding

\* What was evaluated stays so until the commit, which dispatches the task or
\* ends the workflow; or the job breaks, and comes back or is forgotten.
LEMMA SeenKept ==
    ASSUME WakeBase, [Next]_vars, NEW wf \in Workflows, wstatus'[wf] = "RUNNING",
           NEW t \in Tasks, status'[t] = "PENDING", Seen(wf, t)
    PROVE  Seen(wf, t)' \/ Due(wf)' \/ Forgotten(wf)
<1> USE DEF WakeBase, TypeInv, TypeOK, StoreTypeOK, EngineTypeOK
<1>1. PICK w \in Workers : /\ Deciding(w) /\ job[w].workflow = wf
                           /\ t \in batch[w] \/ verdict[w] \in Terminal
    BY DEF Seen, Deciding
<1>2. CASE Deciding(w)'
  <2>1. ~AdvanceWorkflow_Evaluate(w)
    BY <1>1 DEF Deciding, AdvanceWorkflow_Evaluate
  <2>2. job'[w] = job[w] /\ verdict'[w] = verdict[w] /\ batch'[w] = batch[w]
    BY <1>2, <2>1, DecisionKept
  <2> QED
    BY <1>1, <1>2, <2>2 DEF Seen, Deciding
<1>3. CASE AdvanceWorkflow_Commit(w)
  <2>1. status' = [x \in Tasks |-> IF x \in batch[w] THEN "QUEUED" ELSE status[x]]
    BY <1>3 DEF AdvanceWorkflow_Commit
  <2>2. verdict[w] \in Terminal
    BY <1>1, <2>1
  <2>3. wstatus' = [wstatus EXCEPT ![wf] = verdict[w]]
    BY <1>1, <1>3, <2>2 DEF AdvanceWorkflow_Commit, Terminal
  <2> QED
    BY <2>2, <2>3 DEF Terminal
<1>4. CASE Breaks(w)
    BY <1>1, <1>4, BrokenJob
<1> QED
    BY <1>1, <1>2, <1>3, <1>4, WorkerMoves DEF WorkerMove

\* The task that a merged result makes ready is seen by its worker's evaluation.
LEMMA WokenByResult ==
    ASSUME Undisturbed, WakeBase, WakeInv, [Next]_vars,
           NEW wf \in Workflows, wstatus'[wf] = "RUNNING",
           NEW t \in ReadyIn(wf)', t \notin ReadyIn(wf)
    PROVE  Due(wf)'
<1> USE DEF WakeBase, TypeInv, TypeOK, EngineTypeOK
<1> ~RemovedNow(wf)
    BY DEF RemovedNow, Commit, WorkflowOps, NewWorkflowStatus, StoreTypeOK
<1>1. PICK w \in Workers : HandleTaskResult_Commit(w) /\ job[w].workflow = wf
    BY NewlyReady
<1>2. pc'[w] = "advance" /\ job' = job /\ wstatus' = wstatus
    BY <1>1 DEF HandleTaskResult_Commit
<1>3. row[w] \in Row /\ row[w].status = wstatus[wf]
    BY <1>1 DEF WakeInv, FreshStatus, HandleTaskResult_Commit, WorkerShape
<1>4. row'[w] # NoRow => row'[w].status = row[w].status
    BY <1>1, <1>3 DEF HandleTaskResult_Commit, Row
<1> QED
    BY <1>1, <1>2, <1>3, <1>4 DEF Due, Active

\* A workflow becomes RUNNING by its first evaluation, which has seen every
\* ready task, or by a resume, whose message is still there.
LEMMA WokenByStart ==
    ASSUME Undisturbed, WakeBase, WakeInv, [Next]_vars,
           NEW wf \in Workflows, wstatus[wf] # "RUNNING", wstatus'[wf] = "RUNNING",
           NEW t \in ReadyIn(wf), status'[t] = "PENDING", Announced(wf)
    PROVE  Due(wf)' \/ Forgotten(wf)
<1> USE DEF WakeBase, TypeInv, TypeOK, StoreTypeOK
<1>1. ASSUME NEW w \in Workers, AdvanceWorkflow_Commit(w) PROVE FALSE
  <2>1. wf = job[w].workflow /\ verdict[w] = "RUNNING"
    BY <1>1 DEF AdvanceWorkflow_Commit
  <2>2. t \in batch[w]
    BY <1>1, <2>1 DEF WakeInv, Whole, Deciding, Terminal, AdvanceWorkflow_Commit
  <2>3. status' = [x \in Tasks |-> IF x \in batch[w] THEN "QUEUED" ELSE status[x]]
    BY <1>1 DEF AdvanceWorkflow_Commit
  <2> QED
    BY <2>2, <2>3, ReadyFields
<1>2. ASSUME NEW r \in Requests, Commit(r) PROVE Due(wf)' \/ Forgotten(wf)
  <2>1. call[r] \in Calls /\ phase[r] = "flushed"
    BY <1>2 DEF Commit, RequestShape
  <2>2. /\ call[r].op \in WorkflowOps /\ call[r].workflow = wf
        /\ NewWorkflowStatus(call[r]) = "RUNNING"
    BY <1>2 DEF Commit
  <2>3. call[r].op = "resume"
    BY <2>1, <2>2 DEF Undisturbed, NewWorkflowStatus, TargetStatus, WorkflowOps,
        WorkflowStatusOps
  <2>4. WorkflowExists(wf) /\ Due(wf) /\ wlock[wf] = r /\ r # Nobody
    BY <2>1, <2>2, <2>3, ConstantsAssumption DEF WakeInv, Resumed, Announced, LockInv
  <2>5. ASSUME NEW w \in Workers, AdvanceWorkflow_Evaluate(w), job[w].workflow = wf
        PROVE  wlock[wf] = Nobody
    BY <2>5 DEF AdvanceWorkflow_Evaluate, ForUpdateFree
  <2> QED
    BY <2>4, <2>5, DueKept
<1> QED
    BY <1>1, <1>2, WorkflowWriters

\* A workflow that is attended to stays so, unless a job is forgotten.
LEMMA AttendedStep ==
    ASSUME Undisturbed, WakeBase, WakeInv, [Next]_vars, NEW wf \in Workflows,
           Attended(wf), Announced(wf)
    PROVE  Attended(wf)' \/ Forgotten(wf)
<1> SUFFICES ASSUME wstatus'[wf] = "RUNNING", NEW t \in ReadyIn(wf)'
             PROVE  Due(wf)' \/ Seen(wf, t)' \/ Forgotten(wf)
    BY DEF Attended
<1>1. t \in Tasks /\ status'[t] = "PENDING"
    BY DEF ReadyIn, Ready, TasksOf
<1>2. CASE t \notin ReadyIn(wf)
    BY <1>2, WokenByResult
<1>3. CASE t \in ReadyIn(wf) /\ wstatus[wf] # "RUNNING"
    BY <1>1, <1>3, WokenByStart
<1>4. CASE t \in ReadyIn(wf) /\ wstatus[wf] = "RUNNING"
  <2>1. WorkflowExists(wf) /\ wstatus[wf] \in Active
    BY <1>4 DEF WorkflowExists, NoRowStatus, Active
  <2>2. CASE Due(wf)
    BY <1>4, <2>1, <2>2, DueKept, EvaluationSees
  <2>3. CASE Seen(wf, t)
    BY <1>1, <2>3, SeenKept
  <2> QED
    BY <1>4, <2>2, <2>3 DEF Attended
<1> QED
    BY <1>2, <1>3, <1>4

\* What the wake-ups rest on is an invariant, failures or not.
LEMMA WakeStep ==
    ASSUME Undisturbed
    PROVE  WakeBase /\ WakeInv /\ [Next]_vars => WakeInv'
<1> SUFFICES ASSUME WakeBase, WakeInv, [Next]_vars PROVE WakeInv'
    OBVIOUS
<1> QED
    BY OwnWorkflowStep, ObjectStep, WholeStep, ResumedStep DEF WakeInv

NoneDeleted == \A t \in Tasks : status[t] # "DELETED"

\* Without deletions and removals no row goes.
LEMMA NoneDeletedStep ==
    ASSUME Undisturbed, Unfailing, WakeBase, NoneDeleted, [Next]_vars
    PROVE  NoneDeleted'
<1>1. ASSUME NEW r \in Requests, Commit(r) PROVE call[r].op \notin {"delete", "remove"}
    BY <1>1 DEF WakeBase, TypeInv, RequestShape, Commit, Undisturbed, Unfailing
<1> QED
    BY <1>1, Deletions DEF WakeBase, NoneDeleted

\* If no job fails none is forgotten.
LEMMA NoneForgotten ==
    ASSUME Unfailing, WakeBase, NoneDeleted, [Next]_vars, NEW wf \in Workflows
    PROVE  ~Forgotten(wf)
<1> USE DEF WakeBase, TypeInv, TypeOK, EngineTypeOK
<1> SUFFICES ASSUME NEW w \in Workers, pc[w] = "advance" \/ Deciding(w), pc'[w] = "idle"
             PROVE  FALSE
    BY DEF Forgotten, Deciding
<1>1. SessionOpens /\ Storable("QUEUED") /\ ~MustFail(w)
    BY DEF Unfailing, SessionOpens, Storable, MustFail, NoneDeleted, Deciding
<1>2. Breaks(w)
  <2>1. AdvanceWorkflow_Skip(w) => pc'[w] # "idle"
    BY DEF AdvanceWorkflow_Skip, Return
  <2>2. AdvanceWorkflow_Evaluate(w) => pc'[w] # "idle"
    BY DEF AdvanceWorkflow_Evaluate
  <2>3. AdvanceWorkflow_Commit(w) => pc'[w] # "idle"
    BY DEF AdvanceWorkflow_Commit, Return
  <2> QED
    BY <2>1, <2>2, <2>3, WorkerMoves DEF WorkerMove, Deciding
<1>3. ~AbortWorker(w)
    BY DEF AbortWorker, Deadlocked, Circle, AwaitEachOther, WaitsFor, RequestShape, Unfailing
<1> QED
    BY <1>1, <1>2, <1>3 DEF Breaks, Fail, Crash, Unfailing

\* Which wake-ups a failure may lose (orchestration_engine.py:121-122, 154-158,
\* workers/tasks.py:80-83, 110-112): for any graph whose edges stay within a
\* workflow, any workers and requests that start, pause, resume, PATCH, remove and report,
\* any failures, deaths and retries, and either kind of session, a workflow that
\* is attended to stays so unless a job that is to evaluate it fails and is not
\* queued again or has merged its result already.
THEOREM WakeupsAreKept ==
    ASSUME Undisturbed
    PROVE  Spec => WakeupsSurvive
<1> DEFINE Inv == WakeBase /\ WakeInv
           Kept == \A wf \in Workflows :
              Attended(wf) /\ Announced(wf) /\ ~(Attended(wf)' /\ Announced(wf)')
                  => Forgotten(wf)
<1>1. Init => Inv
    BY TypingInit, RowInit, LockInit, OwnerInit, WakeInit DEF WakeBase
<1>2. Inv /\ [Next]_vars => Inv'
    BY TypingStep, RowStep, LockStep, OwnerStep, WakeStep DEF WakeBase
<1>3. Inv /\ [Next]_vars => [Kept]_vars
    BY AttendedStep, AnnouncedStep
<1>4. QED
    BY <1>1, <1>2, <1>3, PTL DEF Spec, WakeupsSurvive

\* No wake-up is lost (orchestration_engine.py:154-158, workflow_service.py:
\* 155-158): in the same instances, and if no job fails, a task that becomes ready
\* while its workflow is RUNNING, or whose workflow becomes RUNNING, has an
\* evaluation to come that includes it.
THEOREM WakeupsArrive ==
    ASSUME Undisturbed, Unfailing
    PROVE  Spec => []NoLostWakeup
<1> DEFINE Inv == /\ WakeBase /\ WakeInv /\ NoneDeleted
                  /\ \A wf \in Workflows : Attended(wf) /\ Announced(wf)
<1>1. Init => Inv
  <2>1. Init => \A wf \in Workflows : Attended(wf) /\ Announced(wf)
    BY DEF Init, InitStore, InitApi, Attended, Announced
  <2>2. Init => NoneDeleted
    BY DEF Init, InitStore, NoneDeleted
  <2> QED
    BY <2>1, <2>2, TypingInit, RowInit, LockInit, OwnerInit, WakeInit DEF WakeBase
<1>2. Inv /\ [Next]_vars => Inv'
  <2> SUFFICES ASSUME Inv, [Next]_vars PROVE Inv'
    OBVIOUS
  <2>1. WakeBase' /\ WakeInv' /\ NoneDeleted'
    BY TypingStep, RowStep, LockStep, OwnerStep, WakeStep, NoneDeletedStep DEF WakeBase
  <2>2. ASSUME NEW wf \in Workflows PROVE Attended(wf)' /\ Announced(wf)'
    BY AttendedStep, AnnouncedStep, NoneForgotten
  <2> QED
    BY <2>1, <2>2
<1>3. Inv => NoLostWakeup
    BY DEF NoLostWakeup
<1> QED
    BY <1>1, <1>2, <1>3, PTL DEF Spec
=============================================================================
