------------------------- MODULE OrchestrationProofs -------------------------
(***************************************************************************)
(* Theorems about Orchestration, for every value of the constants.         *)
(***************************************************************************)
EXTENDS Orchestration, TLAPS

-----------------------------------------------------------------------------
(* Typing.  Alone TypeOK is not inductive: what a worker does with its     *)
(* message and its workflow object depends on where it is in its job.      *)

WorkerShape(w) ==
    /\ pc[w] # "idle" => job[w] \in Message
    /\ pc[w] \in {"fetch", "lock", "merge"} => job[w] \in ResultMessage
    /\ pc[w] = "merge" => row[w] # NoRow
    /\ pc[w] \in {"idle", "fetch", "lock", "ack"} => row[w] = NoRow
    /\ pc[w] \notin {"publish", "commit"} => batch[w] = {} /\ verdict[w] = "NONE"
    /\ unsent[w] \subseteq batch[w]
    /\ pc[w] # "publish" => unsent[w] = {}

RequestShape(r) ==
    /\ phase[r] # "idle" => call[r] \in Calls
    /\ phase[r] = "removing" => call[r].op = "remove"

TypeInv ==
    /\ TypeOK
    /\ \A w \in Workers : WorkerShape(w)
    /\ \A r \in Requests : RequestShape(r)

\* The fields of a message, whichever kind it is, and of its retry.
LEMMA MessageFields ==
    ASSUME NEW m \in Message
    PROVE  /\ m.workflow \in Workflows
           /\ m.kind \in {"advance", "result"}
           /\ m.kind = "result" => m \in ResultMessage
           /\ m.retries \in 0 .. MaxRetries
           /\ m.retries # MaxRetries => [m EXCEPT !.retries = @ + 1] \in Message
BY ConstantsAssumption DEF Message, AdvanceMessage, ResultMessage

\* The fields of a result message, and the status it carries.
LEMMA ResultFields ==
    ASSUME NEW m \in ResultMessage
    PROVE  /\ m \in Message /\ m.task \in Tasks
           /\ m.success \in BOOLEAN /\ m.output \in BOOLEAN
           /\ ResultStatus(m) \in Terminal
BY DEF Message, ResultMessage, ResultStatus, Terminal

\* The fields of a call, and the statuses it asks for.
LEMMA CallFields ==
    ASSUME NEW c \in Calls
    PROVE  /\ c.workflow \in Workflows /\ c.task \in Tasks
           /\ c.success \in BOOLEAN /\ c.output \in BOOLEAN
           /\ TargetStatus(c) \in Status
           /\ NewTaskStatus(c) \in Status \cup NoRowStatus
           /\ NewWorkflowStatus(c) \in Status \cup NoRowStatus
<1> c \in Call
    BY CallsAssumption
<1> QED
    BY DEF Call, TargetStatus, NewTaskStatus, NewWorkflowStatus, Status, NoRowStatus

\* What publish_event puts in the queue is a message.
LEMMA NewMessages ==
    ASSUME NEW wf \in Workflows, NEW t \in Tasks,
           NEW success \in BOOLEAN, NEW output \in BOOLEAN
    PROVE  Advance(wf) \in Message /\ Result(wf, t, success, output) \in Message
BY ConstantsAssumption
   DEF Advance, Result, Message, AdvanceMessage, ResultMessage

\* Putting a message in the queue keeps the queue's type.
LEMMA EnqueuedType ==
    ASSUME queue \in [Message -> Nat], NEW m \in Message
    PROVE  Enqueued(m) \in [Message -> Nat]
BY DEF Enqueued

\* The workflow object a session has after its SELECT is a row.
LEMMA RowSeenType ==
    ASSUME StoreTypeOK, EngineTypeOK, NEW w \in Workers,
           job[w] \in Message, WorkflowExists(job[w].workflow)
    PROVE  RowSeen(w) \in Row
<1> DEFINE wf == job[w].workflow
<1>1. wf \in Workflows
    BY MessageFields
<1>2. wstatus[wf] \in Status /\ context[wf] \in [Names -> Tasks \cup {NoTask}]
    BY <1>1 DEF StoreTypeOK, WorkflowExists
<1>3. CASE row[w] = NoRow
    BY <1>2, <1>3 DEF RowSeen, Row
<1>4. CASE row[w] # NoRow
    BY <1>4 DEF RowSeen, EngineTypeOK
<1> QED
    BY <1>3, <1>4

\* Merging an output keeps global_context a map from names to tasks.
LEMMA MergedContextType ==
    ASSUME EngineTypeOK, NEW w \in Workers, job[w] \in ResultMessage,
           row[w] # NoRow
    PROVE  MergedContext(w) \in [Names -> Tasks \cup {NoTask}]
BY ConstantsAssumption, ResultFields DEF EngineTypeOK, MergedContext, Row

\* Releasing a process's locks keeps the type of wlock.
LEMMA ReleasedType ==
    ASSUME StoreTypeOK, NEW p
    PROVE  WithoutWorkflowLock(p) \in [Workflows -> Workers \cup Requests \cup {Nobody}]
BY DEF StoreTypeOK, WithoutWorkflowLock

\* The typing invariant holds initially.
LEMMA TypingInit == Init => TypeInv
BY ConstantsAssumption
   DEF Init, InitStore, InitEngine, InitApi, TypeInv, TypeOK, StoreTypeOK,
       EngineTypeOK, ApiTypeOK, WorkerShape, RequestShape, PCs, Phases,
       Status, NoRowStatus

\* Every step keeps the typing invariant: one case per action.
LEMMA TypingStep == TypeInv /\ [Next]_vars => TypeInv'
<1> SUFFICES ASSUME TypeInv, [Next]_vars PROVE TypeInv'
    OBVIOUS
<1> USE DEF TypeInv, TypeOK, vars, storeVars, rows, locks, history, engineVars,
            workerVars, counters, apiVars
<1>1. ASSUME NEW w \in Workers, Receive(w), UNCHANGED apiVars
      PROVE  TypeInv'
  <2>1. StoreTypeOK'
    BY <1>1 DEF StoreTypeOK, WorkerShape, EngineTypeOK, Receive, Status, NoRowStatus, Terminal
  <2>2. EngineTypeOK'
    BY <1>1 DEF EngineTypeOK, WorkerShape, Receive, PCs, Row, Status, NoRowStatus
  <2>3. ApiTypeOK'
    BY <1>1 DEF ApiTypeOK, Receive, Phases
  <2>4. ASSUME NEW v \in Workers PROVE WorkerShape(v)'
    <3>1. CASE v = w
      BY <1>1, <3>1, MessageFields DEF EngineTypeOK, WorkerShape, Receive
    <3>2. CASE v # w
      BY <1>1, <3>2 DEF EngineTypeOK, WorkerShape, Receive
    <3> QED
      BY <3>1, <3>2
  <2>5. ASSUME NEW q \in Requests PROVE RequestShape(q)'
    BY <1>1 DEF ApiTypeOK, RequestShape, Receive
  <2> QED
    BY <2>1, <2>2, <2>3, <2>4, <2>5
<1>2. ASSUME NEW w \in Workers, HandleTaskResult_Fetch(w), UNCHANGED apiVars
      PROVE  TypeInv'
  <2>1. StoreTypeOK'
    BY <1>2 DEF StoreTypeOK, WorkerShape, EngineTypeOK, HandleTaskResult_Fetch, Return, Ended, Status, NoRowStatus, Terminal
  <2>2. EngineTypeOK'
    BY <1>2 DEF EngineTypeOK, WorkerShape, HandleTaskResult_Fetch, Return, Ended, PCs, Row, Status, NoRowStatus
  <2>3. ApiTypeOK'
    BY <1>2 DEF ApiTypeOK, HandleTaskResult_Fetch, Return, Ended, Phases
  <2>4. ASSUME NEW v \in Workers PROVE WorkerShape(v)'
    BY <1>2 DEF EngineTypeOK, WorkerShape, HandleTaskResult_Fetch, Return, Ended
  <2>5. ASSUME NEW q \in Requests PROVE RequestShape(q)'
    BY <1>2 DEF ApiTypeOK, RequestShape, HandleTaskResult_Fetch, Return, Ended
  <2> QED
    BY <2>1, <2>2, <2>3, <2>4, <2>5
<1>3. ASSUME NEW w \in Workers, HandleTaskResult_Lock(w), UNCHANGED apiVars
      PROVE  TypeInv'
  <2>1. StoreTypeOK'
    <3>1. job[w].workflow \in Workflows
      BY <1>3, MessageFields DEF WorkerShape, HandleTaskResult_Lock
    <3>2. wlock' \in [Workflows -> Workers \cup Requests \cup {Nobody}]
      <4>1. wlock \in [Workflows -> Workers \cup Requests \cup {Nobody}]
        BY DEF StoreTypeOK
      <4>2. \/ wlock' = wlock
            \/ wlock' = [wlock EXCEPT ![job[w].workflow] = w]
        BY <1>3 DEF HandleTaskResult_Lock
      <4> QED
        BY <3>1, <4>1, <4>2
    <3> QED
      BY <1>3, <3>2 DEF StoreTypeOK, HandleTaskResult_Lock
  <2>2. EngineTypeOK'
    <3>1. job[w] \in Message
      BY <1>3 DEF WorkerShape, HandleTaskResult_Lock
    <3>2. WorkflowExists(job[w].workflow) => RowSeen(w) \in Row
      BY <3>1, RowSeenType
    <3>3. row' \in [Workers -> Row \cup {NoRow}]
      BY <1>3, <3>2 DEF EngineTypeOK, HandleTaskResult_Lock, Return
    <3> QED
      BY <1>3, <3>3 DEF EngineTypeOK, HandleTaskResult_Lock, Return, PCs
  <2>3. ApiTypeOK'
    BY <1>3 DEF ApiTypeOK, HandleTaskResult_Lock, Return, RowSeen, WorkflowExists, Phases
  <2>4. ASSUME NEW v \in Workers PROVE WorkerShape(v)'
    BY <1>3, RowSeenType, EngineAssumption DEF EngineTypeOK, WorkerShape, HandleTaskResult_Lock, Return, WorkflowExists
  <2>5. ASSUME NEW q \in Requests PROVE RequestShape(q)'
    BY <1>3 DEF ApiTypeOK, RequestShape, HandleTaskResult_Lock, Return, RowSeen, WorkflowExists
  <2> QED
    BY <2>1, <2>2, <2>3, <2>4, <2>5
<1>4. ASSUME NEW w \in Workers, HandleTaskResult_Commit(w), UNCHANGED apiVars
      PROVE  TypeInv'
  <2>1. StoreTypeOK'
    <3>1. job[w] \in ResultMessage /\ row[w] # NoRow
      BY <1>4 DEF WorkerShape, HandleTaskResult_Commit
    <3>2. /\ job[w].task \in Tasks
          /\ job[w].workflow \in Workflows
          /\ ResultStatus(job[w]) \in Status
      BY <3>1, MessageFields, ResultFields DEF Terminal, Status
    <3>3. status' \in [Tasks -> Status \cup NoRowStatus]
      BY <1>4, <3>2 DEF StoreTypeOK, HandleTaskResult_Commit
    <3>4. context' \in [Workflows -> [Names -> Tasks \cup {NoTask}]]
      BY <1>4, <3>1, <3>2, MergedContextType DEF StoreTypeOK, HandleTaskResult_Commit
    <3>5. completed' \subseteq Tasks /\ recorded' \subseteq Workflows \X Tasks
      BY <1>4, <3>2 DEF StoreTypeOK, HandleTaskResult_Commit
    <3> QED
      BY <1>4, <3>3, <3>4, <3>5, ReleasedType DEF StoreTypeOK, HandleTaskResult_Commit
  <2>2. EngineTypeOK'
    BY <1>4, MergedContextType DEF EngineTypeOK, WorkerShape, HandleTaskResult_Commit, WithoutWorkflowLock, PCs, Row, Status, NoRowStatus
  <2>3. ApiTypeOK'
    BY <1>4 DEF ApiTypeOK, HandleTaskResult_Commit, MergedContext, WithoutWorkflowLock, Phases
  <2>4. ASSUME NEW v \in Workers PROVE WorkerShape(v)'
    BY <1>4, MergedContextType DEF EngineTypeOK, WorkerShape, HandleTaskResult_Commit, WithoutWorkflowLock
  <2>5. ASSUME NEW q \in Requests PROVE RequestShape(q)'
    BY <1>4 DEF ApiTypeOK, RequestShape, HandleTaskResult_Commit, MergedContext, WithoutWorkflowLock
  <2> QED
    BY <2>1, <2>2, <2>3, <2>4, <2>5
<1>5. ASSUME NEW w \in Workers, AdvanceWorkflow_Skip(w), UNCHANGED apiVars
      PROVE  TypeInv'
  <2>1. StoreTypeOK'
    BY <1>5 DEF StoreTypeOK, WorkerShape, EngineTypeOK, AdvanceWorkflow_Skip, Return, Status, NoRowStatus, Terminal
  <2>2. EngineTypeOK'
    BY <1>5 DEF EngineTypeOK, WorkerShape, AdvanceWorkflow_Skip, Return, PCs, Row, Status, NoRowStatus
  <2>3. ApiTypeOK'
    BY <1>5 DEF ApiTypeOK, AdvanceWorkflow_Skip, Return, Phases
  <2>4. ASSUME NEW v \in Workers PROVE WorkerShape(v)'
    BY <1>5 DEF EngineTypeOK, WorkerShape, AdvanceWorkflow_Skip, Return
  <2>5. ASSUME NEW q \in Requests PROVE RequestShape(q)'
    BY <1>5 DEF ApiTypeOK, RequestShape, AdvanceWorkflow_Skip, Return
  <2> QED
    BY <2>1, <2>2, <2>3, <2>4, <2>5
<1>6. ASSUME NEW w \in Workers, AdvanceWorkflow_Evaluate(w), UNCHANGED apiVars
      PROVE  TypeInv'
  <2>1. StoreTypeOK'
    BY <1>6, RowSeenType DEF StoreTypeOK, WorkerShape, EngineTypeOK, AdvanceWorkflow_Evaluate, WorkflowExists, Verdict, Ready, TasksOf, Active, Status, NoRowStatus, Terminal
  <2>2. EngineTypeOK'
    BY <1>6, RowSeenType DEF EngineTypeOK, WorkerShape, AdvanceWorkflow_Evaluate, WorkflowExists, Verdict, Ready, TasksOf, Active, PCs, Row, Status, NoRowStatus
  <2>3. ApiTypeOK'
    BY <1>6 DEF ApiTypeOK, AdvanceWorkflow_Evaluate, RowSeen, WorkflowExists, Verdict, Ready, TasksOf, Active, Phases
  <2>4. ASSUME NEW v \in Workers PROVE WorkerShape(v)'
    BY <1>6, RowSeenType DEF EngineTypeOK, WorkerShape, AdvanceWorkflow_Evaluate, WorkflowExists, Verdict, Ready, TasksOf, Active
  <2>5. ASSUME NEW q \in Requests PROVE RequestShape(q)'
    BY <1>6 DEF ApiTypeOK, RequestShape, AdvanceWorkflow_Evaluate, RowSeen, WorkflowExists, Verdict, Ready, TasksOf, Active
  <2> QED
    BY <2>1, <2>2, <2>3, <2>4, <2>5
<1>7. ASSUME NEW w \in Workers, AdvanceWorkflow_Publish(w), UNCHANGED apiVars
      PROVE  TypeInv'
  <2>1. StoreTypeOK'
    BY <1>7 DEF StoreTypeOK, WorkerShape, EngineTypeOK, AdvanceWorkflow_Publish, Status, NoRowStatus, Terminal
  <2>2. EngineTypeOK'
    BY <1>7 DEF EngineTypeOK, WorkerShape, AdvanceWorkflow_Publish, PCs, Row, Status, NoRowStatus
  <2>3. ApiTypeOK'
    BY <1>7 DEF ApiTypeOK, AdvanceWorkflow_Publish, Phases
  <2>4. ASSUME NEW v \in Workers PROVE WorkerShape(v)'
    BY <1>7 DEF EngineTypeOK, WorkerShape, AdvanceWorkflow_Publish
  <2>5. ASSUME NEW q \in Requests PROVE RequestShape(q)'
    BY <1>7 DEF ApiTypeOK, RequestShape, AdvanceWorkflow_Publish
  <2> QED
    BY <2>1, <2>2, <2>3, <2>4, <2>5
<1>8. ASSUME NEW w \in Workers, AdvanceWorkflow_Commit(w), UNCHANGED apiVars
      PROVE  TypeInv'
  <2>1. StoreTypeOK'
    BY <1>8, ReleasedType, MessageFields DEF StoreTypeOK, WorkerShape, EngineTypeOK, AdvanceWorkflow_Commit, Return, Status, NoRowStatus, Terminal
  <2>2. EngineTypeOK'
    BY <1>8 DEF EngineTypeOK, WorkerShape, AdvanceWorkflow_Commit, Return, WithoutWorkflowLock, PCs, Row, Status, NoRowStatus
  <2>3. ApiTypeOK'
    BY <1>8 DEF ApiTypeOK, AdvanceWorkflow_Commit, Return, WithoutWorkflowLock, Phases
  <2>4. ASSUME NEW v \in Workers PROVE WorkerShape(v)'
    BY <1>8 DEF EngineTypeOK, WorkerShape, AdvanceWorkflow_Commit, Return, WithoutWorkflowLock
  <2>5. ASSUME NEW q \in Requests PROVE RequestShape(q)'
    BY <1>8 DEF ApiTypeOK, RequestShape, AdvanceWorkflow_Commit, Return, WithoutWorkflowLock
  <2> QED
    BY <2>1, <2>2, <2>3, <2>4, <2>5
<1>9. ASSUME NEW w \in Workers, Ack(w), UNCHANGED apiVars
      PROVE  TypeInv'
  <2>1. StoreTypeOK'
    BY <1>9 DEF StoreTypeOK, WorkerShape, EngineTypeOK, Ack, Status, NoRowStatus, Terminal
  <2>2. EngineTypeOK'
    BY <1>9 DEF EngineTypeOK, WorkerShape, Ack, PCs, Row, Status, NoRowStatus
  <2>3. ApiTypeOK'
    BY <1>9 DEF ApiTypeOK, Ack, Phases
  <2>4. ASSUME NEW v \in Workers PROVE WorkerShape(v)'
    BY <1>9 DEF EngineTypeOK, WorkerShape, Ack
  <2>5. ASSUME NEW q \in Requests PROVE RequestShape(q)'
    BY <1>9 DEF ApiTypeOK, RequestShape, Ack
  <2> QED
    BY <2>1, <2>2, <2>3, <2>4, <2>5
<1>10. ASSUME NEW w \in Workers, Fail(w), UNCHANGED apiVars
      PROVE  TypeInv'
  <2>1. StoreTypeOK'
    BY <1>10, ReleasedType, MessageFields, EnqueuedType DEF StoreTypeOK, WorkerShape, EngineTypeOK, Fail, Retry, Abandon, Status, NoRowStatus, Terminal
  <2>2. EngineTypeOK'
    BY <1>10 DEF EngineTypeOK, WorkerShape, Fail, Retry, Abandon, Enqueued, WithoutWorkflowLock, PCs, Row, Status, NoRowStatus
  <2>3. ApiTypeOK'
    BY <1>10 DEF ApiTypeOK, Fail, Retry, Abandon, Enqueued, WithoutWorkflowLock, Phases
  <2>4. ASSUME NEW v \in Workers PROVE WorkerShape(v)'
    BY <1>10 DEF EngineTypeOK, WorkerShape, Fail, Retry, Abandon, Enqueued, WithoutWorkflowLock
  <2>5. ASSUME NEW q \in Requests PROVE RequestShape(q)'
    BY <1>10 DEF ApiTypeOK, RequestShape, Fail, Retry, Abandon, Enqueued, WithoutWorkflowLock
  <2> QED
    BY <2>1, <2>2, <2>3, <2>4, <2>5
<1>11. ASSUME NEW w \in Workers, Crash(w), UNCHANGED apiVars
      PROVE  TypeInv'
  <2>1. StoreTypeOK'
    BY <1>11, ReleasedType, MessageFields, EnqueuedType DEF StoreTypeOK, WorkerShape, EngineTypeOK, Crash, Abandon, Status, NoRowStatus, Terminal
  <2>2. EngineTypeOK'
    BY <1>11 DEF EngineTypeOK, WorkerShape, Crash, Abandon, Enqueued, WithoutWorkflowLock, PCs, Row, Status, NoRowStatus
  <2>3. ApiTypeOK'
    BY <1>11 DEF ApiTypeOK, Crash, Abandon, Enqueued, WithoutWorkflowLock, Phases
  <2>4. ASSUME NEW v \in Workers PROVE WorkerShape(v)'
    BY <1>11 DEF EngineTypeOK, WorkerShape, Crash, Abandon, Enqueued, WithoutWorkflowLock
  <2>5. ASSUME NEW q \in Requests PROVE RequestShape(q)'
    BY <1>11 DEF ApiTypeOK, RequestShape, Crash, Abandon, Enqueued, WithoutWorkflowLock
  <2> QED
    BY <2>1, <2>2, <2>3, <2>4, <2>5
<1>12. ASSUME ReapZombie, UNCHANGED apiVars
      PROVE  TypeInv'
  <2>1. StoreTypeOK'
    <3>1. PICK t \in Tasks : queue' = Enqueued(Result(WorkflowOf[t], t, FALSE, FALSE))
      BY <1>12 DEF ReapZombie
    <3>2. queue' \in [Message -> Nat]
      BY <3>1, ConstantsAssumption, NewMessages, EnqueuedType DEF StoreTypeOK
    <3> QED
      BY <1>12, <3>2 DEF StoreTypeOK, ReapZombie
  <2>2. EngineTypeOK'
    BY <1>12 DEF EngineTypeOK, WorkerShape, ReapZombie, Enqueued, PCs, Row, Status, NoRowStatus
  <2>3. ApiTypeOK'
    BY <1>12 DEF ApiTypeOK, ReapZombie, Enqueued, Phases
  <2>4. ASSUME NEW v \in Workers PROVE WorkerShape(v)'
    BY <1>12 DEF EngineTypeOK, WorkerShape, ReapZombie, Enqueued
  <2>5. ASSUME NEW q \in Requests PROVE RequestShape(q)'
    BY <1>12 DEF ApiTypeOK, RequestShape, ReapZombie, Enqueued
  <2> QED
    BY <2>1, <2>2, <2>3, <2>4, <2>5
<1>13. ASSUME NEW r \in Requests, UpdateStatus_Check(r), UNCHANGED engineVars
      PROVE  TypeInv'
  <2>1. StoreTypeOK'
    BY <1>13 DEF StoreTypeOK, RequestShape, ApiTypeOK, UpdateStatus_Check, Arrive
  <2>2. EngineTypeOK'
    BY <1>13 DEF EngineTypeOK, WorkerShape, UpdateStatus_Check, Arrive, PCs, Row, Status, NoRowStatus
  <2>3. ApiTypeOK'
    BY <1>13 DEF ApiTypeOK, UpdateStatus_Check, Arrive, Phases
  <2>4. ASSUME NEW v \in Workers PROVE WorkerShape(v)'
    BY <1>13 DEF EngineTypeOK, WorkerShape, UpdateStatus_Check, Arrive
  <2>5. ASSUME NEW q \in Requests PROVE RequestShape(q)'
    BY <1>13 DEF ApiTypeOK, RequestShape, UpdateStatus_Check, Arrive
  <2> QED
    BY <2>1, <2>2, <2>3, <2>4, <2>5
<1>14. ASSUME NEW r \in Requests, UpdateStatus_Flush(r), UNCHANGED engineVars
      PROVE  TypeInv'
  <2>1. StoreTypeOK'
    <3>1. call[r] \in Calls
      BY <1>14 DEF RequestShape, UpdateStatus_Flush
    <3>2. queue' \in [Message -> Nat]
      BY <1>14, <3>1, CallFields, NewMessages, EnqueuedType DEF StoreTypeOK, UpdateStatus_Flush
    <3>3. tlock' \in [Tasks -> Requests \cup {Nobody}]
      BY <1>14, <3>1 DEF StoreTypeOK, UpdateStatus_Flush
    <3> QED
      BY <1>14, <3>2, <3>3 DEF StoreTypeOK, UpdateStatus_Flush
  <2>2. EngineTypeOK'
    BY <1>14 DEF EngineTypeOK, WorkerShape, UpdateStatus_Flush, Proceed, AfterFlush, Enqueued, PCs, Row, Status, NoRowStatus
  <2>3. ApiTypeOK'
    BY <1>14 DEF ApiTypeOK, UpdateStatus_Flush, Proceed, AfterFlush, Enqueued, Phases
  <2>4. ASSUME NEW v \in Workers PROVE WorkerShape(v)'
    BY <1>14 DEF EngineTypeOK, WorkerShape, UpdateStatus_Flush, Proceed, AfterFlush, Enqueued
  <2>5. ASSUME NEW q \in Requests PROVE RequestShape(q)'
    BY <1>14 DEF ApiTypeOK, RequestShape, UpdateStatus_Flush, Proceed, AfterFlush, Enqueued
  <2> QED
    BY <2>1, <2>2, <2>3, <2>4, <2>5
<1>15. ASSUME NEW r \in Requests, CreateTask_Check(r), UNCHANGED engineVars
      PROVE  TypeInv'
  <2>1. StoreTypeOK'
    BY <1>15 DEF StoreTypeOK, RequestShape, ApiTypeOK, CreateTask_Check, Arrive
  <2>2. EngineTypeOK'
    BY <1>15 DEF EngineTypeOK, WorkerShape, CreateTask_Check, Arrive, PCs, Row, Status, NoRowStatus
  <2>3. ApiTypeOK'
    BY <1>15 DEF ApiTypeOK, CreateTask_Check, Arrive, Phases
  <2>4. ASSUME NEW v \in Workers PROVE WorkerShape(v)'
    BY <1>15 DEF EngineTypeOK, WorkerShape, CreateTask_Check, Arrive
  <2>5. ASSUME NEW q \in Requests PROVE RequestShape(q)'
    BY <1>15 DEF ApiTypeOK, RequestShape, CreateTask_Check, Arrive
  <2> QED
    BY <2>1, <2>2, <2>3, <2>4, <2>5
<1>16. ASSUME NEW r \in Requests, CreateTask_Flush(r), UNCHANGED engineVars
      PROVE  TypeInv'
  <2>1. StoreTypeOK'
    <3>1. call[r] \in Calls
      BY <1>16 DEF RequestShape, CreateTask_Flush
    <3>2. keyShare' \in [Workflows -> SUBSET Requests]
      <4>1. keyShare \in [Workflows -> SUBSET Requests] /\ call[r].workflow \in Workflows
        BY <3>1, CallFields DEF StoreTypeOK
      <4>2. \/ keyShare' = keyShare
            \/ keyShare' = [keyShare EXCEPT ![call[r].workflow] = @ \cup {r}]
        BY <1>16 DEF CreateTask_Flush
      <4> QED
        BY <4>1, <4>2
    <3> QED
      BY <1>16, <3>2 DEF StoreTypeOK, CreateTask_Flush
  <2>2. EngineTypeOK'
    BY <1>16 DEF EngineTypeOK, WorkerShape, CreateTask_Flush, Proceed, AfterFlush, PCs, Row, Status, NoRowStatus
  <2>3. ApiTypeOK'
    BY <1>16 DEF ApiTypeOK, CreateTask_Flush, Proceed, AfterFlush, Phases
  <2>4. ASSUME NEW v \in Workers PROVE WorkerShape(v)'
    BY <1>16 DEF EngineTypeOK, WorkerShape, CreateTask_Flush, Proceed, AfterFlush
  <2>5. ASSUME NEW q \in Requests PROVE RequestShape(q)'
    BY <1>16 DEF ApiTypeOK, RequestShape, CreateTask_Flush, Proceed, AfterFlush
  <2> QED
    BY <2>1, <2>2, <2>3, <2>4, <2>5
<1>17. ASSUME NEW r \in Requests, DeleteTask_Check(r), UNCHANGED engineVars
      PROVE  TypeInv'
  <2>1. StoreTypeOK'
    BY <1>17 DEF StoreTypeOK, RequestShape, ApiTypeOK, DeleteTask_Check, Arrive
  <2>2. EngineTypeOK'
    BY <1>17 DEF EngineTypeOK, WorkerShape, DeleteTask_Check, Arrive, PCs, Row, Status, NoRowStatus
  <2>3. ApiTypeOK'
    BY <1>17 DEF ApiTypeOK, DeleteTask_Check, Arrive, Phases
  <2>4. ASSUME NEW v \in Workers PROVE WorkerShape(v)'
    BY <1>17 DEF EngineTypeOK, WorkerShape, DeleteTask_Check, Arrive
  <2>5. ASSUME NEW q \in Requests PROVE RequestShape(q)'
    BY <1>17 DEF ApiTypeOK, RequestShape, DeleteTask_Check, Arrive
  <2> QED
    BY <2>1, <2>2, <2>3, <2>4, <2>5
<1>18. ASSUME NEW r \in Requests, DeleteTask_Flush(r), UNCHANGED engineVars
      PROVE  TypeInv'
  <2>1. StoreTypeOK'
    <3>1. call[r] \in Calls
      BY <1>18 DEF RequestShape, DeleteTask_Flush
    <3>2. tlock' \in [Tasks -> Requests \cup {Nobody}]
      <4>1. tlock \in [Tasks -> Requests \cup {Nobody}] /\ call[r].task \in Tasks
        BY <3>1, CallFields DEF StoreTypeOK
      <4>2. tlock' = tlock \/ tlock' = [tlock EXCEPT ![call[r].task] = r]
        BY <1>18 DEF DeleteTask_Flush
      <4> QED
        BY <4>1, <4>2
    <3> QED
      BY <1>18, <3>2 DEF StoreTypeOK, DeleteTask_Flush
  <2>2. EngineTypeOK'
    BY <1>18 DEF EngineTypeOK, WorkerShape, DeleteTask_Flush, Proceed, PCs, Row, Status, NoRowStatus
  <2>3. ApiTypeOK'
    BY <1>18 DEF ApiTypeOK, DeleteTask_Flush, Proceed, Phases
  <2>4. ASSUME NEW v \in Workers PROVE WorkerShape(v)'
    BY <1>18 DEF EngineTypeOK, WorkerShape, DeleteTask_Flush, Proceed
  <2>5. ASSUME NEW q \in Requests PROVE RequestShape(q)'
    BY <1>18 DEF ApiTypeOK, RequestShape, DeleteTask_Flush, Proceed
  <2> QED
    BY <2>1, <2>2, <2>3, <2>4, <2>5
<1>19. ASSUME NEW r \in Requests, StartWorkflow(r), UNCHANGED engineVars
      PROVE  TypeInv'
  <2>1. StoreTypeOK'
    <3>1. PICK c \in Calls : queue' \in {queue, Enqueued(Advance(c.workflow))}
      BY <1>19 DEF StartWorkflow
    <3>2. queue' \in [Message -> Nat]
      <4> DEFINE t == c.task
      <4>1. Advance(c.workflow) \in Message
        BY <3>1, CallFields, NewMessages
      <4> QED
        BY <3>1, <4>1, EnqueuedType DEF StoreTypeOK
    <3> QED
      BY <1>19, <3>2 DEF StoreTypeOK, StartWorkflow
  <2>2. EngineTypeOK'
    BY <1>19 DEF EngineTypeOK, WorkerShape, StartWorkflow, Proceed, Enqueued, PCs, Row, Status, NoRowStatus
  <2>3. ApiTypeOK'
    BY <1>19 DEF ApiTypeOK, StartWorkflow, Proceed, Enqueued, Phases
  <2>4. ASSUME NEW v \in Workers PROVE WorkerShape(v)'
    BY <1>19 DEF EngineTypeOK, WorkerShape, StartWorkflow, Proceed, Enqueued
  <2>5. ASSUME NEW q \in Requests PROVE RequestShape(q)'
    BY <1>19 DEF ApiTypeOK, RequestShape, StartWorkflow, Proceed, Enqueued
  <2> QED
    BY <2>1, <2>2, <2>3, <2>4, <2>5
<1>20. ASSUME NEW r \in Requests, Transition_Check(r), UNCHANGED engineVars
      PROVE  TypeInv'
  <2>1. StoreTypeOK'
    BY <1>20 DEF StoreTypeOK, RequestShape, ApiTypeOK, Transition_Check, Arrive
  <2>2. EngineTypeOK'
    BY <1>20 DEF EngineTypeOK, WorkerShape, Transition_Check, Arrive, PCs, Row, Status, NoRowStatus
  <2>3. ApiTypeOK'
    BY <1>20 DEF ApiTypeOK, Transition_Check, Arrive, Phases
  <2>4. ASSUME NEW v \in Workers PROVE WorkerShape(v)'
    BY <1>20 DEF EngineTypeOK, WorkerShape, Transition_Check, Arrive
  <2>5. ASSUME NEW q \in Requests PROVE RequestShape(q)'
    BY <1>20 DEF ApiTypeOK, RequestShape, Transition_Check, Arrive
  <2> QED
    BY <2>1, <2>2, <2>3, <2>4, <2>5
<1>21. ASSUME NEW r \in Requests, Transition_Flush(r), UNCHANGED engineVars
      PROVE  TypeInv'
  <2>1. StoreTypeOK'
    <3>1. call[r] \in Calls
      BY <1>21 DEF RequestShape, Transition_Flush
    <3>2. queue' \in [Message -> Nat]
      <4>1. Advance(call[r].workflow) \in Message
        BY <3>1, CallFields, NewMessages
      <4> QED
        BY <1>21, <4>1, EnqueuedType DEF StoreTypeOK, Transition_Flush
    <3>3. wlock' \in [Workflows -> Workers \cup Requests \cup {Nobody}]
      <4>1. /\ wlock \in [Workflows -> Workers \cup Requests \cup {Nobody}]
            /\ call[r].workflow \in Workflows
        BY <3>1, CallFields DEF StoreTypeOK
      <4>2. wlock' = wlock \/ wlock' = [wlock EXCEPT ![call[r].workflow] = r]
        BY <1>21 DEF Transition_Flush
      <4> QED
        BY <4>1, <4>2
    <3> QED
      BY <1>21, <3>2, <3>3 DEF StoreTypeOK, Transition_Flush
  <2>2. EngineTypeOK'
    BY <1>21 DEF EngineTypeOK, WorkerShape, Transition_Flush, Proceed, AfterFlush, Enqueued, PCs, Row, Status, NoRowStatus
  <2>3. ApiTypeOK'
    BY <1>21 DEF ApiTypeOK, Transition_Flush, Proceed, AfterFlush, Enqueued, Phases
  <2>4. ASSUME NEW v \in Workers PROVE WorkerShape(v)'
    BY <1>21 DEF EngineTypeOK, WorkerShape, Transition_Flush, Proceed, AfterFlush, Enqueued
  <2>5. ASSUME NEW q \in Requests PROVE RequestShape(q)'
    BY <1>21 DEF ApiTypeOK, RequestShape, Transition_Flush, Proceed, AfterFlush, Enqueued
  <2> QED
    BY <2>1, <2>2, <2>3, <2>4, <2>5
<1>22. ASSUME NEW r \in Requests, Commit(r), UNCHANGED engineVars
      PROVE  TypeInv'
  <2>1. StoreTypeOK'
    <3>1. call[r] \in Calls
      BY <1>22 DEF RequestShape, Commit
    <3>2. wstatus' \in [Workflows -> Status \cup NoRowStatus]
      <4>1. /\ wstatus \in [Workflows -> Status \cup NoRowStatus]
            /\ call[r].workflow \in Workflows
            /\ NewWorkflowStatus(call[r]) \in Status \cup NoRowStatus
        BY <3>1, CallFields DEF StoreTypeOK
      <4>2. \/ wstatus' = wstatus
            \/ wstatus' = [wstatus EXCEPT ![call[r].workflow] = NewWorkflowStatus(call[r])]
        BY <1>22 DEF Commit
      <4> QED
        BY <4>1, <4>2
    <3>3. status' \in [Tasks -> Status \cup NoRowStatus]
      <4>1. /\ status \in [Tasks -> Status \cup NoRowStatus]
            /\ call[r].task \in Tasks
            /\ NewTaskStatus(call[r]) \in Status \cup NoRowStatus
        BY <3>1, CallFields DEF StoreTypeOK
      <4>2. \/ status' = [status EXCEPT ![call[r].task] = NewTaskStatus(call[r])]
            \/ status' = [t \in Tasks |-> IF call[r].op = "remove" /\ tlock[t] = r
                                         THEN "DELETED" ELSE status[t]]
        BY <1>22 DEF Commit
      <4> QED
        BY <4>1, <4>2 DEF NoRowStatus
    <3>4. completed' \subseteq Tasks
      BY <1>22, <3>1, CallFields DEF StoreTypeOK, Commit
    <3>5. /\ wlock' \in [Workflows -> Workers \cup Requests \cup {Nobody}]
          /\ keyShare' \in [Workflows -> SUBSET Requests]
          /\ tlock' \in [Tasks -> Requests \cup {Nobody}]
      BY <1>22, ReleasedType DEF StoreTypeOK, Commit, Release
    <3> QED
      BY <1>22, <3>2, <3>3, <3>4, <3>5 DEF StoreTypeOK, Commit
  <2>2. EngineTypeOK'
    BY <1>22 DEF EngineTypeOK, WorkerShape, Commit, Release, Proceed, WithoutWorkflowLock, PCs, Row, Status, NoRowStatus
  <2>3. ApiTypeOK'
    BY <1>22 DEF ApiTypeOK, Commit, Release, Proceed, WithoutWorkflowLock, Phases
  <2>4. ASSUME NEW v \in Workers PROVE WorkerShape(v)'
    BY <1>22 DEF EngineTypeOK, WorkerShape, Commit, Release, Proceed, WithoutWorkflowLock
  <2>5. ASSUME NEW q \in Requests PROVE RequestShape(q)'
    BY <1>22 DEF ApiTypeOK, RequestShape, Commit, Release, Proceed, WithoutWorkflowLock
  <2> QED
    BY <2>1, <2>2, <2>3, <2>4, <2>5
<1>23. ASSUME NEW r \in Requests, Rollback(r), UNCHANGED engineVars
      PROVE  TypeInv'
  <2>1. StoreTypeOK'
    BY <1>23, ReleasedType DEF StoreTypeOK, RequestShape, ApiTypeOK, Rollback, Release, Proceed
  <2>2. EngineTypeOK'
    BY <1>23 DEF EngineTypeOK, WorkerShape, Rollback, Release, Proceed, WithoutWorkflowLock, PCs, Row, Status, NoRowStatus
  <2>3. ApiTypeOK'
    BY <1>23 DEF ApiTypeOK, Rollback, Release, Proceed, WithoutWorkflowLock, Phases
  <2>4. ASSUME NEW v \in Workers PROVE WorkerShape(v)'
    BY <1>23 DEF EngineTypeOK, WorkerShape, Rollback, Release, Proceed, WithoutWorkflowLock
  <2>5. ASSUME NEW q \in Requests PROVE RequestShape(q)'
    BY <1>23 DEF ApiTypeOK, RequestShape, Rollback, Release, Proceed, Writing
  <2> QED
    BY <2>1, <2>2, <2>3, <2>4, <2>5
<1>24. ASSUME NEW r \in Requests, CreateWorkflow(r), UNCHANGED engineVars
      PROVE  TypeInv'
  <2>1. StoreTypeOK'
    <3>1. wlock' \in [Workflows -> Workers \cup Requests \cup {Nobody}]
      BY <1>24, CallFields DEF StoreTypeOK, RequestShape, CreateWorkflow
    <3> QED
      BY <1>24, <3>1 DEF StoreTypeOK, CreateWorkflow
  <2>2. EngineTypeOK'
    BY <1>24 DEF EngineTypeOK, CreateWorkflow, Proceed, AfterFlush
  <2>3. ApiTypeOK'
    BY <1>24, CallFields DEF ApiTypeOK, CreateWorkflow, Proceed, AfterFlush, Phases
  <2>4. ASSUME NEW v \in Workers PROVE WorkerShape(v)'
    BY <1>24 DEF WorkerShape, CreateWorkflow, Proceed, AfterFlush
  <2>5. ASSUME NEW q \in Requests PROVE RequestShape(q)'
    BY <1>24 DEF ApiTypeOK, RequestShape, CreateWorkflow, Proceed, AfterFlush
  <2> QED
    BY <2>1, <2>2, <2>3, <2>4, <2>5
<1>25. ASSUME NEW r \in Requests, RemoveWorkflow_Check(r), UNCHANGED engineVars
      PROVE  TypeInv'
  <2>1. StoreTypeOK'
    BY <1>25 DEF StoreTypeOK, RemoveWorkflow_Check
  <2>2. EngineTypeOK'
    BY <1>25 DEF EngineTypeOK, RemoveWorkflow_Check, Arrive
  <2>3. ApiTypeOK'
    BY <1>25, CallFields DEF ApiTypeOK, RemoveWorkflow_Check, Arrive, Phases
  <2>4. ASSUME NEW v \in Workers PROVE WorkerShape(v)'
    BY <1>25 DEF WorkerShape, RemoveWorkflow_Check, Arrive
  <2>5. ASSUME NEW q \in Requests PROVE RequestShape(q)'
    BY <1>25 DEF ApiTypeOK, RequestShape, RemoveWorkflow_Check, Arrive
  <2> QED
    BY <2>1, <2>2, <2>3, <2>4, <2>5
<1>26. ASSUME NEW r \in Requests, RemoveWorkflow_Tasks(r), UNCHANGED engineVars
      PROVE  TypeInv'
  <2>1. StoreTypeOK'
    <3>2. tlock' \in [Tasks -> Requests \cup {Nobody}]
      BY <1>26 DEF StoreTypeOK, RemoveWorkflow_Tasks, LockedAlso
    <3> QED
      BY <1>26, <3>2 DEF StoreTypeOK, RemoveWorkflow_Tasks
  <2>2. EngineTypeOK'
    BY <1>26 DEF EngineTypeOK, RemoveWorkflow_Tasks, Proceed
  <2>3. ApiTypeOK'
    BY <1>26, CallFields DEF ApiTypeOK, RemoveWorkflow_Tasks, Proceed, Phases
  <2>4. ASSUME NEW v \in Workers PROVE WorkerShape(v)'
    BY <1>26 DEF WorkerShape, RemoveWorkflow_Tasks, Proceed
  <2>5. ASSUME NEW q \in Requests PROVE RequestShape(q)'
    BY <1>26 DEF ApiTypeOK, RequestShape, RemoveWorkflow_Tasks, Proceed
  <2> QED
    BY <2>1, <2>2, <2>3, <2>4, <2>5
<1>27. ASSUME NEW r \in Requests, RemoveWorkflow_Row(r), UNCHANGED engineVars
      PROVE  TypeInv'
  <2>1. StoreTypeOK'
    <3>1. wlock' \in [Workflows -> Workers \cup Requests \cup {Nobody}]
      BY <1>27, CallFields DEF StoreTypeOK, RequestShape, RemoveWorkflow_Row
    <3>2. tlock' \in [Tasks -> Requests \cup {Nobody}]
      BY <1>27 DEF StoreTypeOK, RemoveWorkflow_Row, LockedAlso
    <3> QED
      BY <1>27, <3>1, <3>2 DEF StoreTypeOK, RemoveWorkflow_Row
  <2>2. EngineTypeOK'
    BY <1>27 DEF EngineTypeOK, RemoveWorkflow_Row, Proceed, AfterFlush
  <2>3. ApiTypeOK'
    BY <1>27, CallFields DEF ApiTypeOK, RemoveWorkflow_Row, Proceed, AfterFlush, Phases
  <2>4. ASSUME NEW v \in Workers PROVE WorkerShape(v)'
    BY <1>27 DEF WorkerShape, RemoveWorkflow_Row, Proceed, AfterFlush
  <2>5. ASSUME NEW q \in Requests PROVE RequestShape(q)'
    BY <1>27 DEF ApiTypeOK, RequestShape, RemoveWorkflow_Row, Proceed, AfterFlush
  <2> QED
    BY <2>1, <2>2, <2>3, <2>4, <2>5
<1>28. ASSUME NEW w \in Workers, AbortWorker(w)
      PROVE  TypeInv'
  <2>1. pc[w] # "idle"
    BY <1>28 DEF AbortWorker, Deadlocked, Circle, AwaitEachOther, WaitsFor, AboutToWrite
  <2>2. StoreTypeOK'
    BY <1>28, <2>1, ReleasedType, MessageFields, EnqueuedType
    DEF StoreTypeOK, WorkerShape, EngineTypeOK, AbortWorker, Retry, Abandon
  <2>3. EngineTypeOK'
    BY <1>28 DEF EngineTypeOK, AbortWorker, Retry, Abandon, PCs
  <2>4. ASSUME NEW v \in Workers PROVE WorkerShape(v)'
    BY <1>28 DEF EngineTypeOK, WorkerShape, AbortWorker, Retry, Abandon
  <2>5. ApiTypeOK' /\ \A q \in Requests : RequestShape(q)'
    BY <1>28 DEF ApiTypeOK, RequestShape, AbortWorker
  <2> QED
    BY <2>2, <2>3, <2>4, <2>5
<1>29. CASE UNCHANGED vars
    BY <1>29 DEF StoreTypeOK, EngineTypeOK, ApiTypeOK, WorkerShape, RequestShape
<1> QED
    BY <1>1, <1>2, <1>3, <1>4, <1>5, <1>6, <1>7, <1>8, <1>9, <1>10, <1>11, <1>12, <1>13, <1>14, <1>15, <1>16, <1>17, <1>18, <1>19, <1>20, <1>21, <1>22, <1>23, <1>24, <1>25, <1>26, <1>27, <1>28, <1>29
    DEF Next, NextEngine, NextApi, HandleTaskResult, AdvanceWorkflow, Quiescent

\* Every variable keeps its type, whatever the workers, the requests and the
\* faults do: the typing conjuncts of the three components hold together.
THEOREM TypeCorrect == Spec => []TypeOK
<1>1. TypeInv => TypeOK
    BY DEF TypeInv
<1> QED
    BY <1>1, TypingInit, TypingStep, PTL DEF Spec
=============================================================================
