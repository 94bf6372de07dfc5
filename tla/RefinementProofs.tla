-------------------------- MODULE RefinementProofs --------------------------
(***************************************************************************)
(* The service implements DagExecution.  Beside what the other modules     *)
(* prove, a step of the service is a step of DagExecution because a worker *)
(* merges into the context the row has, a withdrawal takes back a dispatch *)
(* that was made, and a removal holds only rows of its own workflow.       *)
(***************************************************************************)
EXTENDS DispatchProofs, LockProofs, OrchestrationRefinement

-----------------------------------------------------------------------------
(* The context a worker merges into.                                       *)

FreshContext(w) == pc[w] = "merge" => row[w].context = context[job[w].workflow]

ContextInv ==
    /\ \A w \in Workers : FreshContext(w)
    /\ ContextKeepsResults

\* Initially nothing is recorded and no worker has a job.
LEMMA ContextInit == Init => ContextInv
BY DEF Init, InitStore, InitEngine, ContextInv, FreshContext, ContextKeepsResults

\* Only the commit of a result writes a context.
LEMMA ContextWriters ==
    ASSUME [Next]_vars
    PROVE  \/ UNCHANGED <<context, recorded>>
           \/ \E w \in Workers : HandleTaskResult_Commit(w)
<1> USE DEF rows, history, storeVars
<1>1. CASE NextEngine
    BY <1>1 DEF NextEngine, HandleTaskResult, AdvanceWorkflow, Receive,
        HandleTaskResult_Fetch, HandleTaskResult_Lock, AdvanceWorkflow_Skip,
        AdvanceWorkflow_Evaluate, AdvanceWorkflow_Publish, AdvanceWorkflow_Commit,
        Ack, Fail, Retry, Crash, Abandon, ReapZombie
<1>2. CASE NextApi
    BY <1>2 DEF NextApi, UpdateStatus_Check, UpdateStatus_Flush,
        CreateTask_Check, CreateTask_Flush, DeleteTask_Check, DeleteTask_Flush,
        CreateWorkflow, StartWorkflow, Transition_Check, Transition_Flush,
        RemoveWorkflow_Check, RemoveWorkflow_Tasks, RemoveWorkflow_Row,
        Commit, Rollback
<1> QED
    BY <1>1, <1>2 DEF Next, AbortWorker, Retry, Abandon, Quiescent, vars

\* The commit of a result adds one output to the context the row has.
LEMMA MergeAddsOne ==
    ASSUME TypeInv, ContextInv, NEW w \in Workers, HandleTaskResult_Commit(w)
    PROVE  LET wf == job[w].workflow
               t == job[w].task
           IN  /\ wf \in Workflows /\ t \in Tasks /\ NameOf[t] \in Names
               /\ \/ UNCHANGED <<context, recorded>>
                  \/ /\ context' = [context EXCEPT ![wf][NameOf[t]] = t]
                     /\ recorded' = recorded \cup {<<wf, t>>}
                     /\ job[w].success
<1> DEFINE wf == job[w].workflow
           t == job[w].task
<1>1. job[w] \in ResultMessage
    BY DEF HandleTaskResult_Commit, TypeInv, WorkerShape
<1>2. wf \in Workflows /\ t \in Tasks /\ NameOf[t] \in Names
    BY <1>1, MessageFields, ResultFields, ConstantsAssumption
<1>3. row[w].context = context[wf]
    BY DEF HandleTaskResult_Commit, ContextInv, FreshContext
<1>4. CASE job[w].success /\ job[w].output
  <2>1. /\ context' = [context EXCEPT ![wf] = [row[w].context EXCEPT ![NameOf[t]] = t]]
        /\ recorded' = recorded \cup {<<wf, t>>}
    BY <1>4 DEF HandleTaskResult_Commit, MergedContext
  <2> QED
    BY <1>2, <1>3, <1>4, <2>1
<1>5. CASE ~(job[w].success /\ job[w].output)
    BY <1>2, <1>5 DEF HandleTaskResult_Commit
<1> QED
    BY <1>2, <1>4, <1>5

\* The context invariant is inductive: the lock on the workflow row keeps what
\* a worker has read of the context current until it has merged.
LEMMA ContextStep == TypeInv /\ LockInv /\ ContextInv /\ [Next]_vars => ContextInv'
<1> SUFFICES ASSUME TypeInv, LockInv, ContextInv, [Next]_vars PROVE ContextInv'
    OBVIOUS
<1> USE DEF TypeInv, TypeOK, StoreTypeOK, EngineTypeOK
<1>1. CASE UNCHANGED <<context, recorded>>
  <2>1. ContextKeepsResults'
    BY <1>1 DEF ContextInv, ContextKeepsResults
  <2>2. ASSUME NEW v \in Workers PROVE FreshContext(v)'
    BY <1>1, MergeChanges DEF MergeChange, ContextInv, FreshContext
  <2> QED
    BY <2>1, <2>2 DEF ContextInv
<1>2. ASSUME NEW w \in Workers, HandleTaskResult_Commit(w) PROVE ContextInv'
  <2> DEFINE wf == job[w].workflow
             t == job[w].task
  <2>1. /\ wf \in Workflows /\ t \in Tasks /\ NameOf[t] \in Names
        /\ \/ UNCHANGED <<context, recorded>>
           \/ /\ context' = [context EXCEPT ![wf][NameOf[t]] = t]
              /\ recorded' = recorded \cup {<<wf, t>>}
    BY <1>2, MergeAddsOne
  <2>2. CASE context' = [context EXCEPT ![wf][NameOf[t]] = t]
             /\ recorded' = recorded \cup {<<wf, t>>}
    <3>1. ASSUME NEW e \in recorded',
                 \A u \in Tasks \ {e[2]} : NameOf[u] # NameOf[e[2]]
          PROVE  context'[e[1]][NameOf[e[2]]] = e[2]
      <4>1. CASE e = <<wf, t>>
        BY <2>1, <2>2, <4>1
      <4>2. CASE e \in recorded
        <5>1. /\ e[1] \in Workflows /\ e[2] \in Tasks
              /\ context[e[1]][NameOf[e[2]]] = e[2]
          BY <3>1, <4>2 DEF ContextInv, ContextKeepsResults
        <5> QED
          BY <2>1, <2>2, <3>1, <5>1
      <4> QED
        BY <2>2, <3>1, <4>1, <4>2
    <3>2. ASSUME NEW v \in Workers, pc'[v] = "merge"
          PROVE  row'[v].context = context'[job'[v].workflow]
      <4>1. v # w /\ pc[v] = "merge" /\ row'[v] = row[v] /\ job'[v] = job[v]
        BY <1>2, <3>2 DEF HandleTaskResult_Commit
      <4>2. job[v].workflow # wf
        BY <1>2, <4>1 DEF LockInv, Holding, HandleTaskResult_Commit
      <4>3. context'[job[v].workflow] = context[job[v].workflow]
        BY <2>1, <2>2, <4>1, <4>2, MessageFields DEF WorkerShape
      <4> QED
        BY <4>1, <4>3 DEF ContextInv, FreshContext
    <3> QED
      BY <3>1, <3>2 DEF ContextInv, ContextKeepsResults, FreshContext
  <2> QED
    BY <1>1, <2>1, <2>2
<1> QED
    BY <1>1, <1>2, ContextWriters

\* No merged output is forgotten (orchestration_engine.py:143-154): whatever
\* the graph, the workers, the results and the failures, and for either kind of
\* session, an output stays under its name in the context it was merged into.
THEOREM OutputsAreKept == Spec => []ContextKeepsResults
<1> DEFINE Inv == TypeInv /\ LockInv /\ ContextInv
<1>1. Init => Inv
    BY TypingInit, LockInit, ContextInit
<1>2. Inv /\ [Next]_vars => Inv'
    BY TypingStep, LockStep, ContextStep
<1>3. Inv => ContextKeepsResults
    BY DEF ContextInv
<1> QED
    BY <1>1, <1>2, <1>3, PTL DEF Spec

\* What a worker sends along is what the row has.
PayloadInv == \A w \in Workers : Deciding(w) => row[w].context = context[job[w].workflow]

\* Initially no worker has a job.
LEMMA PayloadInit == Init => PayloadInv
BY DEF Init, InitEngine, PayloadInv, Deciding

\* Under the lock of the worker that decides nobody else merges.
LEMMA ContextHeld ==
    ASSUME TypeInv, LockInv, ContextInv, [Next]_vars,
           NEW w \in Workers, Deciding(w), Deciding(w)'
    PROVE  context'[job[w].workflow] = context[job[w].workflow]
<1>1. ASSUME NEW v \in Workers, HandleTaskResult_Commit(v)
      PROVE  context'[job[w].workflow] = context[job[w].workflow]
  <2>1. v # w /\ Holding(v) /\ Holding(w)
    BY <1>1 DEF HandleTaskResult_Commit, Deciding, Holding
  <2>2. job[v].workflow # job[w].workflow
    BY <2>1 DEF LockInv
  <2>3. job[w].workflow \in Workflows
    BY MessageFields DEF TypeInv, WorkerShape, Deciding
  <2> QED
    BY <1>1, <2>2, <2>3, MergeAddsOne DEF TypeInv, TypeOK, StoreTypeOK
<1> QED
    BY <1>1, ContextWriters

\* A worker keeps the object it decides with.
LEMMA DecidesWithOneRow ==
    ASSUME TypeInv, [Next]_vars, NEW v \in Workers, Deciding(v), Deciding(v)'
    PROVE  row'[v] = row[v]
<1> USE DEF TypeInv, TypeOK, EngineTypeOK, Deciding
<1>1. ASSUME NEW w \in Workers, HandleTaskResult_Fetch(w) \/ HandleTaskResult_Lock(w)
      PROVE  row'[v] = row[v]
    BY <1>1 DEF HandleTaskResult_Fetch, HandleTaskResult_Lock, Return
<1>2. ASSUME NEW w \in Workers, HandleTaskResult_Commit(w) PROVE row'[v] = row[v]
    BY <1>2 DEF HandleTaskResult_Commit
<1>3. ASSUME NEW w \in Workers, AdvanceWorkflow(w) PROVE row'[v] = row[v]
    BY <1>3 DEF AdvanceWorkflow, AdvanceWorkflow_Skip, AdvanceWorkflow_Evaluate,
        AdvanceWorkflow_Publish, AdvanceWorkflow_Commit, Return
<1>4. ASSUME NEW w \in Workers, Retry(w) \/ Crash(w) PROVE row'[v] = row[v]
    BY <1>4 DEF Retry, Crash, Abandon
<1>5. ASSUME NEW w \in Workers, Receive(w) \/ Ack(w) PROVE row'[v] = row[v]
    BY <1>5 DEF Receive, Ack
<1>6. CASE ReapZombie \/ UNCHANGED engineVars
    BY <1>6 DEF ReapZombie, engineVars, workerVars
<1> QED
    BY <1>1, <1>2, <1>3, <1>4, <1>5, <1>6
    DEF Next, NextEngine, HandleTaskResult, Fail, AbortWorker, Quiescent, vars

\* The invariant is inductive when sessions expire their objects.
LEMMA PayloadStep ==
    ASSUME ExpireOnCommit = TRUE
    PROVE  TypeInv /\ LockInv /\ ActiveInv /\ ContextInv /\ PayloadInv /\ [Next]_vars
              => PayloadInv'
<1> SUFFICES ASSUME TypeInv, LockInv, ActiveInv, ContextInv, PayloadInv, [Next]_vars,
                    NEW w \in Workers, Deciding(w)'
             PROVE  row'[w].context = context'[job'[w].workflow]
    BY DEF PayloadInv
<1>1. ActiveChange(w)
    BY ActiveChanges
<1>2. CASE Deciding(w)
    BY <1>1, <1>2, ContextHeld, DecidesWithOneRow DEF ActiveChange, PayloadInv
<1>3. CASE AdvanceWorkflow_Evaluate(w)
    BY <1>3 DEF AdvanceWorkflow_Evaluate, ActiveInv, RowSeen, rows,
        TypeInv, TypeOK, EngineTypeOK
<1> QED
    BY <1>1, <1>2, <1>3 DEF ActiveChange

\* An agent is sent the output of every upstream task whose output was merged
\* (orchestration_engine.py:85-91), for sessions that expire their objects at
\* commit: no merge gets between the engine's reading of the context, under the
\* lock, and the last dispatch of the wave.
THEOREM PayloadIsComplete ==
    ASSUME ExpireOnCommit = TRUE
    PROVE  Spec => []PayloadComplete
<1> DEFINE Inv == TypeInv /\ LockInv /\ ActiveInv /\ ContextInv /\ PayloadInv
<1>1. Init => Inv
    BY TypingInit, LockInit, ActiveInit, ContextInit, PayloadInit
<1>2. Inv /\ [Next]_vars => Inv'
    BY TypingStep, LockStep, ActiveStep, ContextStep, PayloadStep
<1>3. Inv => PayloadComplete
  <2> SUFFICES ASSUME Inv, NEW w \in Workers, pc[w] = "publish",
                      NEW t \in unsent[w], NEW u \in Upstream[t],
                      <<job[w].workflow, u>> \in recorded,
                      \A v \in Tasks \ {u} : NameOf[v] # NameOf[u]
               PROVE  row[w].context[NameOf[u]] = u
    BY DEF PayloadComplete
  <2>1. context[job[w].workflow][NameOf[u]] = u
    BY DEF ContextInv, ContextKeepsResults
  <2> QED
    BY <2>1 DEF PayloadInv, Deciding
<1> QED
    BY <1>1, <1>2, <1>3, PTL DEF Spec

-----------------------------------------------------------------------------
(* A withdrawal takes back a dispatch.                                     *)

Counted(t) ==
    /\ aborts[t] <= published[t]
    /\ Dispatched(t) => aborts[t] < published[t]

CountInv == \A t \in Tasks : Counted(t)

\* Initially nothing has been dispatched.
LEMMA CountInit == Init => CountInv
BY DEF Init, InitStore, InitEngine, CountInv, Counted, Dispatched

\* The invariant is inductive: what a worker has dispatched in its transaction
\* it withdraws once, when the transaction is rolled back.
LEMMA CountStep == TypeInv /\ LockInv /\ CountInv /\ [Next]_vars => CountInv'
<1> SUFFICES ASSUME TypeInv, LockInv, CountInv, [Next]_vars, NEW t \in Tasks
             PROVE  Counted(t)'
    BY DEF CountInv
<1>1. Counted(t) /\ published[t] \in Nat /\ aborts[t] \in Nat
    BY DEF CountInv, TypeInv, TypeOK, StoreTypeOK
<1> USE DEF TypeInv, TypeOK, StoreTypeOK, EngineTypeOK
<1>2. CASE UNCHANGED <<batch, unsent, published, aborts>>
    BY <1>1, <1>2 DEF Counted, Dispatched
<1>3. ASSUME NEW w \in Workers, AdvanceWorkflow_Evaluate(w) PROVE Counted(t)'
  <2>1. /\ published' = published /\ aborts' = aborts
        /\ unsent'[w] = batch'[w]
        /\ \A v \in Workers \ {w} : batch'[v] = batch[v] /\ unsent'[v] = unsent[v]
    BY <1>3 DEF AdvanceWorkflow_Evaluate, history
  <2>2. Dispatched(t)' => Dispatched(t)
    BY <2>1 DEF Dispatched
  <2> QED
    BY <1>1, <2>1, <2>2 DEF Counted
<1>4. ASSUME NEW w \in Workers, AdvanceWorkflow_Publish(w) PROVE Counted(t)'
  <2>1. PICK u \in unsent[w] : /\ published' = [published EXCEPT ![u] = @ + 1]
                               /\ unsent' = [unsent EXCEPT ![w] = @ \ {u}]
    BY <1>4 DEF AdvanceWorkflow_Publish
  <2>2. batch' = batch /\ aborts' = aborts /\ u \in Tasks
    BY <1>4 DEF AdvanceWorkflow_Publish
  <2>3. CASE t = u
    BY <1>1, <2>1, <2>2, <2>3 DEF Counted
  <2>4. CASE t # u
    <3>1. Dispatched(t)' => Dispatched(t)
      BY <2>1, <2>2, <2>4 DEF Dispatched
    <3> QED
      BY <1>1, <2>1, <2>2, <2>4, <3>1 DEF Counted
  <2> QED
    BY <2>3, <2>4
<1>5. ASSUME NEW w \in Workers, AdvanceWorkflow_Commit(w) PROVE Counted(t)'
  <2>1. /\ batch' = [batch EXCEPT ![w] = {}] /\ unsent' = unsent
        /\ published' = published /\ aborts' = aborts
    BY <1>5 DEF AdvanceWorkflow_Commit, history
  <2>2. Dispatched(t)' => Dispatched(t)
    BY <2>1 DEF Dispatched
  <2> QED
    BY <1>1, <2>1, <2>2 DEF Counted
<1>6. ASSUME NEW w \in Workers, Retry(w) \/ Crash(w) PROVE Counted(t)'
  <2>1. /\ batch' = [batch EXCEPT ![w] = {}] /\ unsent' = [unsent EXCEPT ![w] = {}]
        /\ published' = published
        /\ aborts'[t] = IF t \in batch[w] \ unsent[w] THEN aborts[t] + 1 ELSE aborts[t]
    BY <1>6 DEF Retry, Crash, Abandon
  <2>2. Dispatched(t)' => Dispatched(t)
    BY <2>1 DEF Dispatched
  <2>3. CASE t \in batch[w] \ unsent[w]
    <3>1. aborts[t] < published[t]
      BY <1>1, <2>3 DEF Counted, Dispatched
    <3>2. ~Dispatched(t)'
      BY <2>1, <2>3, OneBatch DEF Dispatched
    <3> QED
      BY <1>1, <2>1, <2>3, <3>1, <3>2 DEF Counted
  <2>4. CASE t \notin batch[w] \ unsent[w]
    BY <1>1, <2>1, <2>2, <2>4 DEF Counted
  <2> QED
    BY <2>3, <2>4
<1> QED
    BY <1>2, <1>3, <1>4, <1>5, <1>6, AttemptWriters

-----------------------------------------------------------------------------
(* The refinement.                                                         *)

\* What DagExecution speaks of.
seen == <<wstatus, status, context, completed, published, aborts>>

\* The steps that change something DagExecution speaks of.
LEMMA VisibleSteps ==
    ASSUME [Next]_vars
    PROVE  \/ UNCHANGED seen
           \/ \E w \in Workers : \/ HandleTaskResult_Commit(w)
                                 \/ AdvanceWorkflow_Publish(w)
                                 \/ AdvanceWorkflow_Commit(w)
                                 \/ Retry(w) \/ Crash(w)
           \/ \E r \in Requests : Commit(r)
<1>1. \/ UNCHANGED <<status, completed>>
      \/ \E w \in Workers : HandleTaskResult_Commit(w) \/ AdvanceWorkflow_Commit(w)
      \/ \E r \in Requests : Commit(r)
    BY StatusWriters
<1>2. \/ UNCHANGED <<published, aborts>>
      \/ \E w \in Workers : \/ AdvanceWorkflow_Publish(w)
                            \/ AdvanceWorkflow_Commit(w)
                            \/ Retry(w) \/ Crash(w)
  <2>1. ASSUME NEW w \in Workers, AdvanceWorkflow_Evaluate(w)
        PROVE  UNCHANGED <<published, aborts>>
    BY <2>1 DEF AdvanceWorkflow_Evaluate, history
  <2> QED
    BY <2>1, AttemptWriters
<1> QED
    BY <1>1, <1>2, WorkflowWriters, ContextWriters DEF seen

ServiceInv ==
    /\ TypeInv /\ RowInv /\ DispatchInv /\ LockInv /\ AttemptInv /\ ActiveInv
    /\ ContextInv /\ CountInv /\ OwnerInv

activeNow == {wf \in Workflows : wstatus[wf] \in Active}
goneNow == {t \in Tasks : status[t] = "DELETED"}

\* Writing one workflow's status switches that workflow at most.
LEMMA StatusSwitches ==
    ASSUME TypeInv, NEW wf \in Workflows, NEW s,
           wstatus' = [wstatus EXCEPT ![wf] = s]
    PROVE  activeNow' \in {activeNow \cup {wf}, activeNow \ {wf}}
<1>1. ASSUME NEW x \in Workflows, x # wf PROVE x \in activeNow' <=> x \in activeNow
    BY <1>1 DEF TypeInv, TypeOK, StoreTypeOK, activeNow
<1>2. CASE wf \in activeNow'
  <2>1. activeNow' = activeNow \cup {wf}
    BY <1>1, <1>2 DEF activeNow
  <2> QED
    BY <2>1
<1>3. CASE wf \notin activeNow'
  <2>1. activeNow' = activeNow \ {wf}
    BY <1>1, <1>3 DEF activeNow
  <2> QED
    BY <2>1
<1> QED
    BY <1>2, <1>3

\* A dispatch of the engine is a dispatch of DagExecution.
LEMMA PublishDispatches ==
    ASSUME ServiceInv, NEW w \in Workers, AdvanceWorkflow_Publish(w)
    PROVE  Abstract!Next
<1>1. PICK t \in unsent[w] : published' = [published EXCEPT ![t] = @ + 1]
    BY DEF AdvanceWorkflow_Publish
<1>2. t \in Tasks /\ t \in batch[w] /\ pc[w] = "publish"
    BY DEF AdvanceWorkflow_Publish, ServiceInv, TypeInv, TypeOK, EngineTypeOK, WorkerShape
<1>3. WorkflowOf[t] \in activeNow
    BY <1>2, ConstantsAssumption
    DEF ServiceInv, LockInv, ActiveInv, Deciding, activeNow
<1>4. Upstream[t] \subseteq completed \cup goneNow
    BY <1>2, ConstantsAssumption DEF ServiceInv, DispatchInv, UpstreamDone, goneNow
<1>5. published[t] <= aborts[t]
    BY <1>1, <1>2 DEF ServiceInv, AttemptInv, Attempt
<1>6. UNCHANGED <<activeNow, completed, goneNow, context, aborts>>
    BY DEF AdvanceWorkflow_Publish, rows, activeNow, goneNow
<1>7. Abstract!Dispatch(t)
    BY <1>1, <1>3, <1>4, <1>5, <1>6 DEF Abstract!Dispatch, activeNow, goneNow
<1> QED
    BY <1>2, <1>7 DEF Abstract!Next

\* A rollback of a worker withdraws what its transaction had dispatched.
LEMMA RollbackWithdraws ==
    ASSUME ServiceInv, NEW w \in Workers, Retry(w) \/ Crash(w)
    PROVE  Abstract!Next
<1> DEFINE S == batch[w] \ unsent[w]
<1>1. S \subseteq Tasks
    BY DEF ServiceInv, TypeInv, TypeOK, EngineTypeOK
<1>2. \A t \in S : aborts[t] < published[t]
    BY <1>1 DEF ServiceInv, CountInv, Counted, Dispatched
<1>3. aborts' = [t \in Tasks |-> IF t \in S THEN aborts[t] + 1 ELSE aborts[t]]
    BY DEF Retry, Crash, Abandon
<1>4. UNCHANGED <<activeNow, completed, goneNow, context, published>>
    BY DEF Retry, Crash, Abandon, rows, activeNow, goneNow
<1>5. Abstract!Withdraw(S)
    BY <1>2, <1>3, <1>4 DEF Abstract!Withdraw, activeNow, goneNow
<1> QED
    BY <1>1, <1>5 DEF Abstract!Next

\* The commit of a result completes its task, with or without an output, or
\* changes nothing DagExecution speaks of.
LEMMA ResultCompletes ==
    ASSUME ServiceInv, NEW w \in Workers, HandleTaskResult_Commit(w)
    PROVE  [Abstract!Next]_(Abstract!vars)
<1> DEFINE wf == job[w].workflow
           t == job[w].task
<1>1. /\ wf \in Workflows /\ t \in Tasks
      /\ \/ UNCHANGED <<context, recorded>>
         \/ /\ context' = [context EXCEPT ![wf][NameOf[t]] = t]
            /\ job[w].success
    BY MergeAddsOne DEF ServiceInv
<1>2. goneNow' = goneNow
  <2>1. status[t] # "DELETED" /\ status' = [status EXCEPT ![t] = ResultStatus(job[w])]
    BY DEF HandleTaskResult_Commit
  <2> QED
    BY <1>1, <2>1 DEF goneNow, ResultStatus, ServiceInv, TypeInv, TypeOK, StoreTypeOK
<1>3. /\ UNCHANGED <<activeNow, published, aborts>>
      /\ completed' = IF job[w].success THEN completed \cup {t} ELSE completed
    BY DEF HandleTaskResult_Commit, activeNow
<1>4. CASE context' = [context EXCEPT ![wf][NameOf[t]] = t] /\ job[w].success
  <2>1. Abstract!CompleteWithOutput(t, wf)
    BY <1>2, <1>3, <1>4 DEF Abstract!CompleteWithOutput, activeNow, goneNow
  <2> QED
    BY <1>1, <2>1 DEF Abstract!Next
<1>5. CASE context' = context /\ job[w].success
  <2>1. Abstract!Complete(t)
    BY <1>2, <1>3, <1>5 DEF Abstract!Complete, activeNow, goneNow
  <2> QED
    BY <1>1, <2>1 DEF Abstract!Next
<1>6. CASE context' = context /\ ~job[w].success
    BY <1>2, <1>3, <1>6 DEF Abstract!vars, activeNow, goneNow
<1> QED
    BY <1>1, <1>4, <1>5, <1>6

\* The commit of an evaluation switches its workflow or is a stutter.
LEMMA EvaluationSwitches ==
    ASSUME ServiceInv, NEW w \in Workers, AdvanceWorkflow_Commit(w)
    PROVE  [Abstract!Next]_(Abstract!vars)
<1> DEFINE wf == job[w].workflow
<1>1. wf \in Workflows
    BY MessageFields DEF AdvanceWorkflow_Commit, ServiceInv, TypeInv, WorkerShape
<1>2. goneNow' = goneNow
    BY DEF AdvanceWorkflow_Commit, goneNow, ServiceInv, TypeInv, TypeOK, StoreTypeOK
<1>3. UNCHANGED <<completed, context, published, aborts>>
    BY DEF AdvanceWorkflow_Commit, history
<1>4. CASE wstatus' = wstatus
    BY <1>2, <1>3, <1>4 DEF Abstract!vars, goneNow
<1>5. CASE wstatus' = [wstatus EXCEPT ![wf] = verdict[w]]
  <2>1. activeNow' \in {activeNow \cup {wf}, activeNow \ {wf}}
    BY <1>1, <1>5, StatusSwitches DEF ServiceInv
  <2>2. Abstract!Switch(wf)
    BY <1>2, <1>3, <2>1 DEF Abstract!Switch, activeNow, goneNow
  <2> QED
    BY <1>1, <2>2 DEF Abstract!Next, Abstract!Switch
<1> QED
    BY <1>4, <1>5 DEF AdvanceWorkflow_Commit

\* The commit of a request switches or removes a workflow, completes or deletes
\* a task, or is a stutter.
LEMMA RequestsDo ==
    ASSUME ServiceInv, NEW r \in Requests, Commit(r)
    PROVE  [Abstract!Next]_(Abstract!vars)
<1> DEFINE c == call[r]
           wf == call[r].workflow
           t == call[r].task
<1>1. c \in Calls /\ wf \in Workflows /\ t \in Tasks /\ c.op \in Ops
    BY CallFields, CallsAssumption DEF Commit, ServiceInv, TypeInv, RequestShape, Call
<1>2. UNCHANGED <<context, published, aborts>> /\ phase[r] = "flushed"
    BY DEF Commit
<1>3. CASE c.op \in WorkflowOps \ {"remove"}
  <2>1. /\ wstatus' = [wstatus EXCEPT ![wf] = NewWorkflowStatus(c)]
        /\ status' = [x \in Tasks |-> status[x]] /\ completed' = completed
    BY <1>3 DEF Commit
  <2>2. activeNow' \in {activeNow \cup {wf}, activeNow \ {wf}}
    BY <1>1, <2>1, StatusSwitches DEF ServiceInv
  <2>3. goneNow' = goneNow
    BY <2>1 DEF goneNow
  <2>4. Abstract!Switch(wf)
    BY <1>2, <2>1, <2>2, <2>3 DEF Abstract!Switch, activeNow, goneNow
  <2> QED
    BY <1>1, <2>4 DEF Abstract!Next, Abstract!Switch
<1>4. CASE c.op = "remove"
  <2> DEFINE S == {x \in Tasks : tlock[x] = r}
  <2>1. /\ wstatus' = [wstatus EXCEPT ![wf] = "DELETED"]
        /\ status' = [x \in Tasks |-> IF tlock[x] = r THEN "DELETED" ELSE status[x]]
        /\ completed' = completed
    BY <1>4 DEF Commit, WorkflowOps, NewWorkflowStatus
  <2>2. activeNow' = activeNow \ {wf}
    BY <1>1, <2>1 DEF activeNow, Active, ServiceInv, TypeInv, TypeOK, StoreTypeOK
  <2>3. goneNow' = goneNow \cup S
    BY <2>1 DEF goneNow
  <2>4. \A x \in S : WorkflowOf[x] = wf
    BY <1>4 DEF ServiceInv, OwnerInv, Owns
  <2>5. Abstract!RemoveWorkflow(wf, S)
    BY <1>2, <2>1, <2>2, <2>3, <2>4 DEF Abstract!RemoveWorkflow, activeNow, goneNow
  <2> QED
    BY <1>1, <2>5 DEF Abstract!Next, Abstract!RemoveWorkflow
<1>5. CASE c.op \notin WorkflowOps
  <2>1. /\ wstatus' = wstatus
        /\ status' = [status EXCEPT ![t] = NewTaskStatus(c)]
        /\ completed' = IF NewTaskStatus(c) = "COMPLETED" THEN completed \cup {t}
                                                          ELSE completed
    BY <1>5 DEF Commit
  <2>2. activeNow' = activeNow
    BY <2>1 DEF activeNow
  <2>3. CASE c.op = "delete"
    <3>1. goneNow' = goneNow \cup {t} /\ completed' = completed
      BY <1>1, <2>1, <2>3
      DEF goneNow, NewTaskStatus, ServiceInv, TypeInv, TypeOK, StoreTypeOK
    <3>2. Abstract!DeleteTask(t)
      BY <1>2, <2>2, <3>1 DEF Abstract!DeleteTask, activeNow, goneNow
    <3> QED
      BY <1>1, <3>2 DEF Abstract!Next, Abstract!DeleteTask
  <2>4. CASE c.op # "delete"
    <3>1. status[t] # "DELETED" /\ NewTaskStatus(c) # "DELETED"
      BY <1>1, <1>2, <1>5, <2>4, CallsAssumption
      DEF ServiceInv, RowInv, RequestRows, RowOps, Underway, Writing, NewTaskStatus, Ops,
          TaskStatusOps, WorkflowOps, WorkflowStatusOps, Call, Status
    <3>2. goneNow' = goneNow
      BY <1>1, <2>1, <3>1 DEF goneNow, ServiceInv, TypeInv, TypeOK, StoreTypeOK
    <3>3. CASE completed' = completed
      BY <1>2, <2>2, <3>2, <3>3 DEF Abstract!vars, activeNow, goneNow
    <3>4. CASE completed' = completed \cup {t}
      <4>1. Abstract!Complete(t)
        BY <1>2, <2>2, <3>2, <3>4 DEF Abstract!Complete, activeNow, goneNow
      <4> QED
        BY <1>1, <4>1 DEF Abstract!Next
    <3> QED
      BY <2>1, <3>3, <3>4
  <2> QED
    BY <2>3, <2>4
<1> QED
    BY <1>3, <1>4, <1>5

\* The service implements DagExecution (orchestration_engine.py:27-101,
\* 116-158), with sessions that expire their objects at commit: for every graph
\* and any number of workers, requests, retries and crashes, each step of the
\* service is one step of the abstract specification or none.
THEOREM ServiceExecutesDag ==
    ASSUME ExpireOnCommit = TRUE
    PROVE  Spec => ExecutesDag
<1>1. Init => ServiceInv
    BY TypingInit, RowInit, DispatchInit, LockInit, AttemptInit, ActiveInit,
       ContextInit, CountInit, OwnerInit
    DEF ServiceInv
<1>2. ServiceInv /\ [Next]_vars => ServiceInv'
    BY TypingStep, RowStep, DispatchStep, LockStep, AttemptStep, ActiveStep,
       ContextStep, CountStep, OwnerStep
    DEF ServiceInv
<1>3. Init => Abstract!Init
    BY ConstantsAssumption DEF Init, InitStore, Abstract!Init
<1>4. ServiceInv /\ [Next]_vars => [Abstract!Next]_(Abstract!vars)
  <2> SUFFICES ASSUME ServiceInv, [Next]_vars PROVE [Abstract!Next]_(Abstract!vars)
    OBVIOUS
  <2>1. CASE UNCHANGED seen
    BY <2>1 DEF seen, Abstract!vars
  <2> QED
    BY <2>1, VisibleSteps, ResultCompletes, PublishDispatches, EvaluationSwitches,
       RollbackWithdraws, RequestsDo
<1> QED
    BY <1>1, <1>2, <1>3, <1>4, PTL DEF Spec, ExecutesDag, Abstract!Spec
=============================================================================
