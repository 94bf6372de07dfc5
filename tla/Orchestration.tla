---------------------------- MODULE Orchestration ----------------------------
(***************************************************************************)
(* The whole service: workers and requests interleave over the store.      *)
(***************************************************************************)
EXTENDS Engine, Api, FiniteSets

ASSUME WorkersAssumption == IsFiniteSet(Workers)

vars == <<storeVars, engineVars, apiVars>>

Init == InitStore /\ InitEngine /\ InitApi

\* Nothing is left to do: every client has been served, no message is left.
Quiescent ==
    /\ \A m \in Message : queue[m] = 0
    /\ \A w \in Workers : pc[w] = "idle"
    /\ \A r \in Requests : phase[r] = "done"
    /\ UNCHANGED vars

\* Worker v waits for a task row that a removal has deleted, and the removal
\* waits for the workflow row that worker w has.
WaitsFor(v, w) ==
    \E r \in Requests :
        /\ phase[r] = "removing"
        /\ \E t \in AboutToWrite(v) : tlock[t] = r
        /\ wlock[call[r].workflow] = w

AwaitEachOther(S) == S # {} /\ \A v \in S : \E w \in S : WaitsFor(v, w)

\* A callback may name another workflow than its task's, so the circle can pass
\* through several workers.
Circle(S) ==
    /\ AwaitEachOther(S)
    /\ \A T \in SUBSET S : AwaitEachOther(T) => T = S

Deadlocked(w) == \E S \in SUBSET Workers : w \in S /\ Circle(S)

\* PostgreSQL aborts one of the circle: a removal's Rollback, or a job's
\* failure, which is the worker's first or its next attempt.
AbortWorker(w) ==
    /\ Deadlocked(w)
    /\ Retry(w)
    /\ UNCHANGED <<faults, apiVars>>

Next ==
    \/ NextEngine /\ UNCHANGED apiVars
    \/ NextApi /\ UNCHANGED engineVars
    \/ \E w \in Workers : AbortWorker(w)
    \/ Quiescent

Spec == Init /\ [][Next]_vars

(***************************************************************************)
(* Fairness.  A worker that can take a step takes one: it receives when    *)
(* idle, and goes on with its job once the row locks it needs are free.  A *)
(* request that has begun goes on likewise.  Weak fairness is enough, for  *)
(* the clients of an instance make finitely many calls and nobody can be   *)
(* passed over for ever.  Nothing obliges a client to call, a worker to    *)
(* fail or crash, or the reaper to find a task.  (The fair instances have  *)
(* no removal: with one, a deadlock would have to be broken as well.)      *)
(***************************************************************************)
WorkerSteps(w) ==
    \/ Receive(w) \/ HandleTaskResult(w) \/ AdvanceWorkflow(w) \/ Ack(w)
    \/ MustFail(w) /\ Fail(w)

RequestSteps(r) ==
    \/ UpdateStatus_Flush(r) \/ CreateTask_Flush(r)
    \/ DeleteTask_Flush(r) \/ Transition_Flush(r)
    \/ RemoveWorkflow_Tasks(r) \/ RemoveWorkflow_Row(r)
    \/ Commit(r)
    \/ /\ phase[r] # "removing"
       /\ Rollback(r)

Fairness ==
    /\ \A w \in Workers : WF_vars(WorkerSteps(w) /\ UNCHANGED apiVars)
    /\ \A r \in Requests : WF_vars(RequestSteps(r) /\ UNCHANGED engineVars)

FairSpec == Spec /\ Fairness

-----------------------------------------------------------------------------

TypeOK == StoreTypeOK /\ EngineTypeOK /\ ApiTypeOK

\* A task is dispatched only after every upstream task has been COMPLETED, or
\* has been deleted and its edge with it, however callbacks, retries, edits
\* and stale sessions interleave (orchestration_engine.py:58-62).
DispatchAfterUpstream ==
    \A t \in Tasks : published[t] > 0 =>
        \A u \in Upstream[t] : u \in completed \/ status[u] = "DELETED"

\* The row lock makes two evaluations of a workflow exclusive: a task is
\* dispatched a second time only if the transaction that dispatched it the
\* time before was rolled back (orchestration_engine.py:27-33, 81-101).
OneDispatchPerAttempt ==
    \A t \in Tasks : published[t] <= 1 + aborts[t]

\* No output merged into global_context is lost to a concurrent merge, to a
\* retry or to a later result (orchestration_engine.py:143-154).  Keys are
\* task names, so it is claimed for names used once.
ContextKeepsResults ==
    \A e \in recorded :
        (\A u \in Tasks \ {e[2]} : NameOf[u] # NameOf[e[2]])
            => context[e[1]][NameOf[e[2]]] = e[2]

\* The global_context an agent is sent has the output of every upstream task
\* whose output was merged (orchestration_engine.py:85-91).
PayloadComplete ==
    \A w \in Workers : pc[w] = "publish" =>
        \A t \in unsent[w] : \A u \in Upstream[t] :
            /\ <<job[w].workflow, u>> \in recorded
            /\ \A v \in Tasks \ {u} : NameOf[v] # NameOf[u]
            => row[w].context[NameOf[u]] = u

\* Agents are sent work only while the workflow is PENDING or RUNNING: a pause
\* or a verdict cannot slip in between the engine's look at the status and the
\* last dispatch of the wave (orchestration_engine.py:35-36, 81-99).
DispatchOnlyWhileActive ==
    \A w \in Workers : pc[w] = "publish" => wstatus[job[w].workflow] \in Active

\* A worker never writes the status of a workflow that is paused or terminal,
\* although it writes long after it read (orchestration_engine.py:35, 66, 72).
EngineRespectsPause ==
    [][\A wf \in Workflows :
          wstatus[wf] \notin Active /\ wstatus'[wf] # wstatus[wf]
              => phase' # phase]_vars

\* A workflow the engine declares COMPLETED has no task left that was never
\* COMPLETED (orchestration_engine.py:71-75).
CompletedMeansDone ==
    \A wf \in Workflows : wstatus[wf] = "COMPLETED" => TasksOf(wf) \subseteq completed

\* When a worker declares a workflow COMPLETED, no task of it that was never
\* COMPLETED is there, one inserted since the worker read the tasks included: a
\* creation waits for the evaluation or the evaluation for the creation
\* (orchestration_engine.py:27-33, 71-75, task_service.py:44-82).
CompletionIsEarned ==
    [][\A wf \in Workflows :
          wstatus[wf] # "COMPLETED" /\ wstatus'[wf] = "COMPLETED" /\ phase' = phase
              => TasksOf(wf)' \subseteq completed']_vars

\* A task starts with all the edges it was created with: an upstream row cannot
\* be deleted between the INSERT of the edge and its commit, which would drop
\* the edge and leave the task ready too early (task_service.py:67-77, 110-114).
CreatedWithDependencies ==
    [][\A t \in Tasks :
          status[t] = "UNCREATED" /\ status'[t] = "PENDING"
              => \A u \in Upstream[t] : TaskExists(u) /\ status'[u] # "DELETED"]_vars

\* A task that is created while its workflow is removed is refused or goes with
\* it: no task is left that no workflow owns (workflow_service.py:99-106,
\* task_service.py:44-82).
NoOrphans == \A t \in Tasks : TaskExists(t) => WorkflowExists(WorkflowOf[t])

\* While a job or a request is under way some process can go on, or PostgreSQL
\* has a deadlock of workers and removals to break (orchestration_engine.py:33, 101;
\* workflow_service.py:105).
SomebodyMoves ==
    \/ /\ \A w \in Workers : pc[w] = "idle"
       /\ \A r \in Requests : phase[r] \in {"idle", "done"}
    \/ \E w \in Workers : ENABLED WorkerSteps(w)
    \/ \E r \in Requests : ENABLED RequestSteps(r)
    \/ \E w \in Workers : Deadlocked(w)

\* The next statement of p, a job or a request, needs a lock that q holds.
JobAwaits(w, q) ==
    LET wf == job[w].workflow
    IN  \/ /\ pc[w] \in {"lock", "advance"}
           /\ WorkflowExists(wf)
           /\ q = wlock[wf] \/ q \in keyShare[wf]
        \/ \E t \in AboutToWrite(w) : q = tlock[t]

RequestAwaits(r, q) ==
    LET c == call[r]
        wf == c.workflow
        Rows(T) == \E t \in T : q = tlock[t]
        References(T) == \E t \in T : /\ q \in Requests /\ phase[q] \in Writing
                                      /\ call[q].op = "create"
                                      /\ t \in Upstream[call[q].task]
    IN  \/ /\ phase[r] = "checked"
           /\ \/ c.op \in TaskStatusOps /\ Rows({c.task})
              \/ c.op = "delete" /\ (Rows({c.task}) \/ References({c.task}))
              \/ c.op \in WorkflowStatusOps /\ q = wlock[wf]
              \/ c.op = "create" /\ q = wlock[wf] /\ (q \in Workers \/ Removing(wf))
              \/ c.op = "create" /\ Rows({u \in Upstream[c.task] : Deleting(u)})
        \/ /\ phase[r] \in {"checked", "removing"} /\ c.op = "remove" /\ q # r
           /\ Rows(TasksOf(wf)) \/ References(TasksOf(wf))
        \/ phase[r] = "removing" /\ (q = wlock[wf] \/ q \in keyShare[wf])

Awaits(p, q) ==
    \/ p \in Workers /\ JobAwaits(p, q)
    \/ p \in Requests /\ RequestAwaits(p, q)

\* q's transaction is over: nothing will release a lock it still had.
Over(q) ==
    \/ q \in Workers /\ pc[q] = "idle"
    \/ q \in Requests /\ phase[q] \in {"idle", "done"}

\* Each of P waits for one of P, or for a lock that nobody will release.
StuckTogether(P) ==
    /\ P # {}
    /\ \A p \in P : \E q \in Workers \cup Requests : Awaits(p, q) /\ (q \in P \/ Over(q))

\* Jobs and requests do not wait for one another in a circle, nor for a lock
\* left behind, except where workers of the known deadlock are among them: all
\* other locks are taken in the order of workflow row before task rows, or by a
\* transaction that needs no lock afterwards (orchestration_engine.py:33, 101;
\* workflow_service.py:105; core/database.py:50-59).  It speaks of what the model
\* lets a request wait for: the locks of one flush are taken together.
NobodyStuck ==
    \A P \in SUBSET (Workers \cup Requests) :
        StuckTogether(P) => \E w \in P \cap Workers : Deadlocked(w)

\* A worker of S gives up its job, or a removal that waits for one of S is
\* rolled back.
Aborted(S) ==
    \/ \E v \in S : pc'[v] = "idle"
    \/ \E r \in Requests : /\ phase[r] = "removing" /\ phase'[r] = "done"
                           /\ wlock[call[r].workflow] \in S

\* The known deadlock is one: whatever the others commit, workers that wait for
\* each other through removals do so until one of these jobs or requests is
\* aborted (orchestration_engine.py:33, 101, 154; workflow_service.py:105).
DeadlocksLast ==
    [][\A S \in SUBSET Workers :
          AwaitEachOther(S) /\ ~AwaitEachOther(S)' => Aborted(S)]_vars

\* Somebody is going to evaluate wf: there is an advance message, or a worker
\* that waits only for the lock, for the object in its session, if it has one,
\* says that the workflow is active.
Due(wf) ==
    \/ \E m \in AdvanceMessage : m.workflow = wf /\ queue[m] > 0
    \/ \E w \in Workers : /\ pc[w] = "advance" /\ job[w].workflow = wf
                          /\ row[w] # NoRow => row[w].status \in Active

\* Somebody has evaluated wf and not committed yet, and t is in the batch or
\* the workflow ends.
Seen(wf, t) ==
    \E w \in Workers : /\ pc[w] \in {"publish", "commit"} /\ job[w].workflow = wf
                       /\ t \in batch[w] \/ verdict[w] \in Terminal

ReadyIn(wf) == Ready(TasksOf(wf), status, UpstreamRows)

\* If wf is RUNNING, each of its tasks that could be dispatched has somebody
\* who will look at it.
Attended(wf) == wstatus[wf] = "RUNNING" => \A t \in ReadyIn(wf) : Due(wf) \/ Seen(wf, t)

\* No wake-up is lost between a result, its merge and the next evaluation, nor
\* when a resume is published before its commit (orchestration_engine.py:154-158,
\* workflow_service.py:155-158).
NoLostWakeup == \A wf \in Workflows : Attended(wf)

\* A resume that is not committed has published its message already.
Announced(wf) ==
    \A r \in Requests :
        phase[r] = "flushed" /\ call[r].op = "resume" /\ call[r].workflow = wf => Due(wf)

\* A job of wf fails or dies at its evaluation and is not repeated: it is not
\* queued again, or its retry will find that its task has ended.
Forgotten(wf) ==
    \E w \in Workers :
        /\ pc[w] \in {"advance", "publish", "commit"} /\ pc'[w] = "idle"
        /\ job[w].workflow = wf
        /\ job[w].kind = "result" \/ queue' = queue

\* A wake-up is lost only by a job that fails at its evaluation and is not
\* repeated; any other failure, death or retry keeps it, and what fails before
\* or after does no harm (orchestration_engine.py:121-122, 154-158,
\* workers/tasks.py:80-83, 110-112).
WakeupsSurvive ==
    [][\A wf \in Workflows :
          Attended(wf) /\ Announced(wf) /\ ~(Attended(wf)' /\ Announced(wf)')
              => Forgotten(wf)]_vars

HasEnded(t) == status[t] \in Terminal \cup NoRowStatus

\* A result of t is in the queue, or with a worker that has not merged it.
Reported(t) ==
    \E m \in ResultMessage :
        /\ m.task = t
        /\ queue[m] > 0 \/ \E w \in Workers : pc[w] \in {"fetch", "lock", "merge"} /\ job[w] = m

\* The job of t's result is given up: its last attempt fails, or its worker
\* dies and the message is not delivered again.
GivenUp(t) ==
    \E w \in Workers : /\ pc[w] \in {"fetch", "lock", "merge"} /\ pc'[w] = "idle"
                       /\ job[w].task = t /\ queue' = queue

\* A result that was published is not dropped: it goes from the queue to a
\* worker, and back after a failure, until its task has ended, unless no
\* attempt is left or the workflow it names does not exist
\* (orchestration_engine.py:116-132, workers/tasks.py:98-112, celery_app.py:27).
ResultsSurvive ==
    [][\A t \in Tasks :
          Reported(t) /\ ~Reported(t)' =>
              \/ HasEnded(t)' \/ GivenUp(t)
              \/ \E w \in Workers : /\ pc[w] = "lock" /\ job[w].task = t
                                    /\ ~WorkflowExists(job[w].workflow)]_vars

\* t could be dispatched: only an evaluation of its workflow is missing.
Waiting(t) ==
    /\ wstatus[WorkflowOf[t]] = "RUNNING"
    /\ t \in ReadyIn(WorkflowOf[t])

\* No task waits for ever: it is queued, or ceases to be ready because its
\* workflow stops or an upstream task changes (orchestration_engine.py:58-62,
\* 81-101, 158).
ReadyIsDispatched == \A t \in Tasks : Waiting(t) ~> ~Waiting(t)

FailureIgnored(t) == status[t] = "FAILED" /\ wstatus[WorkflowOf[t]] = "RUNNING"

\* A workflow does not go on RUNNING for ever over a task that stays FAILED
\* (orchestration_engine.py:65-69).
FailureEndsWorkflow == \A t \in Tasks : FailureIgnored(t) ~> ~FailureIgnored(t)

\* A result that was published reaches its task: the task ends, by this result
\* or by another one that was there first (orchestration_engine.py:116-154).
ResultIsApplied == \A t \in Tasks : Reported(t) ~> HasEnded(t)

\* The reaper is scheduled every five minutes for ever, so it is fair where a
\* property is about it (celery_app.py:32-37).
ReaperFairSpec == FairSpec /\ WF_vars(ReapZombie /\ UNCHANGED apiVars)

\* t is RUNNING, and no worker is about to commit QUEUED over it: an agent may
\* report RUNNING before its dispatch is committed (orchestration_engine.py:95,
\* 101), and a QUEUED task is not looked at.
Silent(t) == status[t] = "RUNNING" /\ \A w \in Workers : t \notin batch[w]

\* A task whose agent went silent ends, if a run of the reaper is left: the
\* reaper finds it, its FAILED goes through the queue to a worker and into the
\* row, unless the agent's own late answer is there first
\* (workers/tasks.py:21-45, orchestration_engine.py:116-154).
ZombiesAreReaped ==
    \A t \in Tasks : Silent(t) /\ reaps < MaxReaps ~> HasEnded(t)
=============================================================================
