# Orchestration Service in TLA+

The Orchestration Service runs workflows: directed graphs of tasks that remote
agents carry out. FastAPI endpoints let clients create, plan, edit, start, pause,
resume and delete workflows and let agents report results and messages; Celery
workers evaluate the graph and dispatch the tasks that have become ready; a
scheduled reaper gives up tasks whose agent went silent. All of them share
PostgreSQL rows and a Redis queue. This directory models that shared life of the
rows and the queue, checks it with TLC and proves its central properties with
TLAPS.

Paths below are relative to the repository, `engine` stands for
`app/services/orchestration_engine.py` and `tasks.py` for `app/workers/tasks.py`.

## The system

| Component | State it keeps | Operations | Modelled in |
|---|---|---|---|
| Engine (`engine`) | none of its own; the session's objects | `advance_workflow`, `handle_task_result` | `Dag`, `Engine` |
| Celery workers (`tasks.py`, `celery_app.py`) | the message in hand | the two job wrappers with `self.retry`, the reaper, the memory job | `Engine`, `Messages` |
| Publisher (`events/publisher.py`) | the Redis client | `publish_event`: a Celery job for three event types, a broadcast for all | `Store` (queue, `published`) |
| Task service, endpoints | none | create, delete, update_status, agent callback; resolve-hitl, validate-dag | `Api`, `Planner` |
| Workflow service, endpoints | none | create, start, pause, resume, PATCH, delete | `Api` |
| Planner | none | generate: ask a language model, validate, save | `Plan`, `Planner` |
| Messages | none | create with an idempotency key; list | `Messages` |
| Sessions, repositories | one transaction per request or job | get, flush, commit, rollback | `Store`, `Api`, `Engine`, `Messages` |
| Models, migrations | tables workflows, tasks, task_dependencies, messages | | `ExecutionStatus`, `Store`, `Messages` |
| main, config, logging, schemas | settings | health, CORS | not modelled |

How they interact:

* A **request** reads without a lock, checks, flushes its write (which locks the
  row), publishes, and commits only after the handler has returned
  (`core/database.py:50-59`). What it publishes can be processed before its
  commit, and what it checked can have changed before its flush.
* A **worker** locks the workflow row FOR UPDATE, reads all tasks unlocked,
  dispatches *before* its commit, and writes the tasks at the commit. The
  result job is two transactions: merge the result, then evaluate.
* A **removal** locks the task rows first and the workflow row last; it and the
  workers can therefore wait for each other, and PostgreSQL aborts one of them.
* The **planner** looks at the workflow, asks a language model for seconds, and
  saves the plan in one transaction that looks at nothing again.
* A **message** is inserted, its copy is queued for the memory service and the
  client is answered, and then it is committed.
* **Celery messages** carry no order and come back: `acks_late`, `self.retry`
  with a countdown, and the visibility timeout of the broker.
* **Agents** hear dispatches over a broadcast and answer through the callback.

Hard to test, and listed line by line under `hazards` in `PROJECT.json`: checks
made stale before the write, the session's identity map answering in place of
the database, two workers merging results of one join, dispatch before commit,
retries of jobs that are half done, pauses and removals racing with verdicts,
edits of the graph under a running engine, plans that arrive late, retries of a
post under one key.

What makes each part correct: the engine dispatches a task once, after its
upstream, with their outputs, and only for an active workflow; the workers lose
no result and no wake-up; the services respect their transition tables and the
graph's edges and leave no orphans; the reaper ends what would otherwise wait for
ever; the planner saves acyclic graphs; retries of a post agree on one message,
of which the memory service hears once.

## Modules

| Module | Contents |
|---|---|
| `ExecutionStatus` | the status enum and the two transition tables as sets of pairs |
| `Dag` | what an evaluation computes from one reading of the graph |
| `Store` | rows, row locks, queue, history variables; the constants |
| `Engine` | the workers: one action per database statement of a job |
| `Api` | the requests: check, flush, commit or rollback |
| `Orchestration` | all of it interleaved, deadlocks, fairness; the properties |
| `OrchestrationClaims` | two promises of the code that it does not keep |
| `DagExecution` | what the service promises, without queues, workers, locks or requests |
| `OrchestrationRefinement` | the mapping under which `Orchestration` implements `DagExecution` |
| `Plan` | a plan, its validation, and the rows it becomes: operators only |
| `Planner` | generate racing with other planners, the clients' requests and the engine's jobs |
| `Messages` | posting a message under an idempotency key, cascades, the memory job |
| `MCOrchestration`, `MCPlanner`, `MCMessages` | instances for TLC |
| `OrchestrationProofs` | typing |
| `TaskRowProofs` | the life of a task row |
| `LockProofs` | mutual exclusion, one dispatch per attempt, pause respected |
| `DispatchProofs` | dispatch in dependency order; which results and wake-ups a failure may lose |
| `RefinementProofs` | outputs are kept and sent; every step is a step of `DagExecution` |
| `EditProofs` | no orphans, no lost edges, COMPLETED is earned; who can wait for whom |
| `PlannerProofs` | typing; the saved graph is acyclic; no evaluation leaves a RUNNING workflow stalled |
| `MessagesProofs` | retries agree; one copy per key |

`Orchestration` composes `Engine` and `Api` over `Store`. `Planner` and
`Messages` stand beside it and share with it no more than they need. `Planner`
uses `Dag` for the engine and takes only the planner apart into statements. A
client's request and a job of the engine are one step each, as their
statement-by-statement races and failures are the subject of `Orchestration`:
`NoLostWakeup` is what allows `Finish`, the merge of a result, to be followed by
an evaluation. `Messages` has the workflow and task rows only as parents.

### Correspondence: engine and requests

A worker's `pc` is the statement it executes next:

    result message   fetch -> lock -> merge -> advance -> [publish ->] commit -> ack
    advance message                            advance -> [publish ->] commit -> ack

`row[w]` is the workflow object in the session's identity map. SQLAlchemy does
not overwrite a loaded object when it is selected again, FOR UPDATE or not,
unless the commit expired it; `RowSeen` says so, and `ExpireOnCommit` chooses.
`StatusSeen` is the same for the result's own task. `batch[w]` are the tasks the
session has marked QUEUED and `unsent[w]` those not yet dispatched.

Locks follow PostgreSQL: `wlock` is FOR UPDATE or an UPDATE or DELETE of the
workflow row, `keyShare` the FOR KEY SHARE of an INSERT with a foreign key,
`tlock` an UPDATE or DELETE of a task row. Plain SELECTs see committed rows and
never wait. A worker locks task rows only within its commit, which is one step,
so there a guard takes the place of a lock. Locking the workflow row and reading
its tasks are one step as well: a commit that falls between the two has the
effect of one that falls before both, for it does not touch the locked row. (The
edges come with a second SELECT, of `selectinload`. While the workflow row is
locked no edge can be added. A row deleted between the two is no longer waited
for, as if it had been deleted before, but may still be in the batch, whose commit
then fails, as if it had been deleted later: both are in the model, though not in
one evaluation.)

A removal goes through two phases, "checked" to "removing" (the task rows are
deleted) to "flushed" (the workflow row is, and with it by cascade what was
inserted since). It can form a circle with a worker that holds the workflow row
and needs a task row. As a callback may name another workflow than its task's, the
worker may need a row of a second removal, which waits for a second worker, and so
on: `Circle` is the smallest such set of workers (an earlier form of this model
knew only pairs, and `SomebodyMoves` failed on two removals and two workers).
PostgreSQL breaks a circle by aborting a job (`AbortWorker`, which goes the way of
`self.retry`) or a request (`Rollback`).

A flush takes all its locks in one step. Circles that need a finer grain, of a
removal and a creation that refers to a deleted row or of two statements that
delete the same rows in different orders, are therefore not seen as such; they
involve requests only, one of which gets an error, and that is `Rollback` again.

`global_context` maps a task name to the task whose output it holds. `Message`
is the queue's content as a bag. `completed`, `recorded`, `published` and
`aborts` are history: nothing reads them but the properties.

Requests are one-shot: each element of `Requests` makes one of `Calls`. A
task's graph edges are those it is created with (`Upstream`); an edge is a row
while both ends are. WAITING and SKIPPED are in the enum, but no code path
writes them, so resolve-hitl, which demands WAITING, refuses every call and is
left out. `TaskService.update` has no endpoint.

### Correspondence: planner and messages

A planner is "check" (the endpoint's look at status and tasks), then "asked"
(the language model is thinking), then "done". The model answers with any plan
of the constant `Plans`; `Validated` is `_validate_dag`, `SavedEdges` the two
dictionaries of `_persist_plan_to_db`, both as the code computes them, so that a
plan with one id twice is treated as the code treats it. `Acyclic` is the
reference definition of what `TopologicalSorter.prepare` accepts: no set of nodes
all of which wait for one of the set. An empty plan is an error before
`requires_workflow` is looked at, so a direct answer must come with tasks, which
it then ignores.

While the planner waits, clients may create and delete tasks (`CreateTask`,
`DeleteTask`), override a task's status (`UpdateStatus`), start, pause, resume,
PATCH and remove the workflow, each under the code's own check: resume is
accepted from PENDING and looks at no tasks. `due` counts the evaluations in the
queue. Start, resume and the merge of a result add one. A callback or a PATCH that
ends a task adds none, for the worker then finds the task terminal and returns
(`engine:121-122`); it is `UpdateStatus`, and `Finish` has the worker's check in its
guard, for agents that leave the final status to the worker and for the reaper.

A post is one HTTP request and the row it may insert. "lookup" is the search for
the key, "insert" the flush, "inserted" and "answered" lie before the commit, as
FastAPI closes the session of a dependency after it has sent the response.
The unique constraint makes an INSERT wait for an uncommitted row with its key
(`MustWait`) and refuses it for a committed one (`Taken`). NULL keys never
collide, but the re-read after a conflict turns NULL into IS NULL and so finds
other messages without a key. An empty string as key, which is not looked up but
is unique, is left out.

### Constants that stand for the code as it could be

Some lines raise whenever they are reached, and nothing behind them ever runs.
The constant `Defects` names which of them are present. In `Store`:

* `session_factory`: workers open `async_sessionmaker()`, a class that is not
  bound to anything (`tasks.py:25, 50, 59`);
* `enum_labels`: the database's enum type lacks QUEUED, WAITING and SKIPPED
  (`alembic/versions/0aef1bf0038a:27, 40`);
* `log_kwargs`: keyword arguments to a standard library logger, after the flush;
* `lazy_load`: `wf.tasks` in an async session (`workflow_service.py:142`);
* `reaper_column`: `TaskModel.updated_at` (`tasks.py:29`).

In `Planner`, `lazy_load` again (`endpoints/planner.py:55`) and
`direct_message`, a call of `MessageService.create` with arguments it does not
have (`planner_service.py:45-50`). In `Messages`, `agent_id`, a field the schema
lacks (`message_service.py:58`), `log_kwargs` (lines 39, 71, 74), and `session`,
an attribute the service lacks (line 70).

With `Defects = {}` the logic behind them can be examined, which every run does.
As committed, with all of them present, a started workflow dispatches nothing,
no plan is asked for and no message is stored. The theorems hold for every value
of `Defects`.
Once the workers have a bound session, `ExpireOnCommit` is TRUE for SQLAlchemy's
default and FALSE for the factory of `core/database.py`; the code does not yet
say which it will be.

`MaxFaults`, `MaxCrashes`, `MaxReaps` and `MaxRetries` bound what has no bound in
the code (spontaneous failures, deaths of workers, runs of the reaper) or has one
(`max_retries`, 3). A failure that the code itself causes (`MustFail`) is free.
`MaxDefs` bounds the length of a plan and `MaxDue` the evaluations in the queue of
`Planner`; `WorkflowPatches` and `TaskPatches` are the statuses its clients write.

An operator named `X_Y`, written before `X`, is `X` with a plausible mistake `Y`;
nothing uses it but the mutants of `PROJECT.json`, which show that each property
notices.

## Runs

Each worker, request, planner and post is a model value; the `MCOrchestration`
runs that check no liveness are reduced by symmetry of workers and of requests.

| Run | Instance | Shows |
|---|---|---|
| `Join` | join of two tasks, 2 workers, 3 requests, 1 failure, 1 crash, 1 retry | typing, dependency order, one dispatch per attempt, no merged output lost, complete payload, no result or wake-up lost but by a job that is given up, refinement |
| `Pause` | chain of two, 2 workers, start, pause, resume, removal and 2 callbacks by 4 requests, 1 failure | no dispatch under a pause, COMPLETED means done, no wake-up lost but by a job that fails at its evaluation |
| `Edit` | a task, one that depends on it and a third, the last two created by requests; a second workflow created; 1 worker, 4 requests | edits and removal of the graph under the engine keep order, attempts and edges, leave no orphan and no deadlock but the known one; no verdict overlooks a creation; refinement |
| `Circle` | two workflows removed while two workers have results of the other's tasks, a third task created or deleted; 2 workers, 4 requests | somebody can always go on or is in a deadlock of the known kind; nobody waits for a lock left behind; the deadlock lasts until one of its jobs or removals is aborted |
| `Progress` | chain of two, 2 workers, 3 requests, 1 run of the reaper, fair | no wake-up is lost; ready tasks are dispatched, results applied; a silent task ends, by the reaper's failure or the agent's late answer; failures end the workflow |
| `Planner` | 2 planners, 1 creation, plans of up to 2 definitions, some to be refused; any number of deletions, starts, pauses, resumes, PATCHes of the workflow to RUNNING or PAUSED and of tasks to RUNNING, PAUSED or COMPLETED; up to 2 evaluations in the queue | the saved graph is acyclic; neither an evaluation nor a late plan leaves a RUNNING workflow with tasks and nobody at work, but in the cases `EvaluationsLeaveWork` names |
| `Messages` | 3 posts under one key, one without a key, one under the key in another workflow; 1 failure; fair | answers agree, one copy per key, stored messages are remembered |

Why the bounds suffice: two workers are enough for every race of workers, since
the lock makes a third wait; a join of two is the smallest graph where results
meet; each kind of request occurs at least once beside those it races with; one
failure or crash may fall at any statement; a planner races with one other and
with one creation, as rows of one are never looked at by another, and a creation
makes the third row of a join or a longer chain; three posts
make a winner, a loser and a late lookup. The proofs below remove the bounds
for the properties they cover.

### Where code and promise differ

These runs end in a counterexample. Each checks one promise of a docstring or
comment, quoted in `PROJECT.json`.

| Run | What happens |
|---|---|
| `Callback` | The callback commits COMPLETED; the worker's idempotency check then returns at once; the next task is never dispatched. |
| `TerminalTask` | An agent reports RUNNING, the reaper gives it up, a worker with the reaper's FAILED fetches the RUNNING task and locks the workflow, the callback commits COMPLETED, and the worker writes FAILED over it. |
| `TerminalWorkflow` | A pause is checked while the workflow is RUNNING; the last result completes the workflow; the pause is flushed and makes it PAUSED. |
| `StaleContext` | With objects that survive the commit, the join is dispatched with one of its two inputs missing. |
| `PlanIds` | A plan defines an id twice, the first definition depending on the id itself: validation sees the second, the rows get both, and a task waits for itself. |

More differences were met while modelling, and no run is spent on them:

* the dispatch leaves before the commit, so an agent that reports RUNNING at once
  is set back to QUEUED (`engine:82, 95, 101`), where the reaper does not look;
* a job that fails after the commit of its merge (or is aborted there by a
  deadlock with a removal) is retried, finds the task terminal and returns: its
  evaluation is lost (`engine:121-122, 154-158`). `NoLostWakeup` is therefore
  checked without failures, and `WakeupsSurvive`, which says of every step what
  it may lose (`Forgotten`), with them;
* resume is accepted from PENDING, for the table allows PENDING to RUNNING
  (`workflow_service.py:31-34, 156`), while `WorkflowNotPausedError` of
  `core/exceptions.py:45`, which nothing raises, says otherwise;
* a task can be inserted in a workflow that has become COMPLETED since the
  unlocked check of `task_service.py:50-53`;
* a callback publishes the workflow id of its URL, which nobody compares with
  the task's (`endpoints/tasks.py:126`): the output is merged into that
  workflow's context and wakes that workflow up;
* a task may depend on tasks of other workflows, whose results do not wake its
  own workflow up (`task_service.py:68`);
* the same is true of requests: of two PATCHes to RUNNING checked while the task is
  PENDING, the second may be flushed over a COMPLETED that was committed in
  between (`task_service.py:121-137`), and a resume checked at PENDING takes a
  workflow out of COMPLETED as the pause of `TerminalWorkflow` does;
* a callback or a PATCH that writes FAILED itself leaves the workflow RUNNING,
  as one that writes COMPLETED does: the worker returns before it evaluates
  (`endpoints/tasks.py:114`, `engine:121-122`), so `FailureEndsWorkflow` is about
  failures that reach the row through the worker;
* a plan can arrive too late: the planner has found the workflow PENDING and
  empty, a client resumes it, a worker evaluates the empty graph, and then the plan is
  committed. The workflow is RUNNING, its tasks are PENDING, nothing is queued,
  and start and resume answer 409; a pause and a resume wake it up
  (`endpoints/planner.py:47-48`, "We only plan workflows that haven't started",
  `workflow_service.py:31, 138, 155-158`). `EvaluationsLeaveWork` names this case,
  and those of a client who PATCHes the workflow to RUNNING or ends or deletes
  the last task that had begun;
* deleting the last, COMPLETED task before the evaluation leaves a workflow
  RUNNING without tasks (`engine:56`, `task_service.py:112`);
* two requests for a plan may both be saved, and a direct answer may complete a
  workflow that was started meanwhile (`endpoints/planner.py:48-64`,
  `planner_service.py:53`); the answer to a saved plan cannot be serialised
  (`endpoints/planner.py:81`);
* `list_for_task` returns the repository's pair of messages and total as if it
  were the list of messages, and the endpoint cannot serialise it
  (`message_service.py:133-136`, `endpoints/messages.py:98-105`).

`Progress` uses callbacks that leave the task RUNNING and the final status to the
worker: the only use of the endpoint under which the engine goes on.

`ZombiesAreReaped` says that a silent task ends, not only that the reaper
publishes: its FAILED must pass the queue, the worker's check and the lock. It is
claimed while a run of the reaper is left (`MaxReaps`; in the code there always
is one) and for a task that no worker has in its batch, as the commit of the
batch would set it back to QUEUED (`engine:95`), where the reaper does not look.

### Fairness

Weak fairness for each worker (it receives when idle and goes on when the locks
it needs are free) and for each request that has begun. Celery's prefork workers
and the event loop give no less; PostgreSQL grants a freed row lock to a waiter.
Weak fairness is enough although locks are contended, because the clients of an
instance make finitely many calls, so a lock cannot be taken from somebody for
ever. No client has to call, no agent has to answer, nothing has to fail. The
reaper is fair as well, for beat schedules it every five minutes
(`celery_app.py:32-37`). In `Messages` a post that has begun is served to its
end and the memory job is taken from the queue; failures are never obliged.

Deadlock is checked everywhere: a state in which nothing can happen is allowed
only when all requests are done and the queue is empty (`Quiescent`). As a
request that has written something may always be rolled back, that alone would
not notice all processes that wait in a circle; `SomebodyMoves` does, and names the
one kind of circle there is. `NobodyStuck` says the same of every group of
processes, also while others go on: whoever waits, directly or through others,
for a circle or for a lock without an owner has a worker of the known kind of
circle among them.

## Proofs

All theorems hold for any constants that satisfy the `ASSUME`s of the modules,
which say that the instance is well formed: rows refer to rows, workers are not
requests, markers are not values. Each module extends the one before it:
`OrchestrationProofs`, `TaskRowProofs`, `LockProofs`, `DispatchProofs`,
`RefinementProofs`, `EditProofs`.

The engine and the requests:

* `TypeCorrect` (`[]TypeOK`). `TypeOK` alone is not inductive, as the message in
  hand and the session object have a type that depends on `pc`; `WorkerShape`
  and `RequestShape` say how.
* `TaskRowProofs`, lemmas `RowChanges` and `RowStep`: a row that was inserted is
  never UNCREATED again, a deleted one stays deleted, PENDING is only the first
  status. Services check without a lock, so this needs to know of each request
  under way what its check has established and that nobody undoes it: a flushed
  request has the row's lock, and ids of new tasks are distinct.
* `DispatchInOrder` (`[]DispatchAfterUpstream`). The engine decides on rows it
  does not lock and dispatches later. The invariant carries the reason: each
  task in a batch has its upstream done, done being stable (`completed` grows,
  DELETED stays), and a status the session puts in the place of the row's own is
  one that was committed. Holds for either value of `ExpireOnCommit`.
* `DispatchedOncePerAttempt` (`[]OneDispatchPerAttempt`). From the lock follows
  that a task is in one batch at a time (`OneBatch`); from the life of the row
  that a task once QUEUED is not PENDING again; so each dispatch but one has been
  rolled back (`Attempt`).
* `DispatchWhileActive` and `PauseRespected`, assuming `ExpireOnCommit = TRUE`:
  an evaluation begins with a fresh row, and under the lock nobody else writes
  the status (`StatusHeld`). With objects that survive the commit the assumption
  of a fresh row fails, as the run `StaleContext` shows for the context.
* `OutputsAreKept` (`[]ContextKeepsResults`). The object a worker merges into
  equals the row (`FreshContext`), since it was read under the lock and only
  merges, which need the lock, write the context. So a merge adds an entry and
  erases none but one of the same name. Holds for either value of
  `ExpireOnCommit`, as the merge is the first use of the row.
* `PayloadIsComplete` (`[]PayloadComplete`), assuming `ExpireOnCommit = TRUE`.
  The object a worker decides with equals the row from its evaluation to its last
  dispatch (`PayloadInv`): it was read under the lock, and whoever writes the
  context has the lock (`ContextHeld`). So the payload has what the row has, and
  the row has every merged output (`ContextKeepsResults`). The run `StaleContext`
  shows that the assumption is needed.
* `ServiceExecutesDag` (`ExecutesDag`, refinement), assuming
  `ExpireOnCommit = TRUE`. Each action is mapped to a step of `DagExecution` or
  a stutter: a publish to `Dispatch`, whose three guards are the three theorems
  above; a failure, crash or abort to `Withdraw`, for a withdrawn dispatch was
  one of the attempt (`Attempt`); a merge to `Complete` or `CompleteWithOutput`,
  with `FreshContext`; a commit of a request to `Switch`, `Complete`,
  `DeleteTask` or `RemoveWorkflow`, for a removal has locked only rows of its own
  workflow.

Edits of the graph under the engine (`EditProofs`), for any constants:

* `NothingIsOrphaned` (`[]NoOrphans`), `EdgesAreKept` (`CreatedWithDependencies`)
  and `VerdictsAreEarned` (`CompletionIsEarned`) rest on one invariant,
  `EditInv`. A creation under way has the workflow row FOR KEY SHARE and its
  upstream rows cannot be deleted (`CreationHolds`); a removal that has flushed
  has every task row of its workflow, and nobody has the workflow FOR KEY SHARE
  (`RemovalHolds`); neither has anybody while a worker holds the row, so no task
  is added behind an evaluation, and a worker that has decided on COMPLETED is
  right until it commits (`Earned`).
* `CompletedIsDone` (`[]CompletedMeansDone`), assuming that no call creates a task
  and none PATCHes a workflow to COMPLETED (`EngineCompletes`). Both are
  accepted by the service and make the property false: a client may say COMPLETED
  itself, and a creation checked before the verdict may be flushed after it.
  `CompletionIsEarned`, which speaks of the moment of the verdict, is the form
  that needs no assumption.

Waiting (`EditProofs`, last section), for any numbers of workers and requests:

* `NobodyIsStuck` (`[]NobodyStuck`). The invariant (`WaitInv` and the lock
  invariants of the modules before) ties every lock to a transaction that is
  under way (`FinishingEnds`, `HoldingEnds`), so no lock is left behind, and says
  what such a process can still wait for. Someone with a key share or a task row,
  other than a removal, needs no lock any more (`FinishingWaitsNot`); a worker
  with the workflow row waits, if at all, for a removal of a task row
  (`HolderAwaits`); a removal that has its task rows waits for the holder of its
  workflow row (`RemovalAwaits`), and of several removals of a workflow one has
  all the rows (`OneRemoval`). So a set of processes that wait for each other
  contains workers each of which waits, through a removal, for another of them;
  the smallest such set is a circle (`CircleWithin`, by induction over finite
  sets, which is why `Workers` is assumed to be finite).
* `DeadlocksNeedAborts` (`DeadlocksLast`). Workers that wait for each other through
  removals do so after every step in which none of their jobs and none of the
  removals is aborted. Each worker keeps its workflow row, which nobody takes from
  it (`WriterChanges`, `WorkflowLockKept`); each removal keeps its task rows and
  cannot get the workflow row it needs (`TaskLockKept`, `RemovalStays`). So the
  circle is not a passing wait that `AbortWorker` cuts short: no failure of the
  model is one that PostgreSQL could have spared the job.

Results and wake-ups (`DispatchProofs`):

* `ResultsAreKept` (`ResultsSurvive`), for any constants. A result goes from the
  queue to a worker and, when its job breaks, back (`QueueOfBroken`), until its
  task has ended; the two exceptions are a job that has no attempt left or dies
  with its message, and a workflow that does not exist.
* `WakeupsAreKept` (`WakeupsSurvive`), assuming `Undisturbed`. `Attended` follows
  each ready task of a RUNNING workflow: an evaluation is due (`Due`: an advance
  message, or a worker before its evaluation whose session object, if it has one,
  says so) or was made and is not yet committed (`Seen`). That ends only by a job
  that fails or dies at its evaluation and is not repeated (`Forgotten`). The
  reasons: a task becomes ready only by the merge of a result of its workflow
  (`NewlyReady`), and the worker that merges evaluates next; an evaluation misses
  no ready task although it reads the status of its own task from the session
  (`EvaluationIsWhole`), and stays whole to its commit because a merge needs the
  lock (`WholeStep`); a resume publishes before it commits, but its message cannot
  be used up before, for it holds the row (`AnnouncedStep`); and a removal takes
  rows of its own workflow only (`OwnerInv`). Holds for any failures, deaths and
  retries, for either value of `ExpireOnCommit`, and with the reaper.
* `WakeupsArrive` (`[]NoLostWakeup`), assuming `Undisturbed` and `Unfailing`: where
  no job is forgotten (`NoneForgotten`), every ready task is attended to.

  Each part of `Undisturbed` is needed; without any one of them TLC finds a lost
  wake-up. No task is created or deleted on its own, because nobody evaluates
  after an edit; no call sets a task COMPLETED, or a workflow RUNNING by PATCH,
  because neither is followed by an evaluation; results name the workflow of their
  task; and edges stay within a workflow. These are the differences listed above,
  from the other side. `Unfailing` is the absence of failures and deaths
  (`MaxFaults`, `MaxCrashes`, the defects `session_factory` and `enum_labels`) and
  of removals, which may have a job aborted by their deadlock. The runs `Join`,
  `Pause` and `Progress` satisfy `Undisturbed`, and `Progress` also `Unfailing`.

The planner. `RowsAndEdges` (`[]TypeOK`) holds for all plans, those that use an id
twice included: every saved edge has a row at both ends. The other two assume
that the plans of the language model use each id once, which the schema asks for
but nothing checks (`schemas/planner.py:6`; the run `PlanIds` shows that the
assumption is needed):

* `GraphStaysAcyclic` (`[]SavedGraphIsAcyclic`). With unique ids the map from ids
  to rows is the inverse of the plan (`LastIsTheOne`), so the saved graph is the
  validated one (`SavedAcyclic`); rows that are new have no edge to rows that
  were there (`Extension`: the union of two acyclic graphs, with edges between
  them in one direction only, is acyclic).
* `WorkIsLeft` (`EvaluationsLeaveWork`). An evaluation that reaches no verdict
  finds a ready task if none has begun (`EvaluationFindsWork`): the PENDING tasks,
  taken as a set in an acyclic graph, have a member that waits for none of them,
  so what it waits for is COMPLETED. Rows that are inserted while nobody is at work
  stall the workflow only if it was idle and empty before (`ArrivalStalls`); every
  other step either leaves an evaluation due or a begun task, or is one of the
  clients' steps the property names (`StallStep`). It holds for any `WorkflowPatches`,
  `TaskPatches` and `MaxDue`.

The messages:

* `Typed` (`[]TypeOK`), `Retries` (`[]RetriesAgree`) and `Copied` (`[]SyncedOnce`). Committed and
  uncommitted rows together have a key at most once (`OneRowPerKey`): an INSERT
  looks at the former and waits for the latter. Every answer and every copy is of
  such a row or of one rolled back or deleted (`Told`, `Handed`).

Only model-checked: `SomebodyMoves`, which speaks of ENABLED (what it says of locks
is `NobodyStuck`, which is proved), and all liveness:
`ReadyIsDispatched`, `ResultIsApplied`, `FailureEndsWorkflow`, `ZombiesAreReaped`
and `StoredIsRemembered`. Both are out of the prover's reach. Every other
property of a passing run is a theorem, under the assumptions named above.

## Not modelled

Contents of instructions, outputs, errors and messages; timestamps; the
connection pool and its limit; queries that only read, the two lists of messages
included; the Redis broadcast beyond the fact of a dispatch; the agents, the
language model and the memory service, who are clients or answers that may come
or not; redelivery by the broker's visibility timeout while the first job still
runs (a message comes back only when its worker is dead; two jobs for one task,
of the agent's result and of the reaper's, are in `Progress`);
application set-up, health probes, configuration and logging, which keep
no state of the domain; and what is noted as such in `PROJECT.json`.

## Plan

1. **Done:** engine, requests with workflow removal, composition, claims; the
   abstract specification and the refinement; planner; messages; their proofs.
2. **Done:** proofs of every safety property that is checked.
3. **Done:** which results and wake-ups a failed job may lose, in place of the
   assumption that none fails.
4. **Dependencies across workflows** and **empty idempotency keys** as instances.
