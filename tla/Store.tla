------------------------------- MODULE Store -------------------------------
(***************************************************************************)
(* What the processes of the service share: the PostgreSQL rows with their *)
(* locks, and the Celery queue in Redis.  Every other module reads and     *)
(* writes these variables; nothing else is shared between processes.       *)
(*                                                                         *)
(* Rows are committed values (READ COMMITTED: a plain SELECT never waits   *)
(* and never sees another transaction's flushed, uncommitted write).       *)
(***************************************************************************)
EXTENDS Dag, Naturals

CONSTANTS
    Workflows,          \* ids a request may name, with a row or not
    Tasks,              \* task ids, those of tasks not yet created included
    Names,              \* the keys of global_context
    InitialWorkflows,   \* workflows that have a row in the initial state
    InitialTasks,       \* tasks that have a row in the initial state
    WorkflowOf,         \* task -> its workflow_id column
    Upstream,           \* task -> the depends_on it is created with
    NameOf,             \* task -> its name column
    Workers,            \* Celery worker processes
    Requests,           \* the HTTP requests clients send, each at most once
    MaxRetries,         \* max_retries of the Celery tasks
    MaxFaults,          \* bound: jobs that fail for no reason in the model
    MaxCrashes,         \* bound: worker processes that die
    MaxReaps,           \* bound: messages the reaper publishes
    ExpireOnCommit,     \* expire_on_commit of the workers' sessions
    Defects,            \* which of DefectSites are present
    Nobody,             \* no lock holder
    NoTask              \* no value under a key of global_context

(***************************************************************************)
(* Places where the committed code raises whenever it is reached, before   *)
(* the logic around it can run.  Defects = DefectSites is the committed    *)
(* code; Defects = {} is the code with these five lines repaired, so that  *)
(* the logic behind them can be examined; a single site shows that site.   *)
(***************************************************************************)
DefectSites ==
    {"session_factory",   \* workers/tasks.py:50: a class used as a session
     "enum_labels",       \* alembic 0aef1bf0038a:40: no label QUEUED
     "log_kwargs",        \* services: keyword arguments to a stdlib logger
     "lazy_load",         \* workflow_service.py:142: lazy load of wf.tasks
     "reaper_column"}     \* workers/tasks.py:29: TaskModel.updated_at

ASSUME ConstantsAssumption ==
    /\ InitialWorkflows \subseteq Workflows
    /\ InitialTasks \subseteq Tasks
    /\ WorkflowOf \in [Tasks -> Workflows]
    /\ Upstream \in [Tasks -> SUBSET Tasks]
    /\ NameOf \in [Tasks -> Names]
    /\ \A t \in InitialTasks : /\ WorkflowOf[t] \in InitialWorkflows
                               /\ Upstream[t] \subseteq InitialTasks
    /\ Workers \cap Requests = {}
    /\ Nobody \notin Workers \cup Requests
    /\ NoTask \notin Tasks
    /\ MaxRetries \in Nat
    /\ MaxFaults \in Nat /\ MaxCrashes \in Nat /\ MaxReaps \in Nat
    /\ ExpireOnCommit \in BOOLEAN
    /\ Defects \subseteq DefectSites

VARIABLES
    wstatus,     \* workflows.status
    context,     \* workflows.global_context: key -> the task whose output it is
    status,      \* tasks.status
    wlock,       \* who holds FOR UPDATE or UPDATE on the workflow row
    keyShare,    \* who holds FOR KEY SHARE on the workflow row (foreign key)
    tlock,       \* who holds UPDATE or DELETE on the task row
    queue,       \* message -> copies in the Celery queue
    completed,   \* history: tasks that were COMPLETED at some moment
    recorded,    \* history: <<workflow, task>> whose output was merged
    published,   \* history: AGENT_TASK_DISPATCH events per task
    aborts       \* history: rollbacks after such an event, per task

rows == <<wstatus, context, status>>
locks == <<wlock, keyShare, tlock>>
history == <<completed, recorded, published, aborts>>
storeVars == <<rows, locks, queue, history>>

-----------------------------------------------------------------------------
(* Messages.  The queue promises no order: a retry waits for its countdown *)
(* and an unacknowledged message comes back after the visibility timeout.  *)

AdvanceMessage == [kind : {"advance"}, workflow : Workflows,
                   retries : 0 .. MaxRetries]

ResultMessage == [kind : {"result"}, workflow : Workflows, task : Tasks,
                  success : BOOLEAN, output : BOOLEAN,
                  retries : 0 .. MaxRetries]

Message == AdvanceMessage \cup ResultMessage

Advance(wf) == [kind |-> "advance", workflow |-> wf, retries |-> 0]

Result(wf, t, success, output) ==
    [kind |-> "result", workflow |-> wf, task |-> t,
     success |-> success, output |-> output, retries |-> 0]

Enqueued(m) == [queue EXCEPT ![m] = @ + 1]

-----------------------------------------------------------------------------
(* Rows and locks.                                                         *)

\* The labels of the enum type the migrations create; QUEUED, WAITING and
\* SKIPPED were added to the Python enum only.
Storable(s) ==
    "enum_labels" \in Defects
        => s \in {"PENDING", "RUNNING", "COMPLETED", "FAILED", "PAUSED"}

WorkflowExists(wf) == wstatus[wf] \notin NoRowStatus

TaskExists(t) == status[t] \notin NoRowStatus

TasksOf(wf) == {t \in Tasks : WorkflowOf[t] = wf /\ TaskExists(t)}

\* The rows of task_dependencies: they go with either end (ON DELETE CASCADE).
UpstreamRows == [t \in Tasks |-> {u \in Upstream[t] : TaskExists(u)}]

ForUpdateFree_Ignored(wf) == TRUE

\* FOR UPDATE waits for every other lock on the row.
ForUpdateFree(wf) == wlock[wf] = Nobody /\ keyShare[wf] = {}

WithoutWorkflowLock_Kept(p) == wlock

\* The locks a process p holds are released when its transaction ends.
WithoutWorkflowLock(p) ==
    [wf \in Workflows |-> IF wlock[wf] = p THEN Nobody ELSE wlock[wf]]

InitStore ==
    /\ wstatus = [wf \in Workflows |-> IF wf \in InitialWorkflows
                                       THEN "PENDING" ELSE "UNCREATED"]
    /\ context = [wf \in Workflows |-> [n \in Names |-> NoTask]]
    /\ status = [t \in Tasks |-> IF t \in InitialTasks
                                 THEN "PENDING" ELSE "UNCREATED"]
    /\ wlock = [wf \in Workflows |-> Nobody]
    /\ keyShare = [wf \in Workflows |-> {}]
    /\ tlock = [t \in Tasks |-> Nobody]
    /\ queue = [m \in Message |-> 0]
    /\ completed = {}
    /\ recorded = {}
    /\ published = [t \in Tasks |-> 0]
    /\ aborts = [t \in Tasks |-> 0]

StoreTypeOK ==
    /\ wstatus \in [Workflows -> Status \cup NoRowStatus]
    /\ context \in [Workflows -> [Names -> Tasks \cup {NoTask}]]
    /\ status \in [Tasks -> Status \cup NoRowStatus]
    /\ wlock \in [Workflows -> Workers \cup Requests \cup {Nobody}]
    /\ keyShare \in [Workflows -> SUBSET Requests]
    /\ tlock \in [Tasks -> Requests \cup {Nobody}]
    /\ queue \in [Message -> Nat]
    /\ completed \subseteq Tasks
    /\ recorded \subseteq Workflows \X Tasks
    /\ published \in [Tasks -> Nat]
    /\ aborts \in [Tasks -> Nat]
=============================================================================
