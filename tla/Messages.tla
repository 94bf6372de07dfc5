------------------------------ MODULE Messages ------------------------------
(***************************************************************************)
(* Messages of users and agents: POST /workflows/{id}/messages, retried by *)
(* agents under an idempotency key, and the copy of each message that a    *)
(* Celery job hands to the memory service.  Requests race with each other, *)
(* with the deletion of tasks and workflows, and with that job.            *)
(*                                                                         *)
(* A post stands for one HTTP request and for the row it may insert: every *)
(* request inserts at most once, under a fresh id.                         *)
(***************************************************************************)
EXTENDS Naturals, FiniteSets

CONSTANTS
    Posts,       \* the requests; those with one key are retries of each other
    Workflows,
    Tasks,
    Keys,        \* idempotency keys
    WorkflowOf,  \* task -> its workflow
    On,          \* post -> the workflow of its URL
    KeyOf,       \* post -> its key, or NoKey
    TaskOf,      \* post -> the task it names, or NoTask
    Synced,      \* posts whose role is "user" or "assistant"
    MaxFaults,   \* bound: failures of commits, jobs and the memory service
    Defects,     \* which of MessageDefects are present
    NoKey, NoTask, NoMessage

(***************************************************************************)
(* Places where the committed code raises whenever it is reached.          *)
(***************************************************************************)
MessageDefects ==
    {"agent_id",      \* message_service.py:58: the schema has no agent_id
     "log_kwargs",    \* message_service.py:39, 71, 74: arguments of log calls
     "session"}       \* message_service.py:70: the service has no session

ASSUME PostsAssumption ==
    /\ WorkflowOf \in [Tasks -> Workflows]
    /\ On \in [Posts -> Workflows]
    /\ KeyOf \in [Posts -> Keys \cup {NoKey}] /\ NoKey \notin Keys
    /\ TaskOf \in [Posts -> Tasks \cup {NoTask}] /\ NoTask \notin Tasks
    /\ Synced \subseteq Posts
    /\ NoMessage \notin Posts
    /\ MaxFaults \in Nat
    /\ Defects \subseteq MessageDefects

VARIABLES
    workflows,  \* the workflows that have a row
    tasks,      \* the tasks that have a row
    store,      \* the messages that have a committed row
    phase,      \* post -> the statement it executes next
    answer,     \* post -> the message its client was told of
    queue,      \* messages whose copy waits in the Celery queue
    memory,     \* message -> how often the memory service was given it
    sent,       \* history: messages that were ever put in the queue
    withdrawn,  \* history: inserts that were rolled back
    deleted,    \* history: messages deleted with their task or workflow
    lost,       \* history: copies whose job failed
    faults      \* failures so far

rowVars == <<workflows, tasks, store, deleted>>
copyVars == <<queue, memory, sent, lost>>
vars == <<rowVars, copyVars, phase, answer, withdrawn, faults>>

TypeOK ==
    /\ workflows \subseteq Workflows
    /\ tasks \subseteq Tasks
    /\ phase \in [Posts -> {"lookup", "insert", "reread", "inserted", "answered", "done"}]
    /\ answer \in [Posts -> Posts \cup {NoMessage}]
    /\ memory \in [Posts -> Nat]
    /\ faults \in 0 .. MaxFaults
    /\ queue \subseteq sent
    /\ sent \subseteq Synced
    /\ store \subseteq Posts /\ withdrawn \subseteq Posts /\ deleted \subseteq Posts
    /\ lost \subseteq sent

Init ==
    /\ workflows = Workflows
    /\ tasks = Tasks
    /\ store = {}
    /\ phase = [p \in Posts |-> "lookup"]
    /\ answer = [p \in Posts |-> NoMessage]
    /\ queue = {} /\ sent = {} /\ withdrawn = {} /\ deleted = {} /\ lost = {}
    /\ memory = [p \in Posts |-> 0]
    /\ faults = 0

-----------------------------------------------------------------------------
\* A column that is NULL matches in get_by_idempotency_key (IS NULL) and is
\* never equal to another for the unique constraint.
SameSlot(p, m) == On[p] = On[m] /\ KeyOf[p] = KeyOf[m]
Keyed(p) == KeyOf[p] # NoKey

Matches(p) == {m \in store : SameSlot(p, m)}

\* Rows that a transaction has inserted and not yet committed.
Uncommitted == {p \in Posts : phase[p] \in {"inserted", "answered"}}

\* What the foreign keys of p's row refer to.
ParentsExist(p) == On[p] \in workflows /\ TaskOf[p] \in tasks \cup {NoTask}

Valid(p) ==
    /\ ParentsExist(p)
    /\ TaskOf[p] # NoTask => WorkflowOf[TaskOf[p]] = On[p]

\* The unique constraint refuses the row of p.
Taken_Never(p) == FALSE
Taken(p) == Keyed(p) /\ Matches(p) # {}

\* The INSERT waits for a transaction that has inserted the same key.
MustWait_Never(p) == FALSE
MustWait(p) == Keyed(p) /\ \E q \in Uncommitted : SameSlot(p, q)

\* The copies a new message is queued for: those of users and assistants.
Copies_AnyRole(p) == {p}
Copies_OncePerKey(p) == IF \E q \in sent : SameSlot(p, q) THEN {} ELSE {p} \cap Synced
Copies(p) == {p} \cap Synced

Goto(p, s) == phase' = [phase EXCEPT ![p] = s]
Answer(p, m) == answer' = [answer EXCEPT ![p] = m]

Fault == faults < MaxFaults /\ faults' = faults + 1

-----------------------------------------------------------------------------
(* MessageService.create and the endpoint around it.                       *)

\* The key is known: the existing message is the answer.
Create_Hit(p) ==
    /\ phase[p] = "lookup"
    /\ "log_kwargs" \notin Defects
    /\ Keyed(p)
    /\ \E m \in Matches(p) : Answer(p, m)
    /\ Goto(p, "done")
    /\ UNCHANGED <<rowVars, copyVars, withdrawn, faults>>

Create_Validate(p) ==
    /\ phase[p] = "lookup"
    /\ ~Taken(p)
    /\ Valid(p)
    /\ "agent_id" \notin Defects
    /\ Goto(p, "insert")
    /\ UNCHANGED <<rowVars, copyVars, answer, withdrawn, faults>>

\* No such workflow or task, a task of another workflow, or a defect.
Create_Refuse(p) ==
    /\ phase[p] = "lookup"
    /\ IF Taken(p) THEN "log_kwargs" \in Defects
                   ELSE ~Valid(p) \/ "agent_id" \in Defects
    /\ Goto(p, "done")
    /\ UNCHANGED <<rowVars, copyVars, answer, withdrawn, faults>>

Create_Insert(p) ==
    /\ phase[p] = "insert"
    /\ ParentsExist(p)
    /\ ~MustWait(p)
    /\ ~Taken(p)
    /\ Goto(p, "inserted")
    /\ UNCHANGED <<rowVars, copyVars, answer, withdrawn, faults>>

\* IntegrityError: a retry was faster, or a row the message refers to is gone.
\* The transaction is rolled back.
Create_Conflict(p) ==
    /\ phase[p] = "insert"
    /\ ~MustWait(p)
    /\ Taken(p) \/ ~ParentsExist(p)
    /\ Goto(p, IF Defects \cap {"session", "log_kwargs"} = {} THEN "reread" ELSE "done")
    /\ UNCHANGED <<rowVars, copyVars, answer, withdrawn, faults>>

\* ... and the row with that key is read; none or several is an error.  For a
\* message without a key, any other such message of the workflow is found.
Create_Reread(p) ==
    /\ phase[p] = "reread"
    /\ Goto(p, "done")
    /\ IF Cardinality(Matches(p)) = 1 THEN \E m \in Matches(p) : Answer(p, m)
                                      ELSE UNCHANGED answer
    /\ UNCHANGED <<rowVars, copyVars, withdrawn, faults>>

\* The copy is queued and the response leaves, both before the commit: FastAPI
\* closes the session after it has sent the response.
Create_Answer(p) ==
    /\ phase[p] = "inserted"
    /\ "log_kwargs" \notin Defects
    /\ Answer(p, p)
    /\ queue' = queue \cup Copies(p)
    /\ sent' = sent \cup Copies(p)
    /\ Goto(p, "answered")
    /\ UNCHANGED <<rowVars, memory, lost, withdrawn, faults>>

Commit(p) ==
    /\ phase[p] = "answered"
    /\ store' = store \cup {p}
    /\ Goto(p, "done")
    /\ UNCHANGED <<workflows, tasks, deleted, copyVars, answer, withdrawn, faults>>

\* The handler raises after its INSERT, or the commit fails.
Rollback(p) ==
    /\ p \in Uncommitted
    /\ IF phase[p] = "inserted" /\ "log_kwargs" \in Defects THEN UNCHANGED faults ELSE Fault
    /\ withdrawn' = withdrawn \cup {p}
    /\ Goto(p, "done")
    /\ UNCHANGED <<rowVars, copyVars, answer>>

-----------------------------------------------------------------------------
(* The rows messages refer to.  The foreign keys lock the parents of an    *)
(* uncommitted message, so a deletion waits for its transaction.           *)

Cascade(gone) ==
    /\ Uncommitted \cap gone = {}
    /\ store' = store \ gone
    /\ deleted' = deleted \cup (store \cap gone)

DeleteTask(t) ==
    /\ t \in tasks
    /\ tasks' = tasks \ {t}
    /\ Cascade({p \in Posts : TaskOf[p] = t})
    /\ UNCHANGED <<workflows, copyVars, phase, answer, withdrawn, faults>>

RemoveWorkflow(wf) ==
    /\ wf \in workflows
    /\ workflows' = workflows \ {wf}
    /\ tasks' = {t \in tasks : WorkflowOf[t] # wf}
    /\ Cascade({p \in Posts : On[p] = wf})
    /\ UNCHANGED <<copyVars, phase, answer, withdrawn, faults>>

-----------------------------------------------------------------------------
(* sync_message_to_memory_service: one POST, acknowledged late.            *)

Sync(p) ==
    /\ p \in queue
    /\ memory' = [memory EXCEPT ![p] = @ + 1]
    /\ queue' = queue \ {p}
    /\ UNCHANGED <<rowVars, sent, lost, phase, answer, withdrawn, faults>>

\* The worker dies after the POST and before the acknowledgement.
Sync_Die(p) ==
    /\ p \in queue
    /\ Fault
    /\ memory' = [memory EXCEPT ![p] = @ + 1]
    /\ UNCHANGED <<rowVars, queue, sent, lost, phase, answer, withdrawn>>

\* The memory service refuses: the job fails, is acknowledged, and not retried.
Sync_Fail(p) ==
    /\ p \in queue
    /\ Fault
    /\ queue' = queue \ {p}
    /\ lost' = lost \cup {p}
    /\ UNCHANGED <<rowVars, memory, sent, phase, answer, withdrawn>>

-----------------------------------------------------------------------------
\* A step the request of p takes when nothing fails.
Create(p) ==
    \/ Create_Hit(p) \/ Create_Validate(p) \/ Create_Refuse(p)
    \/ Create_Insert(p) \/ Create_Conflict(p) \/ Create_Reread(p)
    \/ Create_Answer(p) \/ Commit(p)

Quiescent ==
    /\ \A p \in Posts : phase[p] = "done"
    /\ queue = {}
    /\ UNCHANGED vars

Next ==
    \/ \E p \in Posts : Create(p) \/ Rollback(p) \/ Sync(p) \/ Sync_Die(p) \/ Sync_Fail(p)
    \/ \E t \in Tasks : DeleteTask(t)
    \/ \E wf \in Workflows : RemoveWorkflow(wf)
    \/ Quiescent

Spec == Init /\ [][Next]_vars

\* A request that has begun is served to its end, and workers take jobs.
FairSpec ==
    /\ Spec
    /\ \A p \in Posts : WF_vars(phase[p] # "lookup" /\ Create(p)) /\ WF_vars(Sync(p))

-----------------------------------------------------------------------------
(* Properties.                                                             *)

Void == withdrawn \cup deleted

\* Two requests with one key are told of one message, whatever the order of
\* lookups, inserts, commits and answers (message_service.py:36-40, 66-72; the
\* model's column, models.py:130: "Prevents duplicate messages if an agent
\* retries its HTTP call"), unless the message of one was rolled back after
\* its answer or deleted.
RetriesAgree ==
    \A p, q \in Posts :
        /\ SameSlot(p, q) /\ Keyed(p)
        /\ {answer[p], answer[q]} \subseteq Posts \ Void
        => answer[p] = answer[q]

\* The memory service is sent a second copy under one key only after the row
\* of the first was rolled back or deleted: the copy is queued before the
\* commit (message_service.py:95-110), so the race must be decided before.
SyncedOnce ==
    \A p, q \in sent \ Void : SameSlot(p, q) /\ Keyed(p) => p = q

\* A message users can see reaches the memory service, unless the job that
\* brings it fails (workers/tasks.py:124-141: it "ensures the 'Brain' stays
\* updated with what the 'UI' is showing", without a retry).
StoredIsRemembered ==
    \A p \in Synced : p \in store ~> memory[p] > 0 \/ p \in lost
=============================================================================
