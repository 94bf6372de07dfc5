------------------------------- MODULE Engine -------------------------------
(***************************************************************************)
(* The Celery workers and the OrchestrationEngine they run.  Each worker   *)
(* takes one message at a time; a job is a sequence of database statements *)
(* and every statement another process can observe, or be delayed by, is a *)
(* step of its own.                                                        *)
(*                                                                         *)
(*   result message:   fetch -> lock -> merge -> advance -> ...            *)
(*   advance message:  advance -> [publish ->] commit -> ack               *)
(*                                                                         *)
(* pc names the statement a worker executes next.                          *)
(*                                                                         *)
(* An operator named X_Y, placed before X, is X with a plausible mistake Y *)
(* in it; no action uses it.  The properties are tested against them.      *)
(***************************************************************************)
EXTENDS Store

CONSTANTS NoJob, NoRow

VARIABLES
    pc,       \* worker -> next statement
    job,      \* worker -> the message it is processing
    row,      \* worker -> the workflow object in its session, if loaded
    verdict,  \* worker -> the workflow status its transaction will write
    batch,    \* worker -> tasks it marked QUEUED in its session
    unsent,   \* worker -> those of batch it has not dispatched yet
    faults,   \* jobs failed so far for no reason in the model
    crashes,  \* workers dead so far
    reaps     \* messages published by the reaper so far

workerVars == <<pc, job, row, verdict, batch, unsent>>
counters == <<faults, crashes, reaps>>
engineVars == <<workerVars, counters>>

PCs == {"idle", "fetch", "lock", "merge", "advance", "publish", "commit", "ack"}

Row == [status : Status, context : [Names -> Tasks \cup {NoTask}]]

ASSUME EngineAssumption == NoJob \notin Message /\ NoRow \notin Row

InitEngine ==
    /\ pc = [w \in Workers |-> "idle"]
    /\ job = [w \in Workers |-> NoJob]
    /\ row = [w \in Workers |-> NoRow]
    /\ verdict = [w \in Workers |-> "NONE"]
    /\ batch = [w \in Workers |-> {}]
    /\ unsent = [w \in Workers |-> {}]
    /\ faults = 0
    /\ crashes = 0
    /\ reaps = 0

EngineTypeOK ==
    /\ pc \in [Workers -> PCs]
    /\ job \in [Workers -> Message \cup {NoJob}]
    /\ row \in [Workers -> Row \cup {NoRow}]
    /\ verdict \in [Workers -> Status \cup {"NONE"}]
    /\ batch \in [Workers -> SUBSET Tasks]
    /\ unsent \in [Workers -> SUBSET Tasks]
    /\ faults \in Nat
    /\ crashes \in Nat
    /\ reaps \in Nat

-----------------------------------------------------------------------------
(* What a worker's session sees.  A SELECT gives a row that is not yet in  *)
(* the session its current value, and leaves an object that is as it is.   *)

ResultStatus_Label(m) == IF m.success THEN "SUCCESS" ELSE "ERROR"

ResultStatus(m) == IF m.success THEN "COMPLETED" ELSE "FAILED"

RowSeen(w) ==
    IF row[w] = NoRow
    THEN [status |-> wstatus[job[w].workflow],
          context |-> context[job[w].workflow]]
    ELSE row[w]

StatusSeen_BeforeResult(w) ==
    IF job[w].kind = "result" THEN [status EXCEPT ![job[w].task] = "RUNNING"] ELSE status

StatusSeen(w) ==
    [t \in Tasks |-> IF row[w] # NoRow /\ t = job[w].task
                     THEN ResultStatus(job[w])
                     ELSE status[t]]

SessionOpens == "session_factory" \notin Defects

\* Celery delivers a message to one worker; acks_late keeps it with the worker.
Receive(w) ==
    /\ pc[w] = "idle"
    /\ \E m \in Message :
          /\ queue[m] > 0
          /\ queue' = [queue EXCEPT ![m] = @ - 1]
          /\ job' = [job EXCEPT ![w] = m]
          /\ pc' = [pc EXCEPT ![w] = IF m.kind = "result" THEN "fetch"
                                                          ELSE "advance"]
    /\ UNCHANGED <<rows, locks, history, row, verdict, batch, unsent, counters>>

\* The job returns: its session closes, rolling back and releasing its lock.
Return(w) ==
    /\ pc' = [pc EXCEPT ![w] = "ack"]
    /\ row' = [row EXCEPT ![w] = NoRow]

-----------------------------------------------------------------------------
(* handle_task_result                                                      *)

Ended_UnlessRunning(t) == status[t] # "RUNNING"

\* The idempotency check: nothing to do for this task any more.
Ended(t) == ~TaskExists(t) \/ status[t] \in Terminal

HandleTaskResult_Fetch(w) ==
    /\ pc[w] = "fetch"
    /\ SessionOpens
    /\ \/ /\ Ended(job[w].task)
          /\ Return(w)
       \/ /\ ~Ended(job[w].task)
          /\ pc' = [pc EXCEPT ![w] = "lock"]
          /\ row' = row
    /\ UNCHANGED <<storeVars, job, verdict, batch, unsent, counters>>

HandleTaskResult_Lock(w) ==
    LET wf == job[w].workflow
    IN  /\ pc[w] = "lock"
        /\ \/ /\ ~WorkflowExists(wf)
              /\ Return(w)
              /\ wlock' = wlock
           \/ /\ WorkflowExists(wf)
              /\ ForUpdateFree(wf)
              /\ wlock' = [wlock EXCEPT ![wf] = w]
              /\ row' = [row EXCEPT ![w] = RowSeen(w)]
              /\ pc' = [pc EXCEPT ![w] = "merge"]
        /\ UNCHANGED <<rows, keyShare, tlock, queue, history,
                       job, verdict, batch, unsent, counters>>

MergedContext_Alone(w) ==
    [n \in Names |-> IF n = NameOf[job[w].task] THEN job[w].task ELSE NoTask]

\* current_context[task.name] = output_data, on a copy of the row's context.
MergedContext(w) == [row[w].context EXCEPT ![NameOf[job[w].task]] = job[w].task]

\* The UPDATE of the task row has no status in its WHERE clause: it replaces
\* whatever was committed since the fetch, once it can lock the row.
HandleTaskResult_Commit(w) ==
    LET wf == job[w].workflow
        t == job[w].task
        keeps == job[w].success /\ job[w].output
    IN  /\ pc[w] = "merge"
        /\ status[t] # "DELETED"
        /\ tlock[t] = Nobody
        /\ status' = [status EXCEPT ![t] = ResultStatus(job[w])]
        /\ context' = IF keeps THEN [context EXCEPT ![wf] = MergedContext(w)]
                                ELSE context
        /\ completed' = IF job[w].success THEN completed \cup {t} ELSE completed
        /\ recorded' = IF keeps THEN recorded \cup {<<wf, t>>} ELSE recorded
        /\ row' = [row EXCEPT ![w] =
              IF ExpireOnCommit THEN NoRow
              ELSE IF keeps THEN [@ EXCEPT !.context = MergedContext(w)]
              ELSE @]
        /\ wlock' = WithoutWorkflowLock(w)
        /\ pc' = [pc EXCEPT ![w] = "advance"]
        /\ UNCHANGED <<wstatus, keyShare, tlock, queue, published, aborts,
                       job, verdict, batch, unsent, counters>>

-----------------------------------------------------------------------------
(* advance_workflow.  Locking the workflow row and reading its task graph  *)
(* are one step: a commit between the two could as well come before both.  *)

AdvanceWorkflow_Skip(w) ==
    LET wf == job[w].workflow
    IN  /\ pc[w] = "advance"
        /\ SessionOpens
        /\ WorkflowExists(wf) => /\ ForUpdateFree(wf)
                                 /\ RowSeen(w).status \notin Active
        /\ Return(w)
        /\ UNCHANGED <<storeVars, job, verdict, batch, unsent, counters>>

AdvanceWorkflow_Evaluate(w) ==
    LET wf == job[w].workflow
        seen == StatusSeen(w)
        outcome == Verdict(TasksOf(wf), seen)
        ready == IF outcome = "NONE" THEN Ready(TasksOf(wf), seen, UpstreamRows)
                                     ELSE {}
    IN  /\ pc[w] = "advance"
        /\ SessionOpens
        /\ WorkflowExists(wf)
        /\ ForUpdateFree(wf)
        /\ RowSeen(w).status \in Active
        /\ wlock' = [wlock EXCEPT ![wf] = w]
        /\ row' = [row EXCEPT ![w] = RowSeen(w)]
        /\ verdict' = [verdict EXCEPT ![w] =
              IF RowSeen(w).status = "PENDING" /\ ready # {} THEN "RUNNING"
                                                             ELSE outcome]
        /\ batch' = [batch EXCEPT ![w] = ready]
        /\ unsent' = [unsent EXCEPT ![w] = ready]
        /\ pc' = [pc EXCEPT ![w] = IF ready = {} THEN "commit" ELSE "publish"]
        /\ UNCHANGED <<rows, keyShare, tlock, queue, history, job, counters>>

\* The dispatch leaves before the commit.  It is a Redis broadcast that may
\* reach no agent: agents appear only as clients that may call back or not.
AdvanceWorkflow_Publish(w) ==
    /\ pc[w] = "publish"
    /\ \E t \in unsent[w] :
          /\ published' = [published EXCEPT ![t] = @ + 1]
          /\ unsent' = [unsent EXCEPT ![w] = @ \ {t}]
          /\ pc' = [pc EXCEPT ![w] = IF unsent[w] = {t} THEN "commit" ELSE @]
    /\ UNCHANGED <<rows, locks, queue, completed, recorded, aborts,
                   job, row, verdict, batch, counters>>

AdvanceWorkflow_Commit(w) ==
    /\ pc[w] = "commit"
    /\ batch[w] # {} => Storable("QUEUED")
    /\ \A t \in batch[w] : status[t] # "DELETED" /\ tlock[t] = Nobody
    /\ status' = [t \in Tasks |-> IF t \in batch[w] THEN "QUEUED" ELSE status[t]]
    /\ wstatus' = IF verdict[w] = "NONE" THEN wstatus
                  ELSE [wstatus EXCEPT ![job[w].workflow] = verdict[w]]
    /\ wlock' = WithoutWorkflowLock(w)
    /\ verdict' = [verdict EXCEPT ![w] = "NONE"]
    /\ batch' = [batch EXCEPT ![w] = {}]
    /\ Return(w)
    /\ UNCHANGED <<context, keyShare, tlock, queue, history,
                   job, unsent, counters>>

-----------------------------------------------------------------------------
(* How a job ends: acknowledged, failed with a retry, or with its worker.  *)

Ack(w) ==
    /\ pc[w] = "ack"
    /\ pc' = [pc EXCEPT ![w] = "idle"]
    /\ job' = [job EXCEPT ![w] = NoJob]
    /\ UNCHANGED <<storeVars, row, verdict, batch, unsent, counters>>

\* The transaction rolls back.  What was published stays published.
Abandon(w) ==
    /\ wlock' = WithoutWorkflowLock(w)
    /\ aborts' = [t \in Tasks |-> IF t \in batch[w] \ unsent[w] THEN aborts[t] + 1
                                                                ELSE aborts[t]]
    /\ pc' = [pc EXCEPT ![w] = "idle"]
    /\ job' = [job EXCEPT ![w] = NoJob]
    /\ row' = [row EXCEPT ![w] = NoRow]
    /\ verdict' = [verdict EXCEPT ![w] = "NONE"]
    /\ batch' = [batch EXCEPT ![w] = {}]
    /\ unsent' = [unsent EXCEPT ![w] = {}]
    /\ UNCHANGED <<rows, keyShare, tlock, completed, recorded, published, reaps>>

\* The statement cannot succeed: the code raises (see DefectSites), or an
\* UPDATE by primary key finds no row (StaleDataError).
MustFail(w) ==
    \/ pc[w] \in {"fetch", "advance"} /\ ~SessionOpens
    \/ pc[w] = "merge" /\ status[job[w].task] = "DELETED"
    \/ /\ pc[w] = "commit"
       /\ \/ \E t \in batch[w] : status[t] = "DELETED"
          \/ batch[w] # {} /\ ~Storable("QUEUED")

\* Any exception: the wrapper calls self.retry, which sends the message again
\* or, after max_retries, gives it up.
Retry(w) ==
    /\ queue' = IF job[w].retries = MaxRetries THEN queue
                ELSE Enqueued([job[w] EXCEPT !.retries = @ + 1])
    /\ crashes' = crashes
    /\ Abandon(w)

Fail(w) ==
    /\ pc[w] \notin {"idle", "ack"}
    /\ IF MustFail(w) THEN faults' = faults
       ELSE faults < MaxFaults /\ faults' = faults + 1
    /\ Retry(w)

\* The task rows a worker writes next, under the lock on the workflow row.
AboutToWrite(w) == CASE pc[w] = "merge" -> {job[w].task}
                     [] pc[w] = "commit" -> batch[w]
                     [] OTHER -> {}

\* The worker process dies.  Late acknowledgement brings the message back
\* only if the broker sees the delivery unacknowledged: either may happen.
Crash(w) ==
    /\ pc[w] # "idle"
    /\ crashes < MaxCrashes
    /\ crashes' = crashes + 1
    /\ faults' = faults
    /\ queue' \in {queue, Enqueued(job[w])}
    /\ Abandon(w)

-----------------------------------------------------------------------------
IsZombie_Queued(t) == status[t] = "QUEUED"

\* Any RUNNING task may have been so for 20 minutes.
IsZombie(t) == status[t] = "RUNNING"

\* async_reap_zombies, for one task.
ReapZombie ==
    /\ {"session_factory", "reaper_column"} \cap Defects = {}
    /\ reaps < MaxReaps
    /\ reaps' = reaps + 1
    /\ \E t \in Tasks :
          /\ IsZombie(t)
          /\ queue' = Enqueued(Result(WorkflowOf[t], t, FALSE, FALSE))
    /\ UNCHANGED <<rows, locks, history, workerVars, faults, crashes>>

HandleTaskResult(w) ==
    HandleTaskResult_Fetch(w) \/ HandleTaskResult_Lock(w) \/ HandleTaskResult_Commit(w)

AdvanceWorkflow(w) ==
    \/ AdvanceWorkflow_Skip(w) \/ AdvanceWorkflow_Evaluate(w)
    \/ AdvanceWorkflow_Publish(w) \/ AdvanceWorkflow_Commit(w)

NextEngine ==
    \/ \E w \in Workers : \/ Receive(w) \/ HandleTaskResult(w)
                          \/ AdvanceWorkflow(w) \/ Ack(w)
                          \/ Fail(w) \/ Crash(w)
    \/ ReapZombie
=============================================================================
