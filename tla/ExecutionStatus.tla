-------------------------- MODULE ExecutionStatus --------------------------
(***************************************************************************)
(* The status column shared by workflows and tasks, and the two transition *)
(* tables the services check before they write it.  A table is the set of  *)
(* pairs <<from, to>> the code accepts; a status with no entry has none.   *)
(***************************************************************************)

Status == {"PENDING", "QUEUED", "RUNNING", "WAITING",
           "COMPLETED", "FAILED", "SKIPPED", "PAUSED"}

Terminal == {"COMPLETED", "FAILED"}

\* The statuses in which advance_workflow evaluates a workflow at all.
Active == {"PENDING", "RUNNING"}

TaskTransitions ==
    ({"PENDING"} \X {"QUEUED", "RUNNING", "FAILED"})
        \cup ({"QUEUED"} \X {"RUNNING", "FAILED", "PAUSED"})
        \cup ({"RUNNING"} \X {"COMPLETED", "FAILED", "PAUSED"})
        \cup ({"PAUSED"} \X {"QUEUED", "RUNNING", "FAILED"})

WorkflowTransitions ==
    ({"PENDING"} \X {"RUNNING", "FAILED"})
        \cup ({"RUNNING"} \X {"COMPLETED", "FAILED", "PAUSED"})
        \cup ({"PAUSED"} \X {"RUNNING", "FAILED"})

\* A row that is not there: its id was never inserted, or it was deleted.
NoRowStatus == {"UNCREATED", "DELETED"}
=============================================================================
