--------------------------- MODULE MessagesProofs ---------------------------
(***************************************************************************)
(* Retries of a post agree, and their message is handed to the memory once *)
(* per key, for any posts, keys, tasks, workflows and failures.            *)
(***************************************************************************)
EXTENDS Messages, TLAPS

\* Rows that exist for some transaction.
Rows == store \cup Uncommitted

\* The constraint holds of committed and uncommitted rows together, for an
\* INSERT looks at the former and waits for the latter.
OneRowPerKey == \A p, q \in Rows : SameSlot(p, q) /\ Keyed(p) => p = q

\* A message of the past or a committed one belongs to a request that is done.
Settled == \A p \in store \cup Void : phase[p] = "done"

\* Every answer names a message that was inserted under the request's key.
Told == \A p \in Posts : answer[p] # NoMessage =>
            SameSlot(p, answer[p]) /\ answer[p] \in Rows \cup Void

\* Only inserted messages were handed over.
Handed == sent \subseteq Rows \cup Void

Inv == TypeOK /\ OneRowPerKey /\ Settled /\ Told /\ Handed

\* The initial state has no messages.
LEMMA InvInit == Init => Inv
BY PostsAssumption
DEF Init, Inv, TypeOK, OneRowPerKey, Settled, Told, Handed, Rows, Uncommitted, Void

\* Every step keeps the types.
LEMMA TypeStep == TypeOK /\ [Next]_vars => TypeOK'
<1> SUFFICES ASSUME TypeOK, [Next]_vars PROVE TypeOK'
    OBVIOUS
<1> USE PostsAssumption DEF TypeOK, rowVars, copyVars, Goto, Answer
<1>1. ASSUME NEW p \in Posts, Create(p) PROVE TypeOK'
    BY <1>1 DEF Create, Create_Hit, Create_Validate, Create_Refuse, Create_Insert,
        Create_Conflict, Create_Reread, Create_Answer, Commit, Matches, Copies
<1>2. ASSUME NEW p \in Posts, Rollback(p) PROVE TypeOK'
    BY <1>2 DEF Rollback, Fault
<1>3. ASSUME NEW p \in Posts, Sync(p) \/ Sync_Die(p) \/ Sync_Fail(p) PROVE TypeOK'
    BY <1>3 DEF Sync, Sync_Die, Sync_Fail, Fault
<1>4. ASSUME NEW t \in Tasks, DeleteTask(t) PROVE TypeOK'
    BY <1>4 DEF DeleteTask, Cascade
<1>5. ASSUME NEW wf \in Workflows, RemoveWorkflow(wf) PROVE TypeOK'
    BY <1>5 DEF RemoveWorkflow, Cascade
<1>6. CASE UNCHANGED vars
    BY <1>6 DEF vars
<1> QED
    BY <1>1, <1>2, <1>3, <1>4, <1>5, <1>6 DEF Next, Quiescent

\* Every step keeps the rest.
LEMMA InvStep == Inv /\ [Next]_vars => Inv'
<1> SUFFICES ASSUME Inv, [Next]_vars PROVE Inv'
    OBVIOUS
<1>1. TypeOK'
    BY TypeStep DEF Inv
<1> USE PostsAssumption
    DEF Inv, TypeOK, OneRowPerKey, Settled, Told, Handed, Rows, Uncommitted, Void,
        SameSlot, Keyed, rowVars, copyVars, Goto, Answer
<1>2. ASSUME NEW p \in Posts, Create_Hit(p) \/ Create_Reread(p) PROVE Inv'
    BY <1>1, <1>2 DEF Create_Hit, Create_Reread, Matches
<1>3. ASSUME NEW p \in Posts, Create_Validate(p) \/ Create_Refuse(p) \/ Create_Conflict(p)
      PROVE  Inv'
    BY <1>1, <1>3 DEF Create_Validate, Create_Refuse, Create_Conflict
<1>4. ASSUME NEW p \in Posts, Create_Insert(p) PROVE Inv'
  <2>1. \A q \in Rows : ~(SameSlot(p, q) /\ Keyed(p))
    BY <1>4 DEF Create_Insert, Taken, MustWait, Matches
  <2>2. Rows' = Rows \cup {p} /\ UNCHANGED <<answer, sent, withdrawn, deleted, store>>
    BY <1>4 DEF Create_Insert
  <2> QED
    BY <1>1, <1>4, <2>1, <2>2 DEF Create_Insert
<1>5. ASSUME NEW p \in Posts, Create_Answer(p) PROVE Inv'
    BY <1>1, <1>5 DEF Create_Answer, Copies
<1>6. ASSUME NEW p \in Posts, Commit(p) PROVE Inv'
    BY <1>1, <1>6 DEF Commit
<1>7. ASSUME NEW p \in Posts, Rollback(p) PROVE Inv'
    BY <1>1, <1>7 DEF Rollback
<1>8. ASSUME NEW p \in Posts, Sync(p) \/ Sync_Die(p) \/ Sync_Fail(p) PROVE Inv'
    BY <1>1, <1>8 DEF Sync, Sync_Die, Sync_Fail
<1>9. ASSUME NEW gone, Cascade(gone), UNCHANGED <<phase, answer, sent, withdrawn>>
      PROVE  Inv'
    BY <1>1, <1>9 DEF Cascade
<1>10. CASE UNCHANGED vars
    BY <1>1, <1>10 DEF vars
<1> QED
    BY <1>2, <1>3, <1>4, <1>5, <1>6, <1>7, <1>8, <1>9, <1>10
    DEF Next, Create, DeleteTask, RemoveWorkflow, Quiescent

\* The invariant holds throughout.
LEMMA Invariance == Spec => []Inv
BY InvInit, InvStep, PTL DEF Spec

\* Every variable keeps its type: only messages of users and assistants are
\* queued for the memory service, and only queued ones are lost.
THEOREM Typed == Spec => []TypeOK
<1>1. Inv => TypeOK
    BY DEF Inv
<1> QED
    BY <1>1, Invariance, PTL

\* Retries under one key are told of one message, whatever the order of their
\* lookups, INSERTs, commits and answers, unless that message was rolled back
\* or deleted.
THEOREM Retries == Spec => []RetriesAgree
<1>1. Inv => RetriesAgree
    BY PostsAssumption DEF Inv, OneRowPerKey, Told, RetriesAgree, SameSlot, Keyed
<1> QED
    BY <1>1, Invariance, PTL

\* The memory service is handed one copy per key, unless a row was rolled back
\* or deleted.
THEOREM Copied == Spec => []SyncedOnce
<1>1. Inv => SyncedOnce
    BY DEF Inv, OneRowPerKey, Handed, SyncedOnce
<1> QED
    BY <1>1, Invariance, PTL
=============================================================================
