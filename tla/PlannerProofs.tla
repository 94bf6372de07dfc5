--------------------------- MODULE PlannerProofs ----------------------------
(***************************************************************************)
(* The graph in the database stays acyclic, and no evaluation leaves a     *)
(* RUNNING workflow stalled, for any planners, clients and plans whose ids *)
(* are unique.                                                             *)
(***************************************************************************)
EXTENDS Planner, TLAPS

-----------------------------------------------------------------------------
(* Plans.                                                                  *)

\* With unique ids the map from ids to rows is the inverse of the plan.
LEMMA LastIsTheOne ==
    ASSUME NEW plan \in Plan, UniqueIds(plan), NEW i \in DOMAIN plan
    PROVE  Last(plan, plan[i].id) = i
<1>1. \A j \in DOMAIN plan : plan[j].id = plan[i].id => j = i
    BY DEF UniqueIds
<1>2. i \in Nat
    BY DEF Plan
<1> QED
    BY <1>1, <1>2 DEF Last

\* A valid plan with unique ids is saved as an acyclic graph: a set of rows
\* that wait for each other would be a set of ids that do.
LEMMA SavedAcyclic ==
    ASSUME NEW plan \in Plan, UniqueIds(plan), Validated(plan)
    PROVE  Acyclic(DOMAIN plan, SavedEdges(plan))
<1> SUFFICES ASSUME NEW S \in SUBSET DOMAIN plan, S # {}
             PROVE  \E n \in S : \A m \in S : <<m, n>> \notin SavedEdges(plan)
    BY DEF Acyclic
<1> DEFINE X == {plan[i].id : i \in S}
<1>1. X \in SUBSET Ids(plan) /\ X # {}
    BY DEF Ids
<1>2. PICK x \in X : \A y \in X : <<y, x>> \notin ValidatedEdges(plan)
    BY <1>1 DEF Validated, Acyclic
<1>3. PICK n \in S : x = plan[n].id
    OBVIOUS
<1>4. ASSUME NEW m \in S, <<m, n>> \in SavedEdges(plan) PROVE FALSE
  <2>1. PICK k \in DOMAIN plan : \E d \in plan[k].deps :
            m = Last(plan, d) /\ n = Last(plan, plan[k].id)
    BY <1>4 DEF SavedEdges
  <2>2. PICK d \in plan[k].deps : m = Last(plan, d) /\ n = Last(plan, plan[k].id)
    BY <2>1
  <2>3. k = n
    BY <2>2, LastIsTheOne
  <2>4. PICK j \in DOMAIN plan : plan[j].id = d
    BY <2>2 DEF Validated, KnownDeps, Ids
  <2>5. d = plan[m].id
    BY <2>2, <2>4, LastIsTheOne
  <2>6. Last(plan, x) = n
    BY <1>3, LastIsTheOne
  <2>7. <<d, x>> \in ValidatedEdges(plan)
    BY <1>1, <2>2, <2>3, <2>5, <2>6 DEF ValidatedEdges
  <2> QED
    BY <1>2, <2>5, <2>7
<1> QED
    BY <1>4

-----------------------------------------------------------------------------
(* Graphs.                                                                 *)

\* New nodes may wait for old ones: a graph to which they are added is acyclic
\* when both parts are.
LEMMA Extension ==
    ASSUME NEW N, NEW E, E \subseteq N \X N, Acyclic(N, E),
           NEW M, NEW F, M \cap N = {}, F \subseteq (N \cup M) \X M, Acyclic(M, F)
    PROVE  Acyclic(N \cup M, E \cup F)
<1> SUFFICES ASSUME NEW S \in SUBSET (N \cup M), S # {}
             PROVE  \E n \in S : \A m \in S : <<m, n>> \notin E \cup F
    BY DEF Acyclic
<1>1. CASE S \cap N # {}
  <2>1. PICK n \in S \cap N : \A m \in S \cap N : <<m, n>> \notin E
    BY <1>1 DEF Acyclic
  <2>2. \A m \in S : <<m, n>> \notin E \cup F
    BY <2>1
  <2> QED
    BY <2>1, <2>2
<1>2. CASE S \cap N = {}
  <2>1. S \in SUBSET M
    BY <1>2
  <2>2. PICK n \in S : \A m \in S : <<m, n>> \notin F
    BY <2>1 DEF Acyclic
  <2>3. \A m \in S : <<m, n>> \notin E \cup F
    BY <1>2, <2>2
  <2> QED
    BY <2>2, <2>3
<1> QED
    BY <1>1, <1>2

-----------------------------------------------------------------------------
(* Types.                                                                  *)

\* Edges have rows at both ends after an insertion, whatever the plan: rows are
\* only added, and the new edges are between the new rows and those.
LEMMA EdgesHaveRows ==
    ASSUME TypeOK, NEW M, NEW F, M \subseteq Row, F \subseteq (RowsThere \cup M) \X M,
           status' = [t \in Row |-> IF t \in M THEN "PENDING" ELSE status[t]],
           edges' = edges \cup F
    PROVE  edges' \subseteq RowsThere' \X RowsThere'
<1>1. RowsThere' = RowsThere \cup M
    BY DEF RowsThere, NoRowStatus
<1> QED
    BY <1>1 DEF TypeOK

\* Every step keeps the types.
LEMMA TypeStep == TypeOK /\ [Next]_vars => TypeOK'
<1> SUFFICES ASSUME TypeOK, [Next]_vars PROVE TypeOK'
    OBVIOUS
<1> USE PlannerAssumption DEF TypeOK, NoRowStatus
<1>1. ASSUME NEW p \in Planners,
             \/ Generate_Check(p) \/ Generate_Refuse(p)
             \/ Generate_Fail(p) \/ Generate_Direct(p)
      PROVE  TypeOK'
    BY <1>1 DEF Generate_Check, Generate_Refuse, Generate_Fail, Generate_Direct,
        Goto, RowsThere, Status
<1>2. ASSUME NEW p \in Planners, Generate_Persist(p) PROVE TypeOK'
  <2>1. PICK plan \in Plans :
            /\ status' = [t \in Row |-> IF t[1] = p /\ t[2] \in DOMAIN plan
                                        THEN "PENDING" ELSE status[t]]
            /\ edges' = edges \cup {<<<<p, e[1]>>, <<p, e[2]>>>> : e \in SavedEdges(plan)}
    BY <1>2 DEF Generate_Persist
  <2>2. DOMAIN plan \subseteq 1 .. MaxDefs
    <3>1. plan \in Plan /\ Len(plan) <= MaxDefs
      OBVIOUS
    <3>2. DOMAIN plan = 1 .. Len(plan) /\ Len(plan) \in Nat
      BY <3>1 DEF Plan
    <3> QED
      BY <3>1, <3>2
  <2> DEFINE M == {<<p, i>> : i \in DOMAIN plan}
             F == {<<<<p, e[1]>>, <<p, e[2]>>>> : e \in SavedEdges(plan)}
  <2>3. M \subseteq Row /\ F \subseteq (RowsThere \cup M) \X M
    BY <2>2 DEF Row, SavedEdges
  <2>4. status' = [t \in Row |-> IF t \in M THEN "PENDING" ELSE status[t]]
    BY <2>1, <2>3 DEF Row
  <2>5. edges' \subseteq RowsThere' \X RowsThere'
    <3>1. edges' = edges \cup F
      BY <2>1
    <3> HIDE DEF M, F
    <3> QED
      BY <2>3, <2>4, <3>1, EdgesHaveRows
  <2> QED
    BY <1>2, <2>4, <2>5 DEF Generate_Persist, Goto
<1>3. ASSUME NEW c \in Clients, CreateTask(c) PROVE TypeOK'
  <2> DEFINE new == <<c, 1>>
  <2>1. PICK deps \in SUBSET RowsThere :
            /\ status' = [status EXCEPT ![new] = "PENDING"]
            /\ edges' = edges \cup {<<u, new>> : u \in deps}
    BY <1>3 DEF CreateTask
  <2> DEFINE M == {new}
             F == {<<u, new>> : u \in deps}
  <2>2. M \subseteq Row /\ F \subseteq (RowsThere \cup M) \X M
    BY DEF Row
  <2>3. status' = [t \in Row |-> IF t \in M THEN "PENDING" ELSE status[t]]
    BY <2>1, <2>2
  <2>4. edges' \subseteq RowsThere' \X RowsThere'
    <3>1. edges' = edges \cup F
      BY <2>1
    <3> HIDE DEF M, F
    <3> QED
      BY <2>2, <2>3, <3>1, EdgesHaveRows
  <2> QED
    BY <1>3, <2>3, <2>4 DEF CreateTask, Goto
<1>4. CASE StartWorkflow \/ PauseWorkflow \/ ResumeWorkflow
    BY <1>4 DEF StartWorkflow, PauseWorkflow, ResumeWorkflow, Announce, RowsThere, Status
<1>5. ASSUME NEW s \in WorkflowPatches, UpdateWorkflow(s) PROVE TypeOK'
    BY <1>5 DEF UpdateWorkflow, RowsThere
<1>6. CASE RemoveWorkflow
    BY <1>6 DEF RemoveWorkflow
<1>7. ASSUME NEW t \in Row, NEW s \in {"COMPLETED", "FAILED"}, Finish(t, s) PROVE TypeOK'
  <2>1. RowsThere \subseteq RowsThere'
    BY <1>7 DEF Finish, RowsThere
  <2> QED
    BY <1>7, <2>1 DEF Finish, Announce, Terminal
<1>8. ASSUME NEW t \in Row, NEW s \in TaskPatches, UpdateStatus(t, s) PROVE TypeOK'
  <2>1. s \in Begun \cup Terminal
    BY <1>8 DEF UpdateStatus, TaskTransitions, Begun, Terminal
  <2>2. RowsThere \subseteq RowsThere'
    BY <1>8, <2>1 DEF UpdateStatus, RowsThere, Begun, Terminal
  <2> QED
    BY <1>8, <2>1, <2>2 DEF UpdateStatus
<1>9. ASSUME NEW t \in Row, DeleteTask(t) PROVE TypeOK'
  <2>1. RowsThere \ {t} \subseteq RowsThere'
    BY <1>9 DEF DeleteTask, RowsThere
  <2>2. edges' \subseteq (RowsThere \ {t}) \X (RowsThere \ {t})
    BY <1>9 DEF DeleteTask
  <2> QED
    BY <1>9, <2>1, <2>2 DEF DeleteTask
<1>10. CASE Evaluate
  <2>1. /\ status' \in [Row -> {"PENDING"} \cup Begun \cup Terminal \cup NoRowStatus]
        /\ \A t \in Row : status'[t] = status[t] \/ status'[t] = "QUEUED"
    BY <1>10 DEF Evaluate, Begun
  <2>2. wstatus' \in {wstatus, "COMPLETED", "FAILED", "RUNNING"}
    BY <1>10 DEF Evaluate, Verdict
  <2>3. RowsThere \subseteq RowsThere'
    BY <2>1 DEF RowsThere
  <2> QED
    BY <1>10, <2>1, <2>2, <2>3 DEF Evaluate, Status
<1>11. CASE UNCHANGED vars
    BY <1>11 DEF vars, RowsThere
<1> QED
    BY <1>1, <1>2, <1>3, <1>4, <1>5, <1>6, <1>7, <1>8, <1>9, <1>10, <1>11
    DEF Next, Quiescent

\* Every variable of the planner keeps its type, for any plans, ids that are
\* used twice included: no row of task_dependencies is left without the task
\* rows at its ends (planner_service.py:115-157, ON DELETE CASCADE).
THEOREM RowsAndEdges == Spec => []TypeOK
<1>1. Init => TypeOK
    BY DEF Init, TypeOK, Status, NoRowStatus
<1> QED
    BY <1>1, TypeStep, PTL DEF Spec

-----------------------------------------------------------------------------
(* The invariant.                                                          *)

USE DEF ValidateDag

\* A request that has not inserted its rows has none.
Fresh ==
    \A x \in Planners \cup Clients, i \in 1 .. MaxDefs :
        phase[x] # "done" => status[<<x, i>>] = "UNCREATED"

Inv == TypeOK /\ SavedGraphIsAcyclic /\ Fresh

\* The initial state has no tasks.
LEMMA InvInit == Init => Inv
<1> SUFFICES ASSUME Init PROVE Inv
    OBVIOUS
<1>1. RowsThere = {}
    BY DEF Init, RowsThere, NoRowStatus
<1> QED
    BY <1>1
    DEF Init, Inv, TypeOK, SavedGraphIsAcyclic, Acyclic, Fresh, Row, Status, NoRowStatus

\* What is inserted extends the graph.
LEMMA Inserted ==
    ASSUME Inv, NEW M, NEW F, M \subseteq Row, M \cap RowsThere = {},
           F \subseteq (RowsThere \cup M) \X M, Acyclic(M, F),
           status' = [t \in Row |-> IF t \in M THEN "PENDING" ELSE status[t]],
           edges' = edges \cup F, UNCHANGED <<wstatus, due>>,
           phase' \in [Planners \cup Clients -> {"check", "asked", "done"}], Fresh'
    PROVE  Inv'
<1> USE DEF Inv, TypeOK, NoRowStatus
<1>1. RowsThere' = RowsThere \cup M
    BY DEF RowsThere
<1>2. TypeOK'
    BY <1>1
<1>3. SavedGraphIsAcyclic'
    BY <1>1, Extension DEF SavedGraphIsAcyclic
<1> QED
    BY <1>2, <1>3

\* A graph from which rows or edges are taken stays acyclic.
LEMMA Reduction ==
    ASSUME NEW N, NEW E, Acyclic(N, E), NEW M, M \subseteq N, NEW F, F \subseteq E
    PROVE  Acyclic(M, F)
<1> SUFFICES ASSUME NEW S \in SUBSET M, S # {}
             PROVE  \E n \in S : \A m \in S : <<m, n>> \notin F
    BY DEF Acyclic
<1>1. PICK n \in S : \A m \in S : <<m, n>> \notin E
    BY DEF Acyclic
<1> QED
    BY <1>1

\* A new status of a row that is there breaks no promise about the others.
LEMMA OldRow ==
    ASSUME Inv, NEW t \in RowsThere, NEW s, status' = [status EXCEPT ![t] = s],
           UNCHANGED phase
    PROVE  Fresh'
<1>1. ASSUME NEW x \in Planners \cup Clients, NEW i \in 1 .. MaxDefs, phase[x] # "done"
      PROVE  status'[<<x, i>>] = "UNCREATED"
  <2>1. <<x, i>> \in Row /\ status[<<x, i>>] = "UNCREATED"
    BY <1>1 DEF Inv, Fresh, Row
  <2>2. <<x, i>> # t
    BY <2>1 DEF RowsThere, NoRowStatus
  <2> QED
    BY <2>1, <2>2 DEF Inv, TypeOK
<1> QED
    BY <1>1 DEF Fresh

\* Every step keeps the invariant.
LEMMA InvStep ==
    ASSUME \A plan \in Plans : UniqueIds(plan)
    PROVE  Inv /\ [Next]_vars => Inv'
<1> SUFFICES ASSUME Inv, [Next]_vars PROVE Inv'
    OBVIOUS
<1> USE PlannerAssumption DEF NoRowStatus
<1>1. ASSUME NEW p \in Planners,
             Generate_Check(p) \/ Generate_Refuse(p) \/ Generate_Fail(p)
      PROVE  Inv'
  <2>1. /\ UNCHANGED <<wstatus, status, edges, due>>
        /\ phase[p] # "done"
        /\ phase' \in {[phase EXCEPT ![p] = "asked"], [phase EXCEPT ![p] = "done"]}
    BY <1>1 DEF Generate_Check, Generate_Refuse, Generate_Fail, Goto
  <2>2. RowsThere' = RowsThere
    BY <2>1 DEF RowsThere
  <2>3. TypeOK' /\ SavedGraphIsAcyclic'
    BY <2>1, <2>2 DEF Inv, TypeOK, SavedGraphIsAcyclic
  <2>4. Fresh'
    BY <2>1 DEF Inv, TypeOK, Fresh
  <2> QED
    BY <2>3, <2>4 DEF Inv
<1>2. ASSUME NEW p \in Planners, Generate_Persist(p) PROVE Inv'
  <2>1. PICK plan \in Plans :
            /\ Validated(plan)
            /\ status' = [t \in Row |-> IF t[1] = p /\ t[2] \in DOMAIN plan
                                        THEN "PENDING" ELSE status[t]]
            /\ edges' = edges \cup {<<<<p, e[1]>>, <<p, e[2]>>>> : e \in SavedEdges(plan)}
    BY <1>2 DEF Generate_Persist
  <2>2. plan \in Plan /\ UniqueIds(plan) /\ DOMAIN plan \subseteq 1 .. MaxDefs
    <3>1. plan \in Plan /\ Len(plan) <= MaxDefs /\ UniqueIds(plan)
      OBVIOUS
    <3>2. DOMAIN plan = 1 .. Len(plan) /\ Len(plan) \in Nat
      BY <3>1 DEF Plan
    <3> QED
      BY <3>1, <3>2
  <2> DEFINE M == {<<p, i>> : i \in DOMAIN plan}
             F == {<<<<p, e[1]>>, <<p, e[2]>>>> : e \in SavedEdges(plan)}
  <2>3. M \subseteq Row
    BY <2>2 DEF Row
  <2>4. M \cap RowsThere = {}
    BY <1>2, <2>2 DEF Generate_Persist, Inv, Fresh, RowsThere
  <2>5. F \subseteq M \X M
    BY DEF SavedEdges
  <2>6. Acyclic(M, F)
    <3> SUFFICES ASSUME NEW S \in SUBSET M, S # {}
                 PROVE  \E n \in S : \A m \in S : <<m, n>> \notin F
      BY DEF Acyclic
    <3> DEFINE D == {i \in DOMAIN plan : <<p, i>> \in S}
    <3>1. D \in SUBSET DOMAIN plan /\ D # {}
      OBVIOUS
    <3>2. PICK n \in D : \A m \in D : <<m, n>> \notin SavedEdges(plan)
      BY <2>1, <2>2, <3>1, SavedAcyclic DEF Acyclic
    <3>3. ASSUME NEW m \in S, <<m, <<p, n>>>> \in F PROVE FALSE
      <4>1. PICK e \in SavedEdges(plan) : m = <<p, e[1]>> /\ n = e[2]
        BY <3>3
      <4>2. e = <<e[1], e[2]>> /\ e[1] \in D
        BY <4>1 DEF SavedEdges
      <4> QED
        BY <3>2, <4>1, <4>2
    <3> QED
      BY <3>2, <3>3
  <2>7. status' = [t \in Row |-> IF t \in M THEN "PENDING" ELSE status[t]]
    BY <2>1, <2>3 DEF Row
  <2>8. Fresh' /\ phase' \in [Planners \cup Clients -> {"check", "asked", "done"}]
    BY <1>2, <2>7 DEF Generate_Persist, Goto, Inv, TypeOK, Fresh, Row
  <2>9. UNCHANGED <<wstatus, due>>
    BY <1>2 DEF Generate_Persist
  <2> HIDE DEF M, F
  <2>10. F \subseteq (RowsThere \cup M) \X M
    BY <2>5
  <2>11. edges' = edges \cup F
    BY <2>1 DEF F
  <2> QED
    BY <2>3, <2>4, <2>6, <2>7, <2>8, <2>9, <2>10, <2>11, Inserted
<1>3. ASSUME NEW p \in Planners, Generate_Direct(p) PROVE Inv'
    BY <1>3 DEF Generate_Direct, Goto, Inv, TypeOK, SavedGraphIsAcyclic, Fresh,
        RowsThere, Status
<1>4. ASSUME NEW c \in Clients, CreateTask(c) PROVE Inv'
  <2> DEFINE new == <<c, 1>>
  <2>1. PICK deps \in SUBSET RowsThere :
            /\ status' = [status EXCEPT ![new] = "PENDING"]
            /\ edges' = edges \cup {<<u, new>> : u \in deps}
    BY <1>4 DEF CreateTask
  <2> DEFINE F == {<<u, new>> : u \in deps}
  <2>2. new \in Row /\ new \notin RowsThere
    BY <1>4 DEF CreateTask, Inv, Fresh, RowsThere, Row
  <2>3. Acyclic({new}, F)
    <3>1. <<new, new>> \notin F
      BY <2>2
    <3>2. \A S \in SUBSET {new} : S # {} => S = {new}
      OBVIOUS
    <3> QED
      BY <3>1, <3>2 DEF Acyclic
  <2>4. F \subseteq (RowsThere \cup {new}) \X {new}
    OBVIOUS
  <2>5. status' = [t \in Row |-> IF t \in {new} THEN "PENDING" ELSE status[t]]
    BY <2>1, <2>2 DEF Inv, TypeOK
  <2>6. Fresh' /\ phase' \in [Planners \cup Clients -> {"check", "asked", "done"}]
    BY <1>4, <2>5 DEF CreateTask, Goto, Inv, TypeOK, Fresh, Row
  <2>7. UNCHANGED <<wstatus, due>>
    BY <1>4 DEF CreateTask
  <2>8. {new} \subseteq Row /\ {new} \cap RowsThere = {}
    BY <2>2
  <2>9. edges' = edges \cup F
    BY <2>1
  <2> HIDE DEF F, new
  <2> QED
    BY <2>3, <2>4, <2>5, <2>6, <2>7, <2>8, <2>9, Inserted
<1>5. CASE StartWorkflow \/ PauseWorkflow \/ ResumeWorkflow
    BY <1>5, TypeStep DEF StartWorkflow, PauseWorkflow, ResumeWorkflow, Next, Inv,
        SavedGraphIsAcyclic, Fresh, RowsThere
<1>6. ASSUME NEW s \in WorkflowPatches, UpdateWorkflow(s) PROVE Inv'
    BY <1>6, TypeStep DEF UpdateWorkflow, Next, Inv, SavedGraphIsAcyclic, Fresh, RowsThere
<1>7. CASE RemoveWorkflow
  <2>1. RowsThere' = {}
    BY <1>7 DEF RemoveWorkflow, RowsThere
  <2>2. SavedGraphIsAcyclic'
    BY <2>1 DEF SavedGraphIsAcyclic, Acyclic
  <2> QED
    BY <1>7, <2>2, TypeStep DEF RemoveWorkflow, Next, Inv, Fresh, RowsThere, Row
<1>8. ASSUME NEW t \in Row, NEW s \in {"COMPLETED", "FAILED"}, Finish(t, s) PROVE Inv'
  <2>1. RowsThere' = RowsThere
    BY <1>8 DEF Finish, RowsThere, Inv, TypeOK
  <2>2. SavedGraphIsAcyclic'
    BY <1>8, <2>1 DEF Finish, Inv, SavedGraphIsAcyclic
  <2>3. Fresh'
    BY <1>8, OldRow DEF Finish, Inv, TypeOK, Row
  <2> QED
    BY <1>8, <2>2, <2>3, TypeStep DEF Inv, Next
<1>9. ASSUME NEW t \in Row, NEW s \in TaskPatches, UpdateStatus(t, s) PROVE Inv'
  <2>1. t \in RowsThere /\ s \notin NoRowStatus
    BY <1>9 DEF UpdateStatus, TaskTransitions, RowsThere
  <2>2. RowsThere' = RowsThere
    BY <1>9, <2>1 DEF UpdateStatus, RowsThere, Inv, TypeOK
  <2>3. SavedGraphIsAcyclic'
    BY <1>9, <2>2 DEF UpdateStatus, Inv, SavedGraphIsAcyclic
  <2>4. Fresh'
    BY <1>9, <2>1, OldRow DEF UpdateStatus, Inv, TypeOK, Row
  <2> QED
    BY <1>9, <2>3, <2>4, TypeStep DEF Inv, Next
<1>10. ASSUME NEW t \in Row, DeleteTask(t) PROVE Inv'
  <2>1. RowsThere' \subseteq RowsThere /\ edges' \subseteq edges
    BY <1>10 DEF DeleteTask, RowsThere, Inv, TypeOK
  <2>2. SavedGraphIsAcyclic'
    BY <2>1, Reduction DEF Inv, SavedGraphIsAcyclic
  <2>3. Fresh'
    BY <1>10 DEF DeleteTask, Inv, TypeOK, Fresh, Row, RowsThere
  <2> QED
    BY <1>10, <2>2, <2>3, TypeStep DEF Inv, Next
<1>11. CASE Evaluate
  <2>1. \A t \in Row : \/ status'[t] = status[t]
                       \/ status[t] = "PENDING" /\ status'[t] = "QUEUED"
    BY <1>11 DEF Evaluate, Ready, Inv, TypeOK
  <2>2. RowsThere' = RowsThere
    BY <2>1 DEF RowsThere
  <2>3. SavedGraphIsAcyclic' /\ Fresh'
    BY <1>11, <2>1, <2>2 DEF Evaluate, Inv, SavedGraphIsAcyclic, Fresh, Row
  <2> QED
    BY <1>11, <2>3, TypeStep DEF Inv, Next
<1>12. CASE UNCHANGED vars
    BY <1>12 DEF vars, Inv, TypeOK, SavedGraphIsAcyclic, Fresh, RowsThere
<1> QED
    BY <1>1, <1>2, <1>3, <1>4, <1>5, <1>6, <1>7, <1>8, <1>9, <1>10, <1>11, <1>12
    DEF Next, Quiescent

\* With unique ids, the graph in the database stays acyclic, whatever planners
\* and clients insert at the same time.
THEOREM GraphStaysAcyclic ==
    ASSUME \A plan \in Plans : UniqueIds(plan)
    PROVE  Spec => []SavedGraphIsAcyclic
<1>1. Inv => SavedGraphIsAcyclic
    BY DEF Inv
<1> QED
    BY <1>1, InvInit, InvStep, PTL DEF Spec

-----------------------------------------------------------------------------
(* Who leaves a workflow stalled.                                          *)

\* An evaluation of a RUNNING workflow that has tasks ends it or finds one that
\* has begun or begins one, for of the tasks that are PENDING one waits for no
\* other.
LEMMA EvaluationFindsWork == Inv /\ Evaluate => ~Stalled'
<1> SUFFICES ASSUME Inv, Evaluate, Stalled' PROVE FALSE
    OBVIOUS
<1> USE DEF Inv, TypeOK, NoRowStatus, Begun
<1> DEFINE outcome == Verdict(RowsThere, status)
           ready == IF outcome = "NONE" THEN Ready(RowsThere, status, UpstreamOf) ELSE {}
<1>1. /\ wstatus' = "RUNNING" /\ RowsThere' # {}
      /\ \A t \in Row : status'[t] \notin Begun
    BY DEF Stalled, Idle
<1>2. wstatus \in Active
    BY <1>1 DEF Evaluate, Active
<1>3. /\ wstatus' = IF outcome # "NONE" THEN outcome
                    ELSE IF ready # {} THEN "RUNNING" ELSE wstatus
      /\ status' = [t \in Row |-> IF t \in ready THEN "QUEUED" ELSE status[t]]
    BY <1>2 DEF Evaluate
<1>4. outcome = "NONE"
    BY <1>1, <1>3 DEF Verdict
<1>5. ready = {} /\ status' = status
    BY <1>1, <1>3 DEF Ready, RowsThere
<1>6. RowsThere # {} /\ \A t \in RowsThere : status[t] \in {"PENDING", "COMPLETED"}
    BY <1>1, <1>4, <1>5 DEF Verdict, AnyFailed, RowsThere, Terminal
<1> DEFINE U == {t \in RowsThere : status[t] = "PENDING"}
<1>7. U # {} /\ U \in SUBSET RowsThere
    BY <1>4, <1>6 DEF Verdict, AllCompleted, Terminal
<1>8. PICK n \in U : \A m \in U : <<m, n>> \notin edges
    BY <1>7 DEF SavedGraphIsAcyclic, Acyclic
<1>9. \A u \in UpstreamOf[n] : status[u] = "COMPLETED"
    BY <1>6, <1>8 DEF UpstreamOf, RowsThere
<1>10. n \in Ready(RowsThere, status, UpstreamOf)
    BY <1>9 DEF Ready, DepsMet
<1> QED
    BY <1>4, <1>5, <1>10

\* New tasks stall a workflow only if it was idle and had none.
LEMMA ArrivalStalls ==
    ASSUME Inv, ~Stalled, Stalled', UNCHANGED <<wstatus, due>>, NEW M \in SUBSET Row,
           M \cap RowsThere = {}, \A t \in Row \ M : status'[t] = status[t]
    PROVE  Idle /\ RowsThere = {}
<1>1. \A t \in M : status[t] \notin Begun
    BY DEF RowsThere, Begun, NoRowStatus
<1>2. Idle
    BY <1>1 DEF Stalled, Idle
<1> QED
    BY <1>2 DEF Stalled

\* Every step that leaves a workflow stalled is one of the named three.
LEMMA StallStep ==
    ASSUME Inv, Next, ~Stalled, Stalled'
    PROVE  \/ Idle /\ RowsThere = {}
           \/ wstatus # "RUNNING" /\ due = 0
           \/ due = 0 /\ \E t \in Row : TakenAway(t)
<1> USE PlannerAssumption
<1>1. ASSUME NEW p \in Planners,
             Generate_Check(p) \/ Generate_Refuse(p) \/ Generate_Fail(p) \/ Generate_Direct(p)
      PROVE  FALSE
    BY <1>1 DEF Generate_Check, Generate_Refuse, Generate_Fail, Generate_Direct,
        Stalled, Idle, RowsThere
<1>2. ASSUME NEW p \in Planners, Generate_Persist(p) PROVE Idle /\ RowsThere = {}
  <2> DEFINE M == {t \in Row : t[1] = p}
  <2>1. M \cap RowsThere = {}
    BY <1>2 DEF Generate_Persist, Inv, Fresh, RowsThere, NoRowStatus, Row
  <2>2. \A t \in Row \ M : status'[t] = status[t]
    BY <1>2 DEF Generate_Persist
  <2>3. UNCHANGED <<wstatus, due>>
    BY <1>2 DEF Generate_Persist
  <2> HIDE DEF M
  <2> QED
    BY <2>1, <2>2, <2>3, ArrivalStalls DEF M
<1>3. ASSUME NEW c \in Clients, CreateTask(c) PROVE Idle /\ RowsThere = {}
  <2>1. {<<c, 1>>} \cap RowsThere = {} /\ <<c, 1>> \in Row
    BY <1>3 DEF CreateTask, Inv, Fresh, RowsThere, NoRowStatus, Row
  <2>2. \A t \in Row \ {<<c, 1>>} : status'[t] = status[t]
    BY <1>3 DEF CreateTask, Inv, TypeOK
  <2> QED
    BY <1>3, <2>1, <2>2, ArrivalStalls DEF CreateTask
<1>4. StartWorkflow \/ ResumeWorkflow \/ PauseWorkflow \/ RemoveWorkflow => FALSE
    BY DEF StartWorkflow, ResumeWorkflow, PauseWorkflow, RemoveWorkflow, Announce,
        Inv, TypeOK, Stalled, Idle
<1>5. ASSUME NEW t \in Row, NEW s \in {"COMPLETED", "FAILED"}, Finish(t, s) PROVE FALSE
    BY <1>5 DEF Finish, Announce, Inv, TypeOK, Stalled, Idle
<1>6. ASSUME NEW s \in WorkflowPatches, UpdateWorkflow(s)
      PROVE  wstatus # "RUNNING" /\ due = 0
    BY <1>6 DEF UpdateWorkflow, Stalled, Idle, RowsThere
<1>7. ASSUME NEW t \in Row,
             DeleteTask(t) \/ \E s \in TaskPatches : UpdateStatus(t, s)
      PROVE  due = 0 /\ TakenAway(t)
  <2>1. /\ UNCHANGED <<wstatus, due>>
        /\ t \in RowsThere
        /\ \A u \in Row \ {t} : status'[u] = status[u]
        /\ <<status[t], status'[t]>> \in TaskTransitions \/ status'[t] = "DELETED"
    BY <1>7 DEF DeleteTask, UpdateStatus, Inv, TypeOK, RowsThere, NoRowStatus,
        TaskTransitions
  <2>2. ~Idle
    BY <2>1 DEF Stalled
  <2> QED
    BY <2>1, <2>2 DEF Stalled, Idle, TakenAway
<1>8. Evaluate => FALSE
    BY EvaluationFindsWork
<1>9. Quiescent => FALSE
    BY DEF Quiescent, vars, Stalled, Idle, RowsThere
<1> QED
    BY <1>1, <1>2, <1>3, <1>4, <1>5, <1>6, <1>7, <1>8, <1>9 DEF Next

\* With unique ids, no evaluation and no result leaves a RUNNING workflow that
\* has tasks with nobody at work, whatever is planned, created, deleted, paused
\* and resumed at the same time.
THEOREM WorkIsLeft ==
    ASSUME \A plan \in Plans : UniqueIds(plan)
    PROVE  Spec => EvaluationsLeaveWork
<1>1. Inv /\ [Next]_vars =>
          [~Stalled /\ Stalled' =>
              \/ Idle /\ RowsThere = {}
              \/ wstatus # "RUNNING" /\ due = 0
              \/ due = 0 /\ \E t \in Row : TakenAway(t)]_vars
    BY StallStep
<1> QED
    BY <1>1, InvInit, InvStep, PTL DEF Spec, EvaluationsLeaveWork
=============================================================================
