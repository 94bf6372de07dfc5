-------------------------------- MODULE Plan --------------------------------
(***************************************************************************)
(* A plan as the language model returns it: a sequence of definitions,     *)
(* each with an id and the ids it depends on; its validation, and the rows *)
(* it is translated to.  Pure operators, no state.                         *)
(***************************************************************************)
EXTENDS Naturals, Sequences

CONSTANT PlanIds   \* the strings a plan may name tasks by

\* depends_on is a set: an entry that is repeated within one list makes the
\* INSERT of the edges fail, as Clash does, and the plan is not saved.
Plan == Seq([id : PlanIds, deps : SUBSET PlanIds])

Ids(plan) == {plan[i].id : i \in DOMAIN plan}

UniqueIds(plan) == \A i, j \in DOMAIN plan : plan[i].id = plan[j].id => i = j

\* Both dictionaries, graph and db_tasks, keep the last definition of an id.
Last(plan, x) ==
    CHOOSE i \in DOMAIN plan :
        plan[i].id = x /\ \A j \in DOMAIN plan : plan[j].id = x => j <= i

\* What TopologicalSorter.prepare accepts: a graph with nodes N and edges E,
\* where <<m, n>> makes n wait for m, in which no set of nodes waits for itself.
Acyclic_NoLoops(N, E) == \A n \in N : <<n, n>> \notin E
Acyclic(N, E) ==
    \A S \in SUBSET N : S # {} => \E n \in S : \A m \in S : <<m, n>> \notin E

KnownDeps(plan) == \A i \in DOMAIN plan : plan[i].deps \subseteq Ids(plan)

\* The graph that is validated.
ValidatedEdges(plan) ==
    {e \in Ids(plan) \X Ids(plan) : e[1] \in plan[Last(plan, e[2])].deps}

Validated_KnownDeps(plan) == KnownDeps(plan)
Validated(plan) == KnownDeps(plan) /\ Acyclic(Ids(plan), ValidatedEdges(plan))

\* The graph that is saved: a row per definition, the edges of each definition
\* between the rows the map has for the two ids.
SavedEdges(plan) ==
    {e \in (DOMAIN plan) \X (DOMAIN plan) :
        \E k \in DOMAIN plan : \E d \in plan[k].deps :
            e = <<Last(plan, d), Last(plan, plan[k].id)>>}

\* Two definitions of one id ask for one edge twice: the INSERT fails.
Clash(plan) ==
    \E i, j \in DOMAIN plan :
        i # j /\ plan[i].id = plan[j].id /\ plan[i].deps \cap plan[j].deps # {}
=============================================================================
