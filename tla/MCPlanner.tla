----------------------------- MODULE MCPlanner ------------------------------
(***************************************************************************)
(* Small instances for TLC: two requests for a plan that race with the     *)
(* creation of a task, or one whose plan may use an id twice.              *)
(***************************************************************************)
EXTENDS Planner, TLC

CONSTANTS a, b

Def(x, deps) == [id |-> x, deps |-> deps]

\* A single task, two in parallel and a chain; and plans that are to be
\* refused: a loop, two tasks that wait for each other, an unknown id.
SensiblePlans ==
    {<<Def(a, {})>>,
     <<Def(a, {}), Def(b, {})>>,
     <<Def(b, {a}), Def(a, {})>>,
     <<Def(a, {a})>>,
     <<Def(a, {b}), Def(b, {a})>>,
     <<Def(a, {b})>>}

\* Every plan of three definitions over two ids.
AnyPlans == [1 .. 3 -> [id : {a, b}, deps : SUBSET {a, b}]]

\* Planners are alike; used for safety only.
InterchangeablePlanners == Permutations(Planners)
=============================================================================
