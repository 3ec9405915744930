----------------------------- MODULE MCPlanExec -----------------------------
(***************************************************************************)
(* Every dependency graph over three steps, cyclic ones included, each     *)
(* read step referring to what it depends on or to step 1 without          *)
(* depending on it; and some longer plans.                                 *)
(***************************************************************************)
EXTENDS PlanExec, TLC

MCSteps == 0..4

Everywhere(x) == [s \in MCSteps |-> x]

MCPlan(ids, deps, refs, actions) ==
  [ids |-> ids, deps |-> deps @@ Everywhere({}), refs |-> refs @@ Everywhere({}),
   kind |-> [s \in MCSteps |-> IF s \in actions THEN "action" ELSE "read"],
   label |-> [s \in MCSteps |-> s], twice |-> {}, malformed |-> {}]

SmallPlans ==
  UNION { { MCPlan(0..2, d, [s \in 0..2 |-> r[s] \cup d[s]], {2}),
            MCPlan(0..2, d, r, {2}) } :
          d \in [0..2 -> SUBSET (0..2)], r \in {[s \in 0..2 |-> {1}]} }

\* Two branches of different length and a join, all steps referring upstream.
UnevenDeps == (1 :> {0}) @@ (2 :> {1}) @@ (3 :> {0}) @@ (4 :> {2, 3})
Uneven == MCPlan(0..4, UnevenDeps, UnevenDeps, {3})

\* One layer more than the recursion limit of the configuration.
ChainDeps == (1 :> {0}) @@ (2 :> {1}) @@ (3 :> {2}) @@ (4 :> {3})
Chain == MCPlan(0..4, ChainDeps, ChainDeps, {0, 4})

\* A dependency on a step that is not there.
Dangling == MCPlan(0..1, 1 :> {3}, 1 :> {3}, {})

\* The same enrollment asked for twice.
Twice == [MCPlan(0..2, 2 :> {0, 1}, 2 :> {0, 1}, {0, 1}) EXCEPT !.label[1] = 0]

\* Two steps with one id; a step without a field; both in a plan with a cycle.
Refused ==
  { [Uneven EXCEPT !.twice = {1}], [Uneven EXCEPT !.malformed = {3}],
    [MCPlan(0..1, (0 :> {1}) @@ (1 :> {0}), 1 :> {0}, {}) EXCEPT
       !.twice = {0}, !.malformed = {1}] }

MCPlans == SmallPlans \cup Refused \cup {Uneven, Chain, Dangling, Twice}
=============================================================================
