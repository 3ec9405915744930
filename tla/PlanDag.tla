------------------------------ MODULE PlanDag ------------------------------
(***************************************************************************)
(* What the planning agent promises of a plan: every step runs at most     *)
(* once, and only after all the steps it depends on.  Steps may run        *)
(* together.                                                               *)
(***************************************************************************)

CONSTANT Plans      \* the plans that may be asked for

VARIABLES plan, done

dagVars == <<plan, done>>

Init == plan \in Plans /\ done = {}

\* Some steps whose dependencies are all done run, none of them again.
RunSteps(S) ==
  /\ S \cap done = {}
  /\ \A s \in S : plan.deps[s] \subseteq done
  /\ done' = done \cup S
  /\ UNCHANGED plan

Next == \E S \in SUBSET plan.ids : RunSteps(S)

Spec == Init /\ [][Next]_dagVars
=============================================================================
