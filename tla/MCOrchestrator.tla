--------------------------- MODULE MCOrchestrator ---------------------------
(***************************************************************************)
(* Three calls on two threads, two at a time, with one text of each kind.  *)
(* The windows of the guard (3) and of the coref resolver (6) are scaled   *)
(* to 1 and 2.                                                             *)
(***************************************************************************)
EXTENDS Orchestrator, TLC

CONSTANTS t1, t2

MCThreads == {t1, t2}

From(role, marks, refers, intent) ==
  [role |-> role,
   text |-> [marks |-> marks, refers |-> refers, short |-> FALSE, intent |-> intent]]

\* A follow-up to earlier turns; an injection that is flagged by a static
\* rule if it is taken for a query and scored by the guard if it is not; a
\* user whose role has no policy.
MCInputs == { From("student", {}, TRUE, "action"),
              From("student", {"ignore_safety", "action_verb"}, FALSE, "planning"),
              From("guest", {}, FALSE, "query") }

\* LLM text that repeats what the syllabus excerpts were wrapped in.
MCLeaks == {{"marker"}}

ThreadSymmetry == Permutations(MCThreads)
=============================================================================
