---------------------------- MODULE OuterSafety ----------------------------
(***************************************************************************)
(* The outer safety gate (ADR 005) as operators: three tiers, the first    *)
(* one that does not allow decides.                                        *)
(*                                                                         *)
(* A text is what the rules and the classifiers can tell apart: the marks  *)
(* of the patterns it matches, whether it refers to earlier turns, whether *)
(* it has at most three words, and the intent the LLM reads in it.         *)
(* Scores are in thousandths.                                              *)
(***************************************************************************)
EXTENDS Naturals, Sequences, FiniteSetsExt, SequencesExt

CONSTANT HistoryTurns  \* HISTORY_TURNS of the heuristic client

Decisions == {"allow", "deny", "flag"}

Intents == {"query", "planning", "action", "other"}

\* Marks that count for the guard and their scores; the other marks are
\* keywords of the static rules only.
PatternScore == [delimiter |-> 1000, ignore_previous |-> 950, ignore_safety |-> 950,
                 role_flip |-> 900, goal_hijack |-> 850, encoding |-> 700,
                 polite |-> 500]

Marks == DOMAIN PatternScore \cup
         {"sensitive", "bulk", "all_students", "action_verb", "other_users"}

Text == [marks : SUBSET Marks, refers : BOOLEAN, short : BOOLEAN, intent : Intents]

-----------------------------------------------------------------------------
(* Tier 1: the role matrix. *)

\* rbac_matrix.yaml: both roles may do everything, no category is denied.
AllowedCategories(role) ==
  IF role \in {"student", "instructor"} THEN {"query", "planning", "action"} ELSE {}

CheckRbac(role, intent) ==
  CASE AllowedCategories(role) = {} -> "deny"
    [] intent \in AllowedCategories(role) -> "allow"
    [] OTHER -> "flag"

-----------------------------------------------------------------------------
(* Tier 2: the static rules in the order of the file, the first match wins. *)

Rule(intents, keywords, decision) ==
  [intents |-> intents, keywords |-> keywords, decision |-> decision]

StaticRules ==
  << Rule(Intents, {"ignore_previous"}, "deny"),
     Rule(Intents, {"sensitive"}, "deny"),
     Rule({"action"}, {"bulk", "all_students"}, "deny"),
     Rule({"query"}, {"action_verb"}, "flag"),
     Rule({"query"}, {"all_students", "other_users"}, "flag") >>

Matches(rule, intent, text) ==
  intent \in rule.intents /\ text.marks \cap rule.keywords # {}

CheckStaticRules(intent, text) ==
  LET hits == {i \in DOMAIN StaticRules : Matches(StaticRules[i], intent, text)}
  IN  IF hits = {} THEN "allow" ELSE StaticRules[Min(hits)].decision

-----------------------------------------------------------------------------
(* Tier 3: the injection classifier. *)

Score(text) ==
  Max({0} \cup {PatternScore[m] : m \in text.marks \cap DOMAIN PatternScore})

Discounted(score) == (score * 8) \div 10

\* The last n elements of a sequence, as a set.
LastOf(s, n) == {s[i] : i \in {j \in DOMAIN s : j + n > Len(s)}}

\* Mutant: the first turns of the history are scanned, not the last.
HeuristicScoreOldest(text, history) ==
  Max({Score(text)} \cup
      {Discounted(Score(history[i])) : i \in DOMAIN history \cap 1..HistoryTurns})

HeuristicScore(text, history) ==
  Max({Score(text)} \cup {Discounted(Score(h)) : h \in LastOf(history, HistoryTurns)})

DecisionOf(score) ==
  CASE score >= 900 -> "deny" [] score >= 500 -> "flag" [] OTHER -> "allow"

\* The classifier in use is fixed for the life of the process.  The local
\* model looks at the text alone, and what it answers is its own; either may
\* time out, raise or return no score, and then the request is flagged.
Clients == {"heuristic", "local"}

CheckInjection(client, text, history) ==
  {"flag"} \cup (IF client = "heuristic"
                 THEN {DecisionOf(HeuristicScore(text, history))} ELSE Decisions)

-----------------------------------------------------------------------------
\* The verdicts the gate may give.
OuterSafetyCheck(client, role, intent, text, history) ==
  IF CheckRbac(role, intent) # "allow" THEN {CheckRbac(role, intent)}
  ELSE IF CheckStaticRules(intent, text) # "allow"
  THEN {CheckStaticRules(intent, text)}
  ELSE CheckInjection(client, text, history)
=============================================================================
