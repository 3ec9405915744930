---------------------------- MODULE MCComponents ----------------------------
(***************************************************************************)
(* Components with the inputs of the symbolic steps, for TLC.              *)
(***************************************************************************)
EXTENDS Components, TLC

-----------------------------------------------------------------------------
(* Inputs of the symbolic steps: hours 1 to 4, two days. *)

Meeting(days, start, end) == [days |-> days, start |-> start, end |-> end]

Section(course, meetings, credits, prereqs) ==
  [course |-> course, meetings |-> meetings, credits |-> credits, prereqs |-> prereqs]

\* Two sections of one course, one that touches the first, one that clashes
\* with it on one day and needs a course, one without meetings, one whose
\* meeting has no length.
SectionSet ==
  { Section("c1", <<Meeting({"M", "W"}, 1, 2)>>, 3, {}),
    Section("c1", <<Meeting({"W"}, 3, 4)>>, 3, {}),
    Section("c2", <<Meeting({"M"}, 2, 3), Meeting({"W"}, 2, 3)>>, 4, {}),
    Section("c3", <<Meeting({"W"}, 1, 3), Meeting({"F"}, 1, 2)>>, 4, {"c1"}),
    Section("c4", <<>>, 1, {}),
    Section("c5", <<Meeting({"W"}, 2, 2)>>, 1, {}) }

CandidateLists == UNION {[1..n -> SectionSet] : n \in 0..3}

ConstraintSets ==
  { [excluded |-> {}, from |-> 1, to |-> 4, minCourses |-> 1, maxCourses |-> 3,
     minCredits |-> 0, maxCredits |-> 100],
    [excluded |-> {"F"}, from |-> 1, to |-> 4, minCourses |-> 2, maxCourses |-> 2,
     minCredits |-> 0, maxCredits |-> 7],
    [excluded |-> {}, from |-> 2, to |-> 4, minCourses |-> 0, maxCourses |-> 2,
     minCredits |-> 2, maxCredits |-> 5] }

Leaf(parent, pool, need) ==
  [kind |-> "leaf", parent |-> parent, pool |-> pool, need |-> need]

Inner(kind, parent) == [kind |-> kind, parent |-> parent, pool |-> {}, need |-> 0]

Leaves(parent) == {Leaf(parent, {"c1", "c2"}, 2), Leaf(parent, {"c2", "c3"}, 1)}

Programs ==
  {<<l>> : l \in Leaves(0)} \cup
  {<<Inner(k, 0)>> \o s : k \in {"and", "or"},
     s \in {<<>>} \cup {<<l, m>> : l, m \in Leaves(1)}
           \cup {<<l, Inner(k2, 1), m, n>> : k2 \in {"and", "or"}, l \in Leaves(1),
                                             m, n \in Leaves(3)}}

\* One for the solver or one for the gap analysis.
AdvisingRequests ==
  [candidates : CandidateLists, constraints : ConstraintSets,
   program : {<<Leaf(0, {"c2"}, 1)>>}, completed : {{}, {"c1"}}]
  \cup [candidates : {<<>>}, constraints : {CHOOSE cs \in ConstraintSets : TRUE},
        program : Programs, completed : SUBSET {"c1", "c2"}]

-----------------------------------------------------------------------------
Symmetry == Permutations(Keys) \cup Permutations(Callers) \cup Permutations(Courses)
            \cup Permutations(Tokens)
=============================================================================
