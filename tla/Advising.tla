------------------------------ MODULE Advising ------------------------------
(***************************************************************************)
(* The symbolic steps of a plan: the schedule solver and the gap analysis, *)
(* as operators, and a step that computes both for one request.            *)
(*                                                                         *)
(* A section is [course, meetings, credits, prereqs], a meeting is [days,  *)
(* start, end].  A requirement tree is a sequence of nodes whose first one *)
(* is the root and in which a child comes after its parent.                *)
(***************************************************************************)
EXTENDS Integers, Sequences, FiniteSets, SequencesExt, Filter

CONSTANT Requests  \* what the steps are given: [candidates, constraints,
                   \* program, completed]; constraints are [excluded, from, to,
                   \* minCourses, maxCourses, minCredits, maxCredits]

VARIABLES request,  \* what the steps are given
          options,  \* what the solver returned
          gaps,     \* what the gap analysis returned
          computed

vars == <<request, options, gaps, computed>>

-----------------------------------------------------------------------------
(* The solver. *)

\* MeetingTime.overlaps.
Overlaps(m, n) == m.days \cap n.days # {} /\ m.start < n.end /\ n.start < m.end

MeetsHardConstraints(section, completed, cs) ==
  /\ section.prereqs \subseteq completed
  /\ \A i \in DOMAIN section.meetings :
       LET m == section.meetings[i] IN
       m.days \cap cs.excluded = {} /\ cs.from <= m.start /\ m.end <= cs.to

\* Catalog data: a section has a list of meetings at times, which need not
\* end after they start.
AreSections(candidates) ==
  /\ candidates \in Seq(ToSet(candidates))
  /\ \A i \in DOMAIN candidates :
       LET ms == candidates[i].meetings
       IN  ms \in Seq(ToSet(ms)) /\ \A n \in DOMAIN ms : {ms[n].start, ms[n].end} \subseteq Int

\* The valid sections and the combinations of them are sets of indices.
Valid(r) == {i \in DOMAIN r.candidates :
               MeetsHardConstraints(r.candidates[i], r.completed, r.constraints)}

\* The sections of a combination, in order.
Sections(candidates, combo) ==
  LET chosen == Kept([i \in DOMAIN candidates |-> i], combo)
  IN  [n \in DOMAIN chosen |-> candidates[chosen[n]]]

\* Where the meetings are: a section and the position in its list.
Meetings(sections) ==
  UNION {{i} \X DOMAIN sections[i].meetings : i \in DOMAIN sections}

At(sections, p) == sections[p[1]].meetings[p[2]]

\* Mutant: only neighbours in the list are compared.
HasTimeConflictOfNeighbours(sections) ==
  \E p, q \in Meetings(sections) :
    /\ p # q /\ p[1] - q[1] \in {0, 1}
    /\ Overlaps(At(sections, p), At(sections, q))

HasTimeConflict(sections) ==
  \E p, q \in Meetings(sections) :
    p # q /\ Overlaps(At(sections, p), At(sections, q))

Credits(sections) == FoldLeft(LAMBDA sum, s : sum + s.credits, 0, sections)

MeetsCreditBounds(sections, cs) == Credits(sections) \in cs.minCredits..cs.maxCredits

\* The course codes of a combination, counted: a course may be there twice.
Key(sections) ==
  LET codes == {sections[i].course : i \in DOMAIN sections}
  IN  [c \in codes |-> Cardinality({i \in DOMAIN sections : sections[i].course = c})]

\* The order of itertools.combinations: by size, then by the first index in
\* which two combinations differ.
Before(a, b) ==
  \/ Cardinality(a) < Cardinality(b)
  \/ /\ Cardinality(a) = Cardinality(b)
     /\ \E d \in a \ b : \A i \in a \cup b : i < d => (i \in a <=> i \in b)

\* Mutant: range(min_courses, max_courses).
CombinationsBelowMax(r) ==
  {c \in SUBSET Valid(r) :
     Cardinality(c) \in r.constraints.minCourses..(r.constraints.maxCourses - 1)}

Combinations(r) ==
  {c \in SUBSET Valid(r) :
     Cardinality(c) \in r.constraints.minCourses..r.constraints.maxCourses}

\* seen_combos: of the combinations with the same courses the first is tried.
FirstOfKey(r) ==
  LET key(c) == Key(Sections(r.candidates, c))
  IN  {c \in Combinations(r) :
         \A d \in Combinations(r) : Before(d, c) => key(d) # key(c)}

Feasible(r) ==
  {c \in FirstOfKey(r) :
     LET sections == Sections(r.candidates, c)
     IN  ~HasTimeConflict(sections) /\ MeetsCreditBounds(sections, r.constraints)}

RankScore(sections) == 100 * Len(sections) + Credits(sections)

\* sorted with reverse=True keeps the order of options with equal scores.
Better(candidates, a, b) ==
  LET score(c) == RankScore(Sections(candidates, c))
  IN  score(a) > score(b) \/ (score(a) = score(b) /\ Before(a, b))

\* The combinations of a set, ranked.
Rank(candidates, found) ==
  [n \in 1..Cardinality(found) |->
     CHOOSE c \in found :
       Cardinality({d \in found : Better(candidates, d, c)}) = n - 1]

Solve(r) ==
  LET ranked == Rank(r.candidates, Feasible(r))
  IN  [n \in DOMAIN ranked |-> Sections(r.candidates, ranked[n])]

-----------------------------------------------------------------------------
(* The gap analysis. *)

\* A degree program's requirements: only the inner nodes have children.
IsTree(tree) ==
  /\ tree \in Seq(ToSet(tree)) /\ tree # <<>>
  /\ tree[1].parent = 0
  /\ \A n \in DOMAIN tree :
       /\ tree[n].kind \in {"leaf", "and", "or"}
       /\ IsFiniteSet(tree[n].pool) /\ tree[n].need \in Int
       /\ n > 1 => tree[n].parent \in 1..(n - 1) /\ tree[tree[n].parent].kind # "leaf"

IsRequest(r) ==
  /\ IsTree(r.program) /\ AreSections(r.candidates)
  /\ {r.constraints.minCredits, r.constraints.maxCredits} \subseteq Int

Children(tree, n) == {c \in DOMAIN tree : tree[c].parent = n}

\* A pool is a set here: a course that a catalogue lists twice in one pool would
\* count twice in the code.
Already(node, completed) == node.pool \cap completed

\* What _walk returns for each node.
Walk(tree, completed) ==
  LET sat[n \in DOMAIN tree] ==
        \/ /\ tree[n].kind = "leaf"
           /\ Cardinality(Already(tree[n], completed)) >= tree[n].need
        \/ tree[n].kind = "and" /\ \A c \in Children(tree, n) : sat[c]
        \/ tree[n].kind = "or" /\ \E c \in Children(tree, n) : sat[c]
  IN  sat

\* Mutant: the children after the first that is not satisfied are not walked.
UnsatisfiedFirstOnly(tree, completed) ==
  LET short == Kept([n \in DOMAIN tree |-> n],
                    {n \in DOMAIN tree : tree[n].kind = "leaf" /\ ~Walk(tree, completed)[n]})
  IN  [i \in DOMAIN short \cap {1} |->
         LET node == tree[short[i]] IN
         [pool |-> node.pool, already |-> Already(node, completed),
          need |-> node.need - Cardinality(Already(node, completed))]]

\* What _walk appends: parent_satisfied is False all the way down, so every
\* leaf that is short of courses is reported, in whatever branch it is.
Unsatisfied(tree, completed) ==
  LET short == Kept([n \in DOMAIN tree |-> n],
                    {n \in DOMAIN tree : tree[n].kind = "leaf" /\ ~Walk(tree, completed)[n]})
  IN  [i \in DOMAIN short |->
         LET node == tree[short[i]] IN
         [pool |-> node.pool, already |-> Already(node, completed),
          need |-> node.need - Cardinality(Already(node, completed))]]

-----------------------------------------------------------------------------
Init ==
  /\ request \in Requests
  /\ options = <<>> /\ gaps = <<>> /\ computed = FALSE

\* The plan's constraint_solver and reasoning steps.
RunSteps ==
  /\ ~computed
  /\ options' = Solve(request)
  /\ gaps' = Unsatisfied(request.program, request.completed)
  /\ computed' = TRUE
  /\ UNCHANGED request

Next == RunSteps

Spec == Init /\ [][Next]_vars

-----------------------------------------------------------------------------
(* Properties. *)

TypeOK ==
  /\ request \in Requests
  /\ computed \in BOOLEAN
  /\ ~computed => options = <<>> /\ gaps = <<>>

InClass(m, day, time) == day \in m.days /\ m.start <= time /\ time < m.end

\* At no time of any day two meetings are on.
ClashFree(sections) ==
  LET ms == {At(sections, p) : p \in Meetings(sections)}
      days == UNION {m.days : m \in ms}
      times == {m.start : m \in ms}
  IN  \A day \in days, time \in times :
        Cardinality({p \in Meetings(sections) : InClass(At(sections, p), day, time)}) <= 1

\* What the student asked for.
Timetable(sections) ==
  LET cs == request.constraints IN
  /\ Len(sections) \in cs.minCourses..cs.maxCourses
  /\ MeetsCreditBounds(sections, cs)
  /\ ClashFree(sections)
  /\ \A i \in DOMAIN sections :
       MeetsHardConstraints(sections[i], request.completed, cs)

\* "All listed courses have prereqs met and no time conflicts": every option
\* is a timetable, also where meetings only touch, and one with more courses
\* never comes after one with fewer, unless that has 100 credits more.
OptionsAreTimetables ==
  computed =>
    /\ \A i \in DOMAIN options : Timetable(options[i])
    /\ \A i, j \in DOMAIN options : i < j =>
         \/ Len(options[i]) >= Len(options[j])
         \/ Credits(options[i]) >= Credits(options[j]) + 100

\* Every timetable is offered, if not in these sections of its courses then
\* in others; one can be missing only if a course has several sections and
\* another combination of the same courses is no timetable, or if a meeting
\* ends before it starts.
OffersEveryTimetable ==
  computed =>
    LET pick(S) == Sections(request.candidates, S)
        codes(S) == Key(pick(S))
        proper(S) == \A p \in Meetings(pick(S)) : At(pick(S), p).start < At(pick(S), p).end
    IN  \A S \in SUBSET DOMAIN request.candidates : Timetable(pick(S)) =>
          \/ \E i \in DOMAIN options : Key(options[i]) = codes(S)
          \/ \E T \in SUBSET DOMAIN request.candidates :
               codes(T) = codes(S) /\ (~Timetable(pick(T)) \/ ~proper(T))

\* A requirement tree is satisfied if one can choose, from the root down,
\* nodes that are: all children of an and, some child of an or.
Satisfied(tree, courses) ==
  \E chosen \in SUBSET DOMAIN tree :
    /\ 1 \in chosen
    /\ \A n \in chosen :
         /\ tree[n].kind = "leaf" => Cardinality(tree[n].pool \cap courses) >= tree[n].need
         /\ tree[n].kind = "and" => Children(tree, n) \subseteq chosen
         /\ tree[n].kind = "or" => Children(tree, n) \cap chosen # {}

Has(tree, kind) == \E n \in DOMAIN tree : tree[n].kind = kind

\* What is reported is enough: whoever passes the number of courses missing
\* from each reported pool satisfies the program, so nothing reported means
\* satisfied, unless an or has no children.  It is also needed, if there is
\* no or: the branches of a satisfied or are reported all the same.
GapsAreWhatIsMissing ==
  computed =>
    LET tree == request.program
        pools == UNION {tree[n].pool : n \in DOMAIN tree}
        closes(X) == \A i \in DOMAIN gaps :
                       Cardinality(X \cap (gaps[i].pool \ gaps[i].already)) >= gaps[i].need
    IN  /\ \A X \in SUBSET pools :
             closes(X) => \/ Satisfied(tree, request.completed \cup X)
                          \/ \E n \in DOMAIN tree : tree[n].kind = "or"
                                                    /\ Children(tree, n) = {}
        /\ ~Has(tree, "or") /\ Satisfied(tree, request.completed) => gaps = <<>>
=============================================================================
