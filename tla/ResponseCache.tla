---------------------------- MODULE ResponseCache ----------------------------
(***************************************************************************)
(* The response cache with its TTL and its index by course, the handler of *)
(* course update events, and callers that look up, compute and store.      *)
(*                                                                         *)
(* Every method runs to its end; a caller's look-up and its store are two  *)
(* calls with the agent's work between them.  A course's data and the      *)
(* event that announces its change are two steps too.                      *)
(***************************************************************************)
EXTENDS Naturals

CONSTANTS Keys, Courses, Callers,
          TTL,
          MaxTime  \* bound on the clock

VARIABLES store,    \* _store
          index,    \* _course_index
          now,
          filling,  \* filling[c]: what caller c computes after a miss
          pending   \* courses whose update event is on its way

ASSUME CacheAssumption == {TTL, MaxTime} \subseteq Nat

vars == <<store, index, now, filling, pending>>

\* An answer about some courses.  outdated and missed are history: those of
\* its courses that changed since it was computed, and those among them whose
\* event was handled before it was stored.
Answer == [courses : SUBSET Courses, outdated : SUBSET Courses, missed : SUBSET Courses]

Fresh(S) == [courses |-> S, outdated |-> {}, missed |-> {}]

None == [stored |-> FALSE]
Entry(answer) == [stored |-> TRUE, answer |-> answer, expires |-> now + TTL]

Idle == [busy |-> FALSE]
Filling(k, answer) == [busy |-> TRUE, key |-> k, answer |-> answer]

TypeOK ==
  /\ store \in [Keys -> {None} \cup [stored : {TRUE}, answer : Answer,
                                     expires : 0..(MaxTime + TTL)]]
  /\ index \in [Courses -> SUBSET Keys]
  /\ now \in 0..MaxTime
  /\ filling \in [Callers -> {Idle} \cup [busy : {TRUE}, key : Keys, answer : Answer]]
  /\ pending \subseteq Courses

Init ==
  /\ store = [k \in Keys |-> None]
  /\ index = [c \in Courses |-> {}]
  /\ now = 0
  /\ filling = [w \in Callers |-> Idle]
  /\ pending = {}

-----------------------------------------------------------------------------
(* The cache. *)

Expired(k) == store[k].stored /\ now > store[k].expires

\* Mutant: the whole index of a course goes with one expired entry.
EvictWholeIndex(k) ==
  [c \in Courses |-> IF c \in store[k].answer.courses THEN {} ELSE index[c]]

\* _evict: an expired entry leaves the indices of its courses.
Evict(k) ==
  [c \in Courses |-> IF c \in store[k].answer.courses THEN index[c] \ {k} ELSE index[c]]

\* get, and what the caller does with it: a hit is served as it is, after a
\* miss the caller computes the answer from the data of this moment.  Only
\* queries of a cacheable type come here.
Get(w, k, S) ==
  /\ ~filling[w].busy
  /\ Expired(k) \/ ~store[k].stored
  /\ IF Expired(k)
     THEN store' = [store EXCEPT ![k] = None] /\ index' = Evict(k)
     ELSE UNCHANGED <<store, index>>
  /\ filling' = [filling EXCEPT ![w] = Filling(k, Fresh(S))]
  /\ UNCHANGED <<now, pending>>

\* set: an entry of the same key is replaced; what the index says of its
\* courses stays.
Set(w) ==
  /\ filling[w].busy
  /\ LET k == filling[w].key  a == filling[w].answer IN
     /\ store' = [store EXCEPT ![k] = Entry(a)]
     /\ index' = [c \in Courses |-> IF c \in a.courses THEN index[c] \cup {k} ELSE index[c]]
  /\ filling' = [filling EXCEPT ![w] = Idle]
  /\ UNCHANGED <<now, pending>>

\* The agent failed: there is nothing to store.
Abandon(w) ==
  /\ filling[w].busy
  /\ filling' = [filling EXCEPT ![w] = Idle]
  /\ UNCHANGED <<store, index, now, pending>>

\* invalidate_course, from on_course_update or an admin: the keys in the
\* index of c go, the other courses' indices keep them.
InvalidateCourse(c) ==
  /\ store' = [k \in Keys |-> IF k \in index[c] THEN None ELSE store[k]]
  /\ index' = [index EXCEPT ![c] = {}]
  /\ filling' = [w \in Callers |->
                   IF filling[w].busy /\ c \in filling[w].answer.outdated
                   THEN [filling[w] EXCEPT !.answer.missed = @ \cup {c}] ELSE filling[w]]
  /\ pending' = pending \ {c}
  /\ UNCHANGED now

\* flush_all, from an admin.
Flush ==
  /\ store' = [k \in Keys |-> None]
  /\ index' = [c \in Courses |-> {}]
  /\ UNCHANGED <<now, filling, pending>>

-----------------------------------------------------------------------------
(* The world around it. *)

\* The core service changes a course; that this is announced is what the
\* handler of the event expects.
Outdate(a, c) == [a EXCEPT !.outdated = @ \cup ({c} \cap a.courses)]

UpdateCourse(c) ==
  /\ store' = [k \in Keys |-> IF store[k].stored
                              THEN [store[k] EXCEPT !.answer = Outdate(@, c)] ELSE None]
  /\ filling' = [w \in Callers |-> IF filling[w].busy
                   THEN [filling[w] EXCEPT !.answer = Outdate(@, c)] ELSE Idle]
  /\ pending' = pending \cup {c}
  /\ UNCHANGED <<index, now>>

Tick ==
  /\ now < MaxTime
  /\ now' = now + 1
  /\ UNCHANGED <<store, index, filling, pending>>

Next ==
  \/ \E w \in Callers : \/ \E k \in Keys, S \in SUBSET Courses : Get(w, k, S)
                        \/ Set(w) \/ Abandon(w)
  \/ \E c \in Courses : InvalidateCourse(c) \/ UpdateCourse(c)
  \/ Flush \/ Tick

Spec == Init /\ [][Next]_vars

-----------------------------------------------------------------------------
(* Properties. *)

\* Whatever was evicted, overwritten with other courses or invalidated, an
\* entry can be found from each of its courses.
IndexCoversStore ==
  \A k \in Keys : store[k].stored =>
    \A c \in store[k].answer.courses : k \in index[c]

\* A cached answer is out of date only while the event is on its way, or if
\* it was computed before the update and stored after the event: that answer
\* lives for a whole TTL.
StaleOnlyFromRacingFill ==
  \A k \in Keys : store[k].stored =>
    store[k].answer.outdated \subseteq pending \cup store[k].answer.missed
=============================================================================
