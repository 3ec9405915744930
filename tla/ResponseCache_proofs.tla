------------------------ MODULE ResponseCache_proofs ------------------------
(***************************************************************************)
(* Safety of the response cache for any number of keys, courses and        *)
(* callers, any TTL and any length of time.                                *)
(***************************************************************************)
EXTENDS ResponseCache, TLAPS

USE CacheAssumption

\* An entry that a step puts into the cache or leaves there is typed.
CachedEntry == [stored : {TRUE}, answer : Answer, expires : 0..(MaxTime + TTL)]
FillingEntry == [busy : {TRUE}, key : Keys, answer : Answer]

LEMMA FreeStates == ~Idle.busy /\ ~None.stored
<1>1. Idle.busy = FALSE /\ None.stored = FALSE
  BY DEF Idle, None
<1>2. QED
  BY <1>1

LEMMA FreshType == ASSUME NEW S \in SUBSET Courses PROVE Fresh(S) \in Answer
  BY DEF Fresh, Answer

LEMMA OutdateType ==
  ASSUME NEW a \in Answer, NEW c \in Courses
  PROVE  Outdate(a, c) \in Answer /\ Outdate(a, c).courses = a.courses
         /\ Outdate(a, c).missed = a.missed
         /\ Outdate(a, c).outdated = a.outdated \cup ({c} \cap a.courses)
  BY DEF Outdate, Answer

LEMMA InitTypeOK == Init => TypeOK
  BY DEF Init, TypeOK

LEMMA NextTypeOK == TypeOK /\ [Next]_vars => TypeOK'
<1> SUFFICES ASSUME TypeOK, [Next]_vars PROVE TypeOK'
  OBVIOUS
<1> USE DEF CachedEntry, FillingEntry
<1>0. /\ store \in [Keys -> {None} \cup CachedEntry]
      /\ filling \in [Callers -> {Idle} \cup FillingEntry]
  BY DEF TypeOK
<1>1. CASE UNCHANGED vars
  BY <1>1 DEF TypeOK, vars
<1>2. ASSUME NEW w \in Callers, NEW k \in Keys, NEW S \in SUBSET Courses, Get(w, k, S)
      PROVE  TypeOK'
  <2>1. Filling(k, Fresh(S)) \in FillingEntry
    BY FreshType DEF Filling
  <2>2. Evict(k) \in [Courses -> SUBSET Keys]
    BY DEF Evict, TypeOK
  <2>3. filling' \in [Callers -> {Idle} \cup FillingEntry]
    BY <1>0, <1>2, <2>1 DEF Get
  <2>4. store' \in [Keys -> {None} \cup CachedEntry] /\ index' \in [Courses -> SUBSET Keys]
    BY <1>0, <1>2, <2>2 DEF Get, TypeOK
  <2>5. QED
    BY <1>2, <2>3, <2>4 DEF Get, TypeOK
<1>3. ASSUME NEW w \in Callers, Set(w) PROVE TypeOK'
  <2>1. filling[w] \in FillingEntry
    BY <1>0, <1>3, FreeStates DEF Set
  <2>2. filling[w].key \in Keys /\ filling[w].answer \in Answer
    BY <2>1
  <2>3. Entry(filling[w].answer) \in CachedEntry
    BY <2>2 DEF Entry, TypeOK
  <2>4. store' \in [Keys -> {None} \cup CachedEntry] /\ index' \in [Courses -> SUBSET Keys]
    BY <1>0, <1>3, <2>2, <2>3 DEF Set, TypeOK
  <2>5. filling' \in [Callers -> {Idle} \cup FillingEntry]
    BY <1>0, <1>3 DEF Set
  <2>6. QED
    BY <1>3, <2>4, <2>5 DEF Set, TypeOK
<1>4. ASSUME NEW w \in Callers, Abandon(w) PROVE TypeOK'
  BY <1>4 DEF Abandon, TypeOK
<1>5. ASSUME NEW c \in Courses, InvalidateCourse(c) PROVE TypeOK'
  <2>1. ASSUME NEW w \in Callers PROVE filling'[w] \in {Idle} \cup FillingEntry
    <3>1. CASE filling[w].busy /\ c \in filling[w].answer.outdated
      <4>1. filling[w] \in FillingEntry
        BY <1>0, <3>1, FreeStates
      <4>2. QED
        BY <1>5, <3>1, <4>1 DEF InvalidateCourse, Answer
    <3>2. CASE ~(filling[w].busy /\ c \in filling[w].answer.outdated)
      BY <1>0, <1>5, <3>2 DEF InvalidateCourse
    <3>3. QED
      BY <3>1, <3>2
  <2>2. filling' \in [Callers -> {Idle} \cup FillingEntry]
    BY <1>5, <2>1 DEF InvalidateCourse
  <2>3. store' \in [Keys -> {None} \cup CachedEntry] /\ index' \in [Courses -> SUBSET Keys]
    BY <1>0, <1>5 DEF InvalidateCourse, TypeOK
  <2>4. QED
    BY <1>5, <2>2, <2>3 DEF InvalidateCourse, TypeOK
<1>6. ASSUME NEW c \in Courses, UpdateCourse(c) PROVE TypeOK'
  <2>1. ASSUME NEW w \in Callers PROVE filling'[w] \in {Idle} \cup FillingEntry
    <3>1. CASE filling[w].busy
      <4>1. filling[w] \in FillingEntry
        BY <1>0, <3>1, FreeStates
      <4>2. QED
        BY <1>6, <3>1, <4>1, OutdateType DEF UpdateCourse
    <3>2. CASE ~filling[w].busy
      BY <1>6, <3>2 DEF UpdateCourse
    <3>3. QED
      BY <3>1, <3>2
  <2>2. ASSUME NEW k \in Keys PROVE store'[k] \in {None} \cup CachedEntry
    <3>1. CASE store[k].stored
      <4>1. store[k] \in CachedEntry
        BY <1>0, <3>1, FreeStates
      <4>2. QED
        BY <1>6, <3>1, <4>1, OutdateType DEF UpdateCourse
    <3>2. CASE ~store[k].stored
      BY <1>6, <3>2 DEF UpdateCourse
    <3>3. QED
      BY <3>1, <3>2
  <2>3. /\ filling' \in [Callers -> {Idle} \cup FillingEntry]
        /\ store' \in [Keys -> {None} \cup CachedEntry]
    BY <1>6, <2>1, <2>2 DEF UpdateCourse
  <2>4. QED
    BY <1>6, <2>3 DEF UpdateCourse, TypeOK
<1>7. CASE Flush
  BY <1>7 DEF Flush, TypeOK
<1>8. CASE Tick
  <2>1. now' \in 0..MaxTime
    BY <1>8 DEF Tick, TypeOK
  <2>2. QED
    BY <1>8, <2>1 DEF Tick, TypeOK
<1>9. QED
  BY <1>1, <1>2, <1>3, <1>4, <1>5, <1>6, <1>7, <1>8 DEF Next

\* The cache, its index and the fills under way keep their types.
THEOREM TypeCorrect == Spec => []TypeOK
<1>1. Init => TypeOK
  BY InitTypeOK
<1>2. TypeOK /\ [Next]_vars => TypeOK'
  BY NextTypeOK
<1>3. QED
  BY <1>1, <1>2, PTL DEF Spec
-----------------------------------------------------------------------------
(* The inductive invariant.  An answer is outdated only in its own courses, *)
(* so an invalidation, which finds every entry of the course through the    *)
(* index, leaves no entry that is outdated in it; and a fill under way is   *)
(* outdated as an entry is, or Set could store one that is not covered.     *)

Covered(a) == a.outdated \subseteq a.courses /\ a.outdated \subseteq pending \cup a.missed

CacheInv ==
  /\ TypeOK
  /\ IndexCoversStore
  /\ \A k \in Keys : store[k].stored => Covered(store[k].answer)
  /\ \A w \in Callers : filling[w].busy => Covered(filling[w].answer)

LEMMA InitCacheInv == Init => CacheInv
  BY InitTypeOK, FreeStates DEF Init, CacheInv, IndexCoversStore

LEMMA NextCacheInv == CacheInv /\ [Next]_vars => CacheInv'
<1> SUFFICES ASSUME CacheInv, [Next]_vars PROVE CacheInv'
  OBVIOUS
<1>0. /\ TypeOK /\ TypeOK'
      /\ store \in [Keys -> {None} \cup CachedEntry]
      /\ filling \in [Callers -> {Idle} \cup FillingEntry]
      /\ index \in [Courses -> SUBSET Keys]
  BY NextTypeOK DEF CacheInv, TypeOK, CachedEntry, FillingEntry
<1>a. \A k \in Keys : store[k].stored => store[k] \in CachedEntry /\ store[k].answer \in Answer
  BY <1>0, FreeStates DEF CachedEntry
<1>b. \A w \in Callers : filling[w].busy =>
        /\ filling[w] \in FillingEntry
        /\ filling[w].key \in Keys
        /\ filling[w].answer \in Answer
  BY <1>0, FreeStates DEF FillingEntry
<1>1. CASE UNCHANGED vars
  BY <1>0, <1>1 DEF CacheInv, IndexCoversStore, Covered, vars
<1>2. ASSUME NEW w \in Callers, NEW k \in Keys, NEW S \in SUBSET Courses, Get(w, k, S)
      PROVE  CacheInv'
  <2>1. ASSUME NEW j \in Keys, store'[j].stored
        PROVE  store[j].stored /\ store'[j] = store[j] /\ \A c \in Courses : j \in index[c] => j \in index'[c]
    BY <1>0, <1>2, <2>1, FreeStates DEF Get, Evict
  <2>2. IndexCoversStore'
    BY <1>a, <2>1 DEF CacheInv, IndexCoversStore, Answer
  <2>3. \A j \in Keys : store'[j].stored => Covered(store[j].answer)'
    BY <1>2, <2>1 DEF CacheInv, Covered, Get
  <2>4. ASSUME NEW v \in Callers, filling'[v].busy PROVE Covered(filling[v].answer)'
    <3>1. CASE v = w
      BY <1>0, <1>2, <3>1 DEF Get, Covered, Filling, Fresh
    <3>2. CASE v # w
      BY <1>0, <1>2, <2>4, <3>2 DEF Get, Covered, CacheInv
    <3>3. QED
      BY <3>1, <3>2
  <2>5. QED
    BY <1>0, <2>2, <2>3, <2>4 DEF CacheInv
<1>3. ASSUME NEW w \in Callers, Set(w) PROVE CacheInv'
  <2> DEFINE k == filling[w].key
             a == filling[w].answer
  <2>1. k \in Keys /\ a \in Answer /\ filling[w].busy
    BY <1>3, <1>b DEF Set
  <2>2. /\ store' = [store EXCEPT ![k] = Entry(a)]
        /\ index' = [c \in Courses |-> IF c \in a.courses THEN index[c] \cup {k} ELSE index[c]]
        /\ filling' = [filling EXCEPT ![w] = Idle]
        /\ pending' = pending
    BY <1>3 DEF Set
  <2> HIDE DEF k, a
  <2>3. store'[k] = Entry(a) /\ Entry(a).answer = a
    BY <1>0, <2>1, <2>2 DEF Entry
  <2>4. \A j \in Keys : j # k => store'[j] = store[j]
    BY <1>0, <2>2
  <2>5. \A c \in Courses : index[c] \subseteq index'[c] /\ (c \in a.courses => k \in index'[c])
    BY <2>2
  <2>6. IndexCoversStore'
    <3> SUFFICES ASSUME NEW j \in Keys, store'[j].stored, NEW c \in store'[j].answer.courses
                 PROVE  j \in index'[c]
      BY DEF IndexCoversStore
    <3>1. CASE j = k
      BY <2>1, <2>3, <2>5, <3>1 DEF Answer
    <3>2. CASE j # k
      BY <1>a, <2>4, <2>5, <3>2 DEF CacheInv, IndexCoversStore, Answer
    <3>3. QED
      BY <3>1, <3>2
  <2>7. Covered(a)
    BY <1>3, <2>1 DEF CacheInv, a
  <2>8. \A j \in Keys : store'[j].stored => Covered(store[j].answer)'
    BY <2>2, <2>3, <2>4, <2>7 DEF CacheInv, Covered
  <2>9. \A v \in Callers : filling'[v].busy => Covered(filling[v].answer)'
    BY <1>0, <2>2, FreeStates DEF CacheInv, Covered
  <2>10. QED
    BY <1>0, <2>6, <2>8, <2>9 DEF CacheInv
<1>4. ASSUME NEW w \in Callers, Abandon(w) PROVE CacheInv'
  BY <1>0, <1>4, FreeStates DEF Abandon, CacheInv, IndexCoversStore, Covered
<1>5. ASSUME NEW c \in Courses, InvalidateCourse(c) PROVE CacheInv'
  \* What is left has lost nothing: it is not about c.
  <2>1. ASSUME NEW k \in Keys, store'[k].stored
        PROVE  /\ store'[k] = store[k] /\ store[k].stored
               /\ c \notin store[k].answer.courses
    BY <1>5, <2>1, FreeStates DEF InvalidateCourse, CacheInv, IndexCoversStore
  <2>2. IndexCoversStore'
    BY <1>0, <1>5, <2>1 DEF InvalidateCourse, CacheInv, IndexCoversStore
  <2>3. \A k \in Keys : store'[k].stored => Covered(store[k].answer)'
    BY <1>5, <2>1 DEF InvalidateCourse, CacheInv, Covered
  <2>4. ASSUME NEW w \in Callers, filling'[w].busy PROVE Covered(filling[w].answer)'
    <3>1. CASE filling[w].busy /\ c \in filling[w].answer.outdated
      <4>1. filling[w] \in FillingEntry /\ filling[w].answer \in Answer
        BY <1>b, <3>1
      <4>2. filling'[w] = [filling[w] EXCEPT !.answer.missed = @ \cup {c}]
        BY <1>5, <3>1 DEF InvalidateCourse
      <4>3. /\ filling'[w].answer.outdated = filling[w].answer.outdated
            /\ filling'[w].answer.courses = filling[w].answer.courses
            /\ filling'[w].answer.missed = filling[w].answer.missed \cup {c}
        BY <4>1, <4>2 DEF FillingEntry, Answer
      <4>4. QED
        BY <1>5, <3>1, <4>3 DEF InvalidateCourse, CacheInv, Covered
    <3>2. CASE ~(filling[w].busy /\ c \in filling[w].answer.outdated)
      BY <1>5, <2>4, <3>2 DEF InvalidateCourse, CacheInv, Covered
    <3>3. QED
      BY <3>1, <3>2
  <2>5. QED
    BY <1>0, <2>2, <2>3, <2>4 DEF CacheInv
<1>6. ASSUME NEW c \in Courses, UpdateCourse(c) PROVE CacheInv'
  <2>1. ASSUME NEW k \in Keys, store'[k].stored
        PROVE  store[k].stored /\ store'[k].answer = Outdate(store[k].answer, c)
    <3>1. store[k].stored
      BY <1>6, <2>1, FreeStates DEF UpdateCourse
    <3>2. store[k] \in CachedEntry
      BY <1>a, <3>1
    <3>3. QED
      BY <1>6, <3>1, <3>2 DEF UpdateCourse, CachedEntry
  <2>2. ASSUME NEW w \in Callers, filling'[w].busy
        PROVE  filling[w].busy /\ filling'[w].answer = Outdate(filling[w].answer, c)
    <3>1. filling[w].busy
      BY <1>6, <2>2, FreeStates DEF UpdateCourse
    <3>2. filling[w] \in FillingEntry
      BY <1>b, <3>1
    <3>3. QED
      BY <1>6, <3>1, <3>2 DEF UpdateCourse, FillingEntry
  <2>3. ASSUME NEW a \in Answer, Covered(a)
        PROVE  /\ Outdate(a, c).outdated \subseteq Outdate(a, c).courses
               /\ Outdate(a, c).outdated \subseteq pending' \cup Outdate(a, c).missed
    BY <1>6, <2>3, OutdateType DEF UpdateCourse, Covered
  <2>4. IndexCoversStore'
    BY <1>6, <1>a, <2>1, OutdateType DEF UpdateCourse, CacheInv, IndexCoversStore
  <2>5. \A k \in Keys : store'[k].stored => Covered(store[k].answer)'
    BY <1>a, <2>1, <2>3 DEF CacheInv, Covered
  <2>6. \A w \in Callers : filling'[w].busy => Covered(filling[w].answer)'
    BY <1>b, <2>2, <2>3 DEF CacheInv, Covered
  <2>7. QED
    BY <1>0, <2>4, <2>5, <2>6 DEF CacheInv
<1>7. CASE Flush
  BY <1>0, <1>7, FreeStates DEF Flush, CacheInv, IndexCoversStore, Covered
<1>8. CASE Tick
  BY <1>0, <1>8 DEF Tick, CacheInv, IndexCoversStore, Covered
<1>9. QED
  BY <1>1, <1>2, <1>3, <1>4, <1>5, <1>6, <1>7, <1>8 DEF Next

\* Evictions, overwrites and invalidations in any order: the index of every
\* course an entry is about has the entry's key.
THEOREM IndexIsComplete == Spec => []IndexCoversStore
<1>1. Init => CacheInv
  BY InitCacheInv
<1>2. CacheInv /\ [Next]_vars => CacheInv'
  BY NextCacheInv
<1>3. CacheInv => IndexCoversStore
  BY DEF CacheInv
<1>4. QED
  BY <1>1, <1>2, <1>3, PTL DEF Spec

\* An answer in the cache is out of date in a course only while the course's
\* event is on its way or after a fill that raced with it.
THEOREM StaleAnswersExplained == Spec => []StaleOnlyFromRacingFill
<1>1. Init => CacheInv
  BY InitCacheInv
<1>2. CacheInv /\ [Next]_vars => CacheInv'
  BY NextCacheInv
<1>3. CacheInv => StaleOnlyFromRacingFill
  BY DEF CacheInv, Covered, StaleOnlyFromRacingFill
<1>4. QED
  BY <1>1, <1>2, <1>3, PTL DEF Spec
=============================================================================
