-------------------------- MODULE Components_proofs --------------------------
(***************************************************************************)
(* The chat tab with the limiter, graceful degradation, the gap analysis   *)
(* and the schedule solver, for any messages, tokens, limits, tools and    *)
(* requests, and the types of all four components.                         *)
(***************************************************************************)
EXTENDS Components, ResponseCache_proofs, Filter, NatInduction, SequenceTheorems,
        FiniteSetTheorems

-----------------------------------------------------------------------------
(* What a comprehension keeps. *)

LEMMA SeqFacts ==
  ASSUME NEW S, NEW s \in Seq(S)
  PROVE  /\ Len(s) \in Nat /\ DOMAIN s = 1..Len(s)
         /\ \A i \in 1..Len(s) : s[i] \in S
  BY LenProperties

LEMMA AppendFacts ==
  ASSUME NEW S, NEW s \in Seq(S), NEW e \in S
  PROVE  /\ Append(s, e) \in Seq(S)
         /\ Len(Append(s, e)) = Len(s) + 1
         /\ \A i \in 1..Len(s) : Append(s, e)[i] = s[i]
         /\ Append(s, e)[Len(s) + 1] = e
  BY AppendProperties

\* A set of sequences that holds the empty one, and every one that is longer
\* by an element than one it holds, has all.
LEMMA SeqInduction ==
  ASSUME NEW S, NEW T, <<>> \in T,
         \A s \in Seq(S) : \A e \in S : s \in T => Append(s, e) \in T
  PROVE  Seq(S) \subseteq T
<1> DEFINE N == {n \in Nat : \A s \in Seq(S) : Len(s) = n => s \in T}
<1>1. 0 \in N
  BY EmptySeq, SeqFacts
<1>2. ASSUME NEW n \in Nat, n \in N PROVE n + 1 \in N
  <2>1. SUFFICES ASSUME NEW s \in Seq(S), Len(s) = n + 1 PROVE s \in T
    OBVIOUS
  <2> DEFINE p == [i \in 1..n |-> s[i]]
  <2>2. p \in Seq(S) /\ Len(p) = n
    BY <2>1, SeqFacts
  <2>3. s[n + 1] \in S
    BY <2>1, SeqFacts
  <2>4. p \in T
    BY <1>2, <2>2
  <2>5. Append(p, s[n + 1]) \in T
    <3> HIDE DEF p
    <3> QED BY <2>2, <2>3, <2>4
  <2>6. \A i \in 1..Len(s) : s[i] = Append(p, s[n + 1])[i]
    <3>1. \A i \in 1..n : p[i] = s[i]
      OBVIOUS
    <3> HIDE DEF p
    <3> QED BY <2>1, <2>2, <2>3, <3>1, AppendFacts
  <2>7. s = Append(p, s[n + 1])
    <3> HIDE DEF p
    <3>1. Append(p, s[n + 1]) \in Seq(S) /\ Len(Append(p, s[n + 1])) = Len(s)
      BY <2>1, <2>2, <2>3, AppendFacts
    <3> QED BY <2>6, <3>1, SeqEqual
  <2> QED BY <2>5, <2>7
<1>3. Nat \subseteq N
  <2> HIDE DEF N
  <2> QED BY <1>1, <1>2, SetInduction
<1>4. ASSUME NEW s \in Seq(S) PROVE s \in T
  <2>1. Len(s) \in N
    BY <1>3, SeqFacts
  <2> QED BY <2>1
<1> QED BY <1>4

\* f is the recursive function of Kept up to n.
Keeps(f, s, keep, n) ==
  f = [k \in 0..n |-> IF k = 0 THEN <<>>
                      ELSE IF s[k] \in keep THEN Append(f[k - 1], s[k]) ELSE f[k - 1]]

LEMMA KeepsExists ==
  ASSUME NEW s, NEW keep
  PROVE  \A n \in Nat : \E f : Keeps(f, s, keep, n)
<1> DEFINE S == {n \in Nat : \E f : Keeps(f, s, keep, n)}
           Step(x, i) == IF s[i] \in keep THEN Append(x, s[i]) ELSE x
<1>1. 0 \in S
  <2> DEFINE f == [k \in 0..0 |-> <<>>]
  <2>1. Keeps(f, s, keep, 0)
    BY DEF Keeps
  <2> QED BY <2>1
<1>2. ASSUME NEW k \in Nat, k \in S PROVE k + 1 \in S
  <2>1. PICK f : Keeps(f, s, keep, k)
    BY <1>2
  <2>2. \A i \in 0..k : f[i] = IF i = 0 THEN <<>> ELSE Step(f[i - 1], i)
    BY <2>1 DEF Keeps
  <2> DEFINE h == [i \in 0..(k + 1) |-> IF i = k + 1 THEN Step(f[k], i) ELSE f[i]]
  <2>3. ASSUME NEW i \in 0..(k + 1)
        PROVE  h[i] = IF i = 0 THEN <<>> ELSE Step(h[i - 1], i)
    <3>1. CASE i = 0
      <4>1. h[0] = f[0] /\ f[0] = <<>>
        BY <2>2
      <4> HIDE DEF h
      <4> QED BY <3>1, <4>1
    <3>2. CASE i \in 1..k
      <4>1. i # 0 /\ i # k + 1 /\ i - 1 # k + 1 /\ i - 1 \in 0..(k + 1) /\ i \in 0..k
        BY <3>2
      <4>2. h[i] = f[i] /\ h[i - 1] = f[i - 1]
        BY <4>1
      <4> HIDE DEF h
      <4> QED BY <4>1, <4>2, <2>2
    <3>3. CASE i = k + 1
      <4>1. i # 0 /\ i - 1 = k /\ k \in 0..(k + 1) /\ k # k + 1
        BY <3>3
      <4>2. h[i] = Step(f[k], i) /\ h[i - 1] = f[k]
        BY <4>1, <3>3
      <4> HIDE DEF h
      <4> QED BY <4>1, <4>2
    <3> QED BY <3>1, <3>2, <3>3
  <2>4. h = [i \in 0..(k + 1) |-> h[i]]
    OBVIOUS
  <2>5. Keeps(h, s, keep, k + 1)
    <3> HIDE DEF h
    <3> QED BY <2>3, <2>4 DEF Keeps, Step
  <2> HIDE DEF h
  <2> QED BY <2>5
<1>3. Nat \subseteq S
  <2> HIDE DEF S
  <2> QED BY <1>1, <1>2, SetInduction
<1> QED BY <1>3

\* The same for all of s, and without the function's domain.
Follows(f, s, keep) ==
  /\ f[0] = <<>>
  /\ \A i \in 1..Len(s) :
       f[i] = IF s[i] \in keep THEN Append(f[i - 1], s[i]) ELSE f[i - 1]

LEMMA KeptIs ==
  ASSUME NEW S, NEW s \in Seq(S), NEW keep
  PROVE  \E f : Follows(f, s, keep) /\ Kept(s, keep) = f[Len(s)]
<1> DEFINE kept == CHOOSE f : Keeps(f, s, keep, Len(s))
<1>0. Len(s) \in Nat
  BY SeqFacts
<1>1. Keeps(kept, s, keep, Len(s))
  BY <1>0, KeepsExists
<1>2. Kept(s, keep) = kept[Len(s)]
  BY DEF Kept, Keeps
<1> HIDE DEF kept
<1>3. kept[0] = <<>>
  BY <1>0, <1>1 DEF Keeps
<1>4. \A i \in 1..Len(s) :
        kept[i] = IF s[i] \in keep THEN Append(kept[i - 1], s[i]) ELSE kept[i - 1]
  <2> TAKE i \in 1..Len(s)
  <2>1. i \in 0..Len(s) /\ i # 0
    BY <1>0
  <2> QED BY <1>1, <2>1 DEF Keeps
<1> QED BY <1>2, <1>3, <1>4 DEF Follows

LEMMA KeptEmpty ==
  ASSUME NEW keep
  PROVE  Kept(<<>>, keep) = <<>>
<1>1. <<>> \in Seq({}) /\ Len(<<>>) = 0
  BY EmptySeq
<1>2. PICK f : Follows(f, <<>>, keep) /\ Kept(<<>>, keep) = f[Len(<<>>)]
  BY <1>1, KeptIs
<1> QED BY <1>1, <1>2 DEF Follows

LEMMA KeptAppend ==
  ASSUME NEW S, NEW s \in Seq(S), NEW e \in S, NEW keep
  PROVE  Kept(Append(s, e), keep) =
           IF e \in keep THEN Append(Kept(s, keep), e) ELSE Kept(s, keep)
<1> DEFINE p == Append(s, e)
           N == Len(s)
<1>0. /\ p \in Seq(S) /\ Len(p) = N + 1 /\ N \in Nat
      /\ \A i \in 1..N : p[i] = s[i]
      /\ p[N + 1] = e
  BY AppendFacts, SeqFacts
<1>1. PICK f : Follows(f, s, keep) /\ Kept(s, keep) = f[N]
  BY KeptIs
<1>1a. /\ f[0] = <<>>
       /\ \A i \in 1..N :
            f[i] = IF s[i] \in keep THEN Append(f[i - 1], s[i]) ELSE f[i - 1]
  BY <1>1 DEF Follows
<1> HIDE DEF p
<1>2. PICK h : Follows(h, p, keep) /\ Kept(p, keep) = h[Len(p)]
  BY <1>0, KeptIs
<1>2a. /\ h[0] = <<>>
       /\ \A i \in 1..Len(p) :
            h[i] = IF p[i] \in keep THEN Append(h[i - 1], p[i]) ELSE h[i - 1]
  BY <1>2 DEF Follows
<1> HIDE DEF N
<1> DEFINE T == {i \in Nat : i <= N => f[i] = h[i]}
<1>3. 0 \in T
  BY <1>1a, <1>2a
<1>4. ASSUME NEW i \in Nat, i \in T PROVE i + 1 \in T
  <2>1. SUFFICES ASSUME i + 1 <= N PROVE f[i + 1] = h[i + 1]
    OBVIOUS
  <2>2. i + 1 \in 1..N /\ i + 1 \in 1..Len(p) /\ i + 1 - 1 = i /\ f[i] = h[i]
    BY <1>0, <1>4, <2>1
  <2> QED BY <1>0, <1>1a, <1>2a, <2>2
<1>5. Nat \subseteq T
  <2> HIDE DEF T
  <2> QED BY <1>3, <1>4, SetInduction
<1>6. f[N] = h[N]
  BY <1>0, <1>5
<1>7. Len(p) \in 1..Len(p) /\ Len(p) - 1 = N
  BY <1>0
<1>8. h[N + 1] = IF e \in keep THEN Append(h[N], e) ELSE h[N]
  BY <1>0, <1>2a, <1>7
<1> QED BY <1>0, <1>1, <1>2, <1>6, <1>8 DEF p

\* What is kept is in the set, and of the sequence.
LEMMA KeptType ==
  ASSUME NEW S, NEW s \in Seq(S), NEW keep
  PROVE  /\ Kept(s, keep) \in Seq(S) /\ Kept(s, keep) \in Seq(S \cap keep)
         /\ Len(Kept(s, keep)) <= Len(s)
<1> DEFINE T == {t \in Seq(S) : /\ Kept(t, keep) \in Seq(S \cap keep)
                                /\ Len(Kept(t, keep)) <= Len(t)}
<1>1. <<>> \in T
  <2>1. Kept(<<>>, keep) = <<>>
    BY KeptEmpty
  <2>2. <<>> \in Seq(S) /\ <<>> \in Seq(S \cap keep) /\ Len(<<>>) = 0
    BY EmptySeq
  <2>3. Kept(<<>>, keep) \in Seq(S \cap keep)
    BY <2>1, <2>2
  <2>4. Len(Kept(<<>>, keep)) <= Len(<<>>)
    BY <2>1, <2>2
  <2> QED BY <2>2, <2>3, <2>4
<1>2. ASSUME NEW t \in Seq(S), NEW e \in S, t \in T PROVE Append(t, e) \in T
  <2>1. Append(t, e) \in Seq(S) /\ Len(Append(t, e)) = Len(t) + 1 /\ Len(t) \in Nat
    BY AppendFacts, SeqFacts
  <2>2. Kept(t, keep) \in Seq(S \cap keep) /\ Len(Kept(t, keep)) \in Nat
    BY <1>2, SeqFacts
  <2>3. CASE e \in keep
    <3>1. Kept(Append(t, e), keep) = Append(Kept(t, keep), e)
      BY <2>3, KeptAppend
    <3>2. /\ Append(Kept(t, keep), e) \in Seq(S \cap keep)
          /\ Len(Append(Kept(t, keep), e)) = Len(Kept(t, keep)) + 1
      BY <2>2, <2>3, AppendFacts
    <3> QED BY <1>2, <2>1, <2>2, <3>1, <3>2
  <2>4. CASE e \notin keep
    <3>1. Kept(Append(t, e), keep) = Kept(t, keep)
      BY <2>4, KeptAppend
    <3> QED BY <1>2, <2>1, <2>2, <3>1
  <2> QED BY <2>3, <2>4
<1>3. Seq(S) \subseteq T
  <2> HIDE DEF T
  <2> QED BY <1>1, <1>2, SeqInduction
<1>4. Kept(s, keep) \in Seq(S \cap keep) /\ Len(Kept(s, keep)) <= Len(s)
  BY <1>3
<1>5. Kept(s, keep) \in Seq(S)
  BY <1>4, SeqMonotonic
<1> QED BY <1>4, <1>5

\* Keeping twice is keeping what is in both sets.
LEMMA KeptTwice ==
  ASSUME NEW S, NEW s \in Seq(S), NEW keep, NEW more, keep \cap S \subseteq more
  PROVE  Kept(Kept(s, more), keep) = Kept(s, keep)
<1> DEFINE T == {t \in Seq(S) : Kept(Kept(t, more), keep) = Kept(t, keep)}
<1>1. <<>> \in T
  BY EmptySeq, KeptEmpty
<1>2. ASSUME NEW t \in Seq(S), NEW e \in S, t \in T PROVE Append(t, e) \in T
  <2>1. Append(t, e) \in Seq(S)
    BY AppendFacts
  <2>2. Kept(t, more) \in Seq(S)
    BY KeptType
  <2>3. CASE e \in keep
    <3>1. Kept(Append(t, e), keep) = Append(Kept(t, keep), e)
      BY <2>3, KeptAppend
    <3>2. Kept(Append(t, e), more) = Append(Kept(t, more), e)
      BY <2>3, KeptAppend
    <3>3. Kept(Append(Kept(t, more), e), keep) = Append(Kept(Kept(t, more), keep), e)
      BY <2>2, <2>3, KeptAppend
    <3> QED BY <1>2, <2>1, <3>1, <3>2, <3>3
  <2>4. CASE e \notin keep /\ e \in more
    <3>1. Kept(Append(t, e), keep) = Kept(t, keep)
      BY <2>4, KeptAppend
    <3>2. Kept(Append(t, e), more) = Append(Kept(t, more), e)
      BY <2>4, KeptAppend
    <3>3. Kept(Append(Kept(t, more), e), keep) = Kept(Kept(t, more), keep)
      BY <2>2, <2>4, KeptAppend
    <3> QED BY <1>2, <2>1, <3>1, <3>2, <3>3
  <2>5. CASE e \notin keep /\ e \notin more
    <3>1. Kept(Append(t, e), keep) = Kept(t, keep)
      BY <2>5, KeptAppend
    <3>2. Kept(Append(t, e), more) = Kept(t, more)
      BY <2>5, KeptAppend
    <3> QED BY <1>2, <2>1, <3>1, <3>2
  <2> QED BY <2>3, <2>4, <2>5
<1>3. Seq(S) \subseteq T
  <2> HIDE DEF T
  <2> QED BY <1>1, <1>2, SeqInduction
<1> QED BY <1>3

\* What is in the set is kept.
LEMMA KeptAll ==
  ASSUME NEW S, NEW s \in Seq(S), NEW keep, NEW i \in 1..Len(s), s[i] \in keep
  PROVE  \E j \in 1..Len(Kept(s, keep)) : Kept(s, keep)[j] = s[i]
<1> DEFINE Has(t, x) == \E j \in 1..Len(t) : t[j] = x
           T == {t \in Seq(S) : \A k \in 1..Len(t) :
                   t[k] \in keep => Has(Kept(t, keep), t[k])}
<1>1. <<>> \in T
  BY EmptySeq
<1>2. ASSUME NEW t \in Seq(S), NEW e \in S, t \in T PROVE Append(t, e) \in T
  <2> DEFINE p == Append(t, e)
             q == Kept(t, keep)
  <2>1. /\ p \in Seq(S) /\ Len(p) = Len(t) + 1 /\ Len(t) \in Nat
        /\ \A k \in 1..Len(t) : p[k] = t[k]
        /\ p[Len(t) + 1] = e
    BY AppendFacts, SeqFacts
  <2>2. q \in Seq(S) /\ Len(q) \in Nat
    BY KeptType, SeqFacts
  <2>3. Kept(p, keep) = IF e \in keep THEN Append(q, e) ELSE q
    BY KeptAppend
  <2> HIDE DEF p, q
  <2>4. /\ Len(Append(q, e)) = Len(q) + 1
        /\ \A k \in 1..Len(q) : Append(q, e)[k] = q[k]
        /\ Append(q, e)[Len(q) + 1] = e
    BY <2>2, AppendFacts
  <2>5. ASSUME NEW k \in 1..Len(p), p[k] \in keep PROVE Has(Kept(p, keep), p[k])
    <3>1. CASE k \in 1..Len(t)
      <4>1. PICK j \in 1..Len(q) : q[j] = t[k]
        BY <1>2, <2>1, <2>5, <3>1 DEF q
      <4>2. j \in 1..Len(Append(q, e)) /\ Append(q, e)[j] = t[k]
        BY <2>2, <2>4, <4>1
      <4> QED BY <2>1, <2>3, <3>1, <4>1, <4>2
    <3>2. CASE k = Len(t) + 1
      <4>1. e \in keep /\ p[k] = e
        BY <2>1, <2>5, <3>2
      <4>2. Len(q) + 1 \in 1..Len(Append(q, e))
        BY <2>2, <2>4
      <4> QED BY <2>3, <2>4, <4>1, <4>2
    <3> QED BY <2>1, <3>1, <3>2
  <2> QED BY <2>1, <2>5 DEF p
<1>3. Seq(S) \subseteq T
  <2> HIDE DEF T
  <2> QED BY <1>1, <1>2, SeqInduction
<1> QED BY <1>3

-----------------------------------------------------------------------------
(* The chat tab and the limiter: types. *)

LEMMA Bounds ==
  /\ MaxRetries \in Nat /\ MaxCalls \in Nat
  /\ Rpm \in Nat /\ Window \in Nat /\ MaxMessages \in Nat /\ ChatTime \in Nat
  BY ComponentsAssumption

LEMMA ChatKept ==
  ASSUME NEW s, NEW keep
  PROVE  Chat!Kept(s, keep) = Kept(s, keep)
  BY DEF Chat!Kept, Kept

Post == [token : Tokens, stage : Chat!Stages]

\* The times at which a request still counts at n.
Within(n) == {t \in 0..n : t + Window > n}

\* Stronger than the types: the limiter knows no later time than now.
TimesOK ==
  /\ requests \in [Tokens -> Seq(0..clock)] /\ accepted \in [Tokens -> Seq(0..clock)]
  /\ clock \in 0..ChatTime

TabOK ==
  /\ token \in Tokens \cup {""}
  /\ post \in Seq(Post) /\ Len(post) <= MaxMessages
  /\ list \in Seq([by : {"user", "agent", "error"}, of : 1..Len(post)])
  /\ loading \in BOOLEAN
  /\ abortRef \in 0..Len(post)
  /\ expired \subseteq Tokens
  /\ orphaned \subseteq 1..Len(post)

LEMMA ChatInit == ComponentsInit => Chat!Init
  BY DEF ComponentsInit

LEMMA ChatStep ==
  [ComponentsNext]_componentsVars => Chat!Next \/ UNCHANGED chatVars
  BY DEF ComponentsNext, componentsVars

LEMMA TypesOfChat == TabOK /\ TimesOK => Chat!TypeOK
<1> SUFFICES ASSUME TabOK, TimesOK PROVE Chat!TypeOK
  OBVIOUS
<1>1. DOMAIN post = 1..Len(post) /\ Len(post) \in Nat
  BY SeqFacts DEF TabOK
<1>2. 0..clock \subseteq 0..ChatTime
  BY Bounds DEF TimesOK
<1>3. \A s \in Seq(0..clock) : s \in Seq(0..ChatTime)
  BY <1>2, SeqMonotonic
<1>4. requests \in [Tokens -> Seq(0..ChatTime)] /\ accepted \in [Tokens -> Seq(0..ChatTime)]
  BY <1>3 DEF TimesOK
<1>5. list \in Seq([by : {"user", "agent", "error"}, of : DOMAIN post])
  BY <1>1 DEF TabOK
<1>6. abortRef \in {0} \cup DOMAIN post
  <2>1. abortRef \in 0..Len(post) /\ Len(post) \in Nat
    BY <1>1 DEF TabOK
  <2>2. abortRef = 0 \/ abortRef \in 1..Len(post)
    BY <2>1
  <2> QED BY <1>1, <2>2
<1>7. {requests, accepted} \subseteq [Tokens -> Seq(0..ChatTime)]
  BY <1>4
<1> QED BY <1>1, <1>5, <1>6, <1>7 DEF Chat!TypeOK, TabOK, TimesOK, Post

\* What Admit does to a token's times.
LEMMA AdmitFacts ==
  ASSUME TimesOK, NEW k \in Tokens, Chat!Admit(k)
  PROVE  /\ Chat!Recent(k) = Kept(requests[k], Within(clock))
         /\ Chat!Recent(k) \in Seq(0..clock)
         /\ requests' = [requests EXCEPT ![k] = IF Chat!Limited(k) THEN Chat!Recent(k)
                                                ELSE Append(Chat!Recent(k), clock)]
         /\ accepted' = [accepted EXCEPT ![k] = IF Chat!Limited(k) THEN accepted[k]
                                                ELSE Append(accepted[k], clock)]
         /\ expired' = expired /\ clock' = clock
         /\ TimesOK'
<1>1. Chat!Recent(k) = Kept(requests[k], Within(clock))
  BY ChatKept DEF Chat!Recent, Within
<1>2. requests[k] \in Seq(0..clock) /\ accepted[k] \in Seq(0..clock) /\ clock \in 0..clock
  BY Bounds DEF TimesOK
<1>3. Chat!Recent(k) \in Seq(0..clock)
  BY <1>1, <1>2, KeptType
<1>4. /\ Append(Chat!Recent(k), clock) \in Seq(0..clock)
      /\ Append(accepted[k], clock) \in Seq(0..clock)
  BY <1>2, <1>3, AppendFacts
<1>5. /\ requests' = [requests EXCEPT ![k] = IF Chat!Limited(k) THEN Chat!Recent(k)
                                             ELSE Append(Chat!Recent(k), clock)]
      /\ accepted' = [accepted EXCEPT ![k] = IF Chat!Limited(k) THEN accepted[k]
                                             ELSE Append(accepted[k], clock)]
      /\ expired' = expired /\ clock' = clock
  BY DEF Chat!Admit
<1>6. TimesOK'
  BY <1>2, <1>3, <1>4, <1>5 DEF TimesOK
<1> QED BY <1>1, <1>3, <1>5, <1>6

\* A POST goes on to another stage.
LEMMA StageFacts ==
  ASSUME post \in Seq(Post), NEW m \in DOMAIN post, NEW x \in Chat!Stages,
         post' = [post EXCEPT ![m].stage = x]
  PROVE  /\ post' \in Seq(Post) /\ Len(post') = Len(post)
         /\ DOMAIN post = 1..Len(post) /\ DOMAIN post' = 1..Len(post) /\ Len(post) \in Nat
         /\ post'[m].stage = x
         /\ \A i \in 1..Len(post) : /\ i # m => post'[i] = post[i]
                                    /\ post'[i].token = post[i].token
<1>1. m \in 1..Len(post) /\ DOMAIN post = 1..Len(post) /\ Len(post) \in Nat
  BY SeqFacts
<1>2. post[m] \in Post
  BY <1>1, SeqFacts
<1> DEFINE e == [post[m] EXCEPT !.stage = x]
<1>3. e \in Post /\ e.token = post[m].token /\ e.stage = x
  BY <1>2 DEF Post
<1>4. post' = [post EXCEPT ![m] = e]
  OBVIOUS
<1> HIDE DEF e
<1>5. /\ [post EXCEPT ![m] = e] \in Seq(Post) /\ Len([post EXCEPT ![m] = e]) = Len(post)
      /\ \A i \in 1..Len(post) : [post EXCEPT ![m] = e][i] = IF i = m THEN e ELSE post[i]
  BY <1>1, <1>3, ExceptSeq
<1>6. DOMAIN post' = 1..Len(post)
  BY <1>4, <1>5, SeqFacts
<1> QED BY <1>1, <1>3, <1>4, <1>5, <1>6

-----------------------------------------------------------------------------
(* The limiter. *)

\* At every time from now on the limiter counts what passed, and no more than
\* the limit passed in the last window.
LimitInv ==
  /\ TimesOK
  /\ \A k \in Tokens : \A n \in Nat : n >= clock =>
       Kept(requests[k], Within(n)) = Kept(accepted[k], Within(n))
  /\ \A k \in Tokens : Len(Kept(accepted[k], Within(clock))) <= Rpm

LEMMA WithinShrinks ==
  ASSUME NEW c \in Nat, NEW n \in Nat, n >= c
  PROVE  Within(n) \cap (0..c) \subseteq Within(c)
  BY Bounds DEF Within

LEMMA InitLimit == ComponentsInit => LimitInv
<1> SUFFICES ASSUME ComponentsInit PROVE LimitInv
  OBVIOUS
<1>1. /\ requests = [k \in Tokens |-> <<>>] /\ accepted = [k \in Tokens |-> <<>>]
      /\ clock = 0
  BY ChatInit DEF Chat!Init
<1>2. <<>> \in Seq(0..0)
  BY EmptySeq
<1>3. TimesOK
  BY Bounds, <1>1, <1>2 DEF TimesOK
<1>4. ASSUME NEW k \in Tokens PROVE Len(Kept(accepted[k], Within(clock))) <= Rpm
  <2>1. accepted[k] = <<>> /\ Kept(<<>>, Within(clock)) = <<>> /\ Len(<<>>) = 0
    BY <1>1, KeptEmpty, EmptySeq
  <2>2. Kept(accepted[k], Within(clock)) = <<>>
    BY <2>1
  <2> QED BY <2>1, <2>2, Bounds
<1>5. \A k \in Tokens : requests[k] = accepted[k]
  BY <1>1
<1> QED BY <1>3, <1>4, <1>5 DEF LimitInv

LEMMA AdmitLimit ==
  ASSUME LimitInv, NEW k \in Tokens, Chat!Admit(k)
  PROVE  LimitInv'
<1> DEFINE R == Chat!Recent(k)
           A == accepted[k]
           S == 0..clock
<1>0. TimesOK
  BY DEF LimitInv
<1>1. /\ R = Kept(requests[k], Within(clock)) /\ R \in Seq(0..clock)
      /\ requests' = [requests EXCEPT ![k] = IF Chat!Limited(k) THEN R ELSE Append(R, clock)]
      /\ accepted' = [accepted EXCEPT ![k] = IF Chat!Limited(k) THEN A ELSE Append(A, clock)]
      /\ clock' = clock /\ TimesOK'
  BY <1>0, AdmitFacts
<1>2. /\ requests[k] \in Seq(0..clock) /\ A \in Seq(0..clock) /\ clock \in Nat
      /\ clock \in 0..clock
  BY <1>0, Bounds DEF TimesOK
<1>3. /\ requests'[k] = IF Chat!Limited(k) THEN R ELSE Append(R, clock)
      /\ accepted'[k] = IF Chat!Limited(k) THEN A ELSE Append(A, clock)
      /\ \A j \in Tokens : j # k => requests'[j] = requests[j] /\ accepted'[j] = accepted[j]
  BY <1>0, <1>1 DEF TimesOK
<1>4. Kept(A, Within(clock)) = R
  BY <1>1, <1>2 DEF LimitInv
<1>5. Chat!Limited(k) <=> Len(R) >= Rpm
  BY DEF Chat!Limited
<1> HIDE DEF R
<1>s. R \in Seq(S) /\ requests[k] \in Seq(S) /\ A \in Seq(S) /\ clock \in S
  BY <1>1, <1>2
<1>6. ASSUME NEW n \in Nat, n >= clock
      PROVE  Kept(requests'[k], Within(n)) = Kept(accepted'[k], Within(n))
  <2>1. Within(n) \cap S \subseteq Within(clock)
    BY <1>2, <1>6, WithinShrinks
  <2> HIDE DEF S, A
  <2>2. Kept(Kept(requests[k], Within(clock)), Within(n)) = Kept(requests[k], Within(n))
    BY <1>s, <2>1, KeptTwice
  <2>3. Kept(R, Within(n)) = Kept(A, Within(n))
    BY <1>1, <1>6, <2>2 DEF LimitInv, A
  <2>4. Kept(Append(R, clock), Within(n)) =
          IF clock \in Within(n) THEN Append(Kept(R, Within(n)), clock)
                                 ELSE Kept(R, Within(n))
    BY <1>s, KeptAppend
  <2>5. Kept(Append(A, clock), Within(n)) =
          IF clock \in Within(n) THEN Append(Kept(A, Within(n)), clock)
                                 ELSE Kept(A, Within(n))
    BY <1>s, KeptAppend
  <2> QED BY <1>3, <2>3, <2>4, <2>5
<1>7. Len(Kept(accepted'[k], Within(clock))) <= Rpm
  <2>1. CASE Chat!Limited(k)
    BY <1>3, <2>1 DEF LimitInv
  <2>2. CASE ~Chat!Limited(k)
    <3>1. accepted'[k] = Append(A, clock) /\ Len(R) < Rpm /\ Len(R) \in Nat
      BY <1>1, <1>3, <1>5, <2>2, SeqFacts, Bounds
    <3>2. Kept(Append(A, clock), Within(clock)) =
            IF clock \in Within(clock) THEN Append(R, clock) ELSE R
      <4> HIDE DEF S, A
      <4>1. Kept(Append(A, clock), Within(clock)) =
              IF clock \in Within(clock) THEN Append(Kept(A, Within(clock)), clock)
                                         ELSE Kept(A, Within(clock))
        BY <1>s, KeptAppend
      <4> QED BY <1>4, <4>1
    <3>3. Len(Append(R, clock)) = Len(R) + 1
      BY <1>1, <1>2, AppendFacts
    <3> QED BY <3>1, <3>2, <3>3, Bounds
  <2> QED BY <2>1, <2>2
<1> HIDE DEF A
<1>8. \A j \in Tokens : \A n \in Nat : n >= clock' =>
        Kept(requests'[j], Within(n)) = Kept(accepted'[j], Within(n))
  <2> TAKE j \in Tokens, n \in Nat
  <2>1. CASE j = k
    BY <1>1, <1>6, <2>1
  <2>2. CASE j # k
    BY <1>1, <1>3, <2>2 DEF LimitInv
  <2> QED BY <2>1, <2>2
<1>9. \A j \in Tokens : Len(Kept(accepted'[j], Within(clock'))) <= Rpm
  <2> TAKE j \in Tokens
  <2>1. CASE j = k
    BY <1>1, <1>7, <2>1
  <2>2. CASE j # k
    BY <1>1, <1>3, <2>2 DEF LimitInv
  <2> QED BY <2>1, <2>2
<1> QED BY <1>1, <1>8, <1>9 DEF LimitInv, Within

LEMMA TickLimit ==
  ASSUME LimitInv, Chat!Tick
  PROVE  LimitInv'
<1>0. /\ TimesOK /\ clock \in Nat /\ clock < ChatTime /\ clock' = clock + 1
      /\ requests' = requests /\ accepted' = accepted
  BY Bounds DEF LimitInv, TimesOK, Chat!Tick
<1>1. 0..clock \subseteq 0..clock'
  BY <1>0
<1>2. \A s \in Seq(0..clock) : s \in Seq(0..clock')
  BY <1>1, SeqMonotonic
<1>3. TimesOK'
  BY <1>0, <1>2, Bounds DEF TimesOK
<1>4. ASSUME NEW k \in Tokens PROVE Len(Kept(accepted[k], Within(clock'))) <= Rpm
  <2> DEFINE W == Kept(accepted[k], Within(clock))
  <2>1. accepted[k] \in Seq(0..clock) /\ Len(W) <= Rpm
    BY <1>0 DEF LimitInv, TimesOK
  <2>2. W \in Seq(0..clock)
    BY <2>1, KeptType
  <2> DEFINE S == 0..clock
             A == accepted[k]
  <2>3. Within(clock') \cap S \subseteq Within(clock) /\ A \in Seq(S)
    BY <1>0, <2>1, WithinShrinks
  <2>4. Kept(W, Within(clock')) = Kept(A, Within(clock'))
    <3>1. W = Kept(A, Within(clock))
      OBVIOUS
    <3> HIDE DEF S, A, W
    <3>2. Kept(Kept(A, Within(clock)), Within(clock')) = Kept(A, Within(clock'))
      BY <2>3, KeptTwice
    <3> QED BY <3>1, <3>2
  <2> HIDE DEF W
  <2>5. Len(Kept(W, Within(clock'))) <= Len(W) /\ Kept(W, Within(clock')) \in Seq(0..clock)
    BY <2>2, KeptType
  <2>6. Len(W) \in Nat /\ Len(Kept(W, Within(clock'))) \in Nat
    BY <2>2, <2>5, SeqFacts
  <2> QED BY <2>1, <2>4, <2>5, <2>6, Bounds
<1>5. \A k \in Tokens : \A n \in Nat : n >= clock' =>
        Kept(requests[k], Within(n)) = Kept(accepted[k], Within(n))
  BY <1>0 DEF LimitInv
<1> QED BY <1>0, <1>3, <1>4, <1>5 DEF LimitInv, Within

LEMMA NextLimit == TabOK /\ LimitInv /\ [ComponentsNext]_componentsVars => LimitInv'
<1> SUFFICES ASSUME TabOK, LimitInv, [ComponentsNext]_componentsVars PROVE LimitInv'
  OBVIOUS
<1> USE DEF Chat!gatewayVars
<1>0. Chat!Next \/ UNCHANGED chatVars
  BY ChatStep
<1>1. ASSUME UNCHANGED <<requests, clock, accepted>> PROVE LimitInv'
  BY <1>1 DEF LimitInv, TimesOK, Within
<1>2. ASSUME NEW k \in Tokens, Chat!OtherRequest(k) PROVE LimitInv'
  BY <1>2, AdmitLimit DEF Chat!OtherRequest
<1>3. ASSUME NEW m \in DOMAIN post, Chat!Arrive(m) PROVE LimitInv'
  <2>1. post \in Seq(Post)
    BY DEF TabOK
  <2>2. post[m] \in Post
    BY <2>1, SeqFacts
  <2>3. post[m].token \in Tokens
    BY <2>2 DEF Post
  <2> QED BY <1>3, <2>3, AdmitLimit DEF Chat!Arrive
<1>4. CASE Chat!Tick
  BY <1>4, TickLimit
<1>5. ASSUME NEW k \in Tokens, Chat!SignIn(k) \/ Chat!ExpireToken(k) PROVE LimitInv'
  BY <1>1, <1>5 DEF Chat!SignIn, Chat!ExpireToken
<1>6. CASE Chat!Clear \/ Chat!SignOut \/ Chat!HandleSubmit
  BY <1>1, <1>6 DEF Chat!Clear, Chat!SignOut, Chat!HandleSubmit, Chat!SendMessage
<1>7. ASSUME NEW m \in DOMAIN post, Chat!Settle(m) \/ Chat!Reply(m) \/ Chat!LoseConnection(m)
      PROVE  LimitInv'
  BY <1>1, <1>7 DEF Chat!Settle, Chat!Reply, Chat!LoseConnection
<1>8. CASE UNCHANGED chatVars
  BY <1>1, <1>8 DEF chatVars
<1> QED BY <1>0, <1>2, <1>3, <1>4, <1>5, <1>6, <1>7, <1>8 DEF Chat!Next

\* The limit as a property of every step: no window of the limiter lets more
\* than rpm requests of a token pass, and none is refused without reason, for
\* any limit, window and interleaving of chats and other requests.
LEMMA LimitStep ==
  ASSUME TabOK, LimitInv, LimitInv', [ComponentsNext]_componentsVars
  PROVE  /\ \A k \in Tokens : Chat!AcceptedIn(k, clock, clock)' <= Rpm
         /\ \A m \in DOMAIN post :
              post[m].stage = "sent" /\ post'[m].stage = "limited" =>
                Chat!AcceptedIn(post[m].token, clock, clock) >= Rpm
<1>1. \A k : Chat!AcceptedIn(k, clock, clock) = Len(Kept(accepted[k], Within(clock)))
  BY ChatKept DEF Chat!AcceptedIn, Within
<1>2. \A k : Chat!AcceptedIn(k, clock, clock)' = Len(Kept(accepted'[k], Within(clock')))
  BY ChatKept DEF Chat!AcceptedIn, Within
<1>3. \A k \in Tokens : Chat!AcceptedIn(k, clock, clock)' <= Rpm
  BY <1>2 DEF LimitInv, Within
<1>4. ASSUME NEW m \in DOMAIN post, post[m].stage = "sent", post'[m].stage = "limited"
      PROVE  Chat!AcceptedIn(post[m].token, clock, clock) >= Rpm
  <2>0. post \in Seq(Post) /\ DOMAIN post = 1..Len(post) /\ Len(post) \in Nat
    BY SeqFacts DEF TabOK
  <2>1. m \in 1..Len(post) /\ post[m] \in Post
    BY <2>0, SeqFacts
  <2>2. post[m].token \in Tokens
    BY <2>1 DEF Post
  <2>3. Chat!Next \/ UNCHANGED chatVars
    BY ChatStep
  <2>4. ASSUME Chat!Arrive(m) PROVE Chat!AcceptedIn(post[m].token, clock, clock) >= Rpm
    <3> DEFINE k == post[m].token
    <3>1. Chat!Limited(k)
      <4>1. post'[m].stage = CASE Chat!Limited(k) -> "limited"
                             [] ~Chat!Limited(k) /\ k \in expired -> "unauthorized"
                             [] OTHER -> "running"
        BY <2>0, <2>1, <2>4 DEF Chat!Arrive
      <4> QED BY <1>4, <4>1
    <3>2. Len(Chat!Recent(k)) >= Rpm
      BY <3>1 DEF Chat!Limited
    <3>3. Chat!Recent(k) = Kept(requests[k], Within(clock))
      BY ChatKept DEF Chat!Recent, Within
    <3>4. clock \in Nat
      BY Bounds DEF LimitInv, TimesOK
    <3>5. Kept(requests[k], Within(clock)) = Kept(accepted[k], Within(clock))
      BY <2>2, <3>4 DEF LimitInv
    <3> QED BY <1>1, <3>2, <3>3, <3>5
  <2>5. ASSUME NEW j \in DOMAIN post, j # m, Chat!Settle(j) \/ Chat!Arrive(j)
                 \/ Chat!Reply(j) \/ Chat!LoseConnection(j)
        PROVE  FALSE
    <3>1. \E x : post' = [post EXCEPT ![j].stage = x]
      BY <2>5 DEF Chat!Settle, Chat!Arrive, Chat!Reply, Chat!LoseConnection
    <3>2. post'[m] = post[m]
      BY <2>0, <2>1, <2>5, <3>1
    <3> QED BY <1>4, <3>2
  <2>6. ASSUME Chat!Settle(m) PROVE FALSE
    BY <1>4, <2>6 DEF Chat!Settle, Chat!Answers
  <2>7. ASSUME Chat!Reply(m) PROVE FALSE
    BY <1>4, <2>7 DEF Chat!Reply
  <2>8. ASSUME Chat!LoseConnection(m) PROVE FALSE
    <3>1. post'[m].stage = "failed"
      BY <2>0, <2>1, <2>8 DEF Chat!LoseConnection
    <3> QED BY <1>4, <3>1
  <2>9. ASSUME Chat!HandleSubmit PROVE FALSE
    <3> DEFINE p == [i \in DOMAIN post |->
                       IF i = abortRef /\ post[i].stage # "settled"
                       THEN [post[i] EXCEPT !.stage = "aborted"] ELSE post[i]]
               e == [token |-> token, stage |-> "sent"]
    <3>1. post' = Append(p, e) /\ token # ""
      BY <2>9 DEF Chat!HandleSubmit, Chat!SendMessage
    <3>2. \A i \in 1..Len(post) : p[i] \in Post
      <4> TAKE i \in 1..Len(post)
      <4>1. post[i] \in Post
        BY <2>0, SeqFacts
      <4> QED BY <2>0, <4>1 DEF Post, Chat!Stages
    <3>3. p \in Seq(Post) /\ Len(p) = Len(post)
      BY <2>0, <3>2
    <3>4. e \in Post
      BY <3>1 DEF TabOK, Post, Chat!Stages
    <3>5. p[m].stage # "limited"
      BY <1>4, <2>0, <2>1 DEF Post
    <3> HIDE DEF p, e
    <3>6. \A i \in 1..Len(p) : Append(p, e)[i] = p[i]
      BY <3>3, <3>4, AppendFacts
    <3> QED BY <1>4, <2>1, <3>1, <3>3, <3>5, <3>6
  <2>10. ASSUME post' = post PROVE FALSE
    BY <1>4, <2>10
  <2>11. ASSUME NEW k \in Tokens,
                Chat!SignIn(k) \/ Chat!OtherRequest(k) \/ Chat!ExpireToken(k)
         PROVE  FALSE
    BY <2>10, <2>11 DEF Chat!SignIn, Chat!OtherRequest, Chat!ExpireToken
  <2>12. ASSUME Chat!Clear \/ Chat!SignOut \/ Chat!Tick PROVE FALSE
    BY <2>10, <2>12 DEF Chat!Clear, Chat!SignOut, Chat!Tick
  <2>13. ASSUME UNCHANGED chatVars PROVE FALSE
    BY <2>10, <2>13 DEF chatVars
  <2> QED BY <2>3, <2>4, <2>5, <2>6, <2>7, <2>8, <2>9, <2>11, <2>12, <2>13 DEF Chat!Next
<1> QED BY <1>3, <1>4

-----------------------------------------------------------------------------
(* The chat tab: its flag and its list. *)

Lines(n) == [by : {"user", "agent", "error"}, of : 1..n]

\* The question in flight is the last line, or was cleared from the tab.
Asked(l, flying, gone) ==
  \A m \in flying :
    IF m \in gone THEN \A i \in 1..Len(l) : l[i].of # m
    ELSE /\ l # <<>> /\ l[Len(l)] = [by |-> "user", of |-> m]
         /\ \A i \in 1..Len(l) : l[i].of = m => i = Len(l)

\* ConversationReadsInOrder of any list.
InOrder(l, flying, gone) ==
  \A i \in 1..Len(l) :
    IF l[i].by = "user"
    THEN l[i].of \in flying \/ (i < Len(l) /\ l[i + 1].of = l[i].of)
    ELSE \/ i > 1 /\ l[i - 1] = [by |-> "user", of |-> l[i].of]
         \/ l[i].of \in gone /\ \A j \in 1..Len(l) : l[j].of = l[i].of => j = i

\* Nothing is ever aborted: the input is disabled while abortRef holds a message.
NoAborts == \A m \in 1..Len(post) : post[m].stage # "aborted"

TabInv ==
  /\ TabOK /\ NoAborts /\ LoadingTellsTheTruth
  /\ Asked(list, Chat!InFlight, orphaned)
  /\ InOrder(list, Chat!InFlight, orphaned)

LEMMA NoLines ==
  ASSUME NEW l, Len(l) = 0, NEW flying, NEW gone, flying \subseteq gone
  PROVE  Asked(l, flying, gone) /\ InOrder(l, flying, gone)
  BY DEF Asked, InOrder

LEMMA Question ==
  ASSUME NEW n \in Nat, NEW l \in Seq(Lines(n)), NEW gone \in SUBSET (1..n),
         InOrder(l, {}, gone), NEW p, p = Append(l, [by |-> "user", of |-> n + 1])
  PROVE  /\ p \in Seq(Lines(n + 1))
         /\ Asked(p, {n + 1}, gone)
         /\ InOrder(p, {n + 1}, gone)
<1> DEFINE e == [by |-> "user", of |-> n + 1]
           S == Lines(n + 1)
           N == Len(l)
<1>1. Lines(n) \subseteq S /\ e \in S
  BY DEF Lines
<1>2. l \in Seq(S)
  BY <1>1, SeqMonotonic
<1>3. N \in Nat /\ \A i \in 1..N : l[i] \in Lines(n)
  BY SeqFacts
<1>4. p \in Seq(S) /\ Len(p) = N + 1 /\ (\A i \in 1..N : p[i] = l[i]) /\ p[N + 1] = e
  <2> HIDE DEF S, e
  <2>1. /\ Append(l, e) \in Seq(S) /\ Len(Append(l, e)) = N + 1
        /\ \A i \in 1..N : Append(l, e)[i] = l[i]
        /\ Append(l, e)[N + 1] = e
    BY <1>1, <1>2, AppendFacts
  <2> QED BY <2>1 DEF e
<1>5. \A i \in 1..N : l[i].of \in 1..n /\ l[i].of # n + 1
  BY <1>3 DEF Lines
<1> HIDE DEF N, S
<1>6. p # <<>>
  BY <1>3, <1>4, EmptySeq
<1>7. Asked(p, {n + 1}, gone)
  <2>1. n + 1 \notin gone
    OBVIOUS
  <2>2. \A i \in 1..Len(p) : p[i].of = n + 1 => i = Len(p)
    BY <1>3, <1>4, <1>5
  <2> QED BY <1>4, <1>6, <2>1, <2>2 DEF Asked
<1>8. ASSUME NEW i \in 1..Len(p)
      PROVE  IF p[i].by = "user"
             THEN p[i].of \in {n + 1} \/ (i < Len(p) /\ p[i + 1].of = p[i].of)
             ELSE \/ i > 1 /\ p[i - 1] = [by |-> "user", of |-> p[i].of]
                  \/ p[i].of \in gone /\ \A j \in 1..Len(p) : p[j].of = p[i].of => j = i
  <2>1. CASE i = N + 1
    BY <1>4, <2>1
  <2>2. CASE i \in 1..N
    <3>1. p[i] = l[i] /\ l[i].of # n + 1
      BY <1>4, <1>5, <2>2
    <3>2. CASE l[i].by = "user"
      <4>1. i < N /\ l[i + 1].of = l[i].of
        BY <2>2, <3>2 DEF InOrder, N
      <4>2. i + 1 \in 1..N
        BY <1>3, <2>2, <4>1
      <4> QED BY <1>3, <1>4, <3>1, <3>2, <4>1, <4>2
    <3>3. CASE l[i].by # "user" /\ i > 1 /\ l[i - 1] = [by |-> "user", of |-> l[i].of]
      <4>1. i - 1 \in 1..N
        BY <1>3, <2>2, <3>3
      <4> QED BY <1>4, <3>1, <3>3, <4>1
    <3>4. CASE /\ l[i].by # "user" /\ l[i].of \in gone
               /\ \A j \in 1..N : l[j].of = l[i].of => j = i
      <4>1. ASSUME NEW j \in 1..Len(p), p[j].of = p[i].of PROVE j = i
        <5>1. CASE j \in 1..N
          BY <1>4, <3>1, <3>4, <4>1, <5>1
        <5>2. CASE j = N + 1
          BY <1>4, <3>1, <4>1, <5>2
        <5> QED BY <1>3, <1>4, <5>1, <5>2
      <4> QED BY <3>1, <3>4, <4>1
    <3> QED BY <2>2, <3>2, <3>3, <3>4 DEF InOrder, N
  <2> QED BY <1>3, <1>4, <2>1, <2>2
<1>9. InOrder(p, {n + 1}, gone)
  BY <1>8 DEF InOrder
<1> QED BY <1>4, <1>7, <1>9 DEF S

LEMMA Reply ==
  ASSUME NEW n \in Nat, NEW l \in Seq(Lines(n)), NEW gone, NEW m \in 1..n,
         Asked(l, {m}, gone), InOrder(l, {m}, gone),
         NEW by \in {"agent", "error"}, NEW p, p = Append(l, [by |-> by, of |-> m])
  PROVE  /\ p \in Seq(Lines(n))
         /\ InOrder(p, {}, gone)
<1> DEFINE e == [by |-> by, of |-> m]
           S == Lines(n)
           N == Len(l)
<1>1. e \in S
  BY DEF Lines
<1>2. l \in Seq(S)
  OBVIOUS
<1>3. N \in Nat
  BY SeqFacts
<1>4. p \in Seq(S) /\ Len(p) = N + 1 /\ (\A i \in 1..N : p[i] = l[i]) /\ p[N + 1] = e
  <2> HIDE DEF S, e
  <2>1. /\ Append(l, e) \in Seq(S) /\ Len(Append(l, e)) = N + 1
        /\ \A i \in 1..N : Append(l, e)[i] = l[i]
        /\ Append(l, e)[N + 1] = e
    BY <1>1, <1>2, AppendFacts
  <2> QED BY <2>1 DEF e
<1>5. IF m \in gone THEN \A i \in 1..N : l[i].of # m
      ELSE /\ N \in 1..N /\ l[N] = [by |-> "user", of |-> m]
           /\ \A i \in 1..N : l[i].of = m => i = N
  BY <1>3, EmptySeq DEF Asked
<1>6. \A i \in 1..N :
        IF l[i].by = "user"
        THEN l[i].of = m \/ (i < N /\ l[i + 1].of = l[i].of)
        ELSE \/ i > 1 /\ l[i - 1] = [by |-> "user", of |-> l[i].of]
             \/ l[i].of \in gone /\ \A j \in 1..N : l[j].of = l[i].of => j = i
  BY DEF InOrder
<1> HIDE DEF N, S
<1>8. ASSUME NEW i \in 1..Len(p)
      PROVE  IF p[i].by = "user"
             THEN i < Len(p) /\ p[i + 1].of = p[i].of
             ELSE \/ i > 1 /\ p[i - 1] = [by |-> "user", of |-> p[i].of]
                  \/ p[i].of \in gone /\ \A j \in 1..Len(p) : p[j].of = p[i].of => j = i
  <2>1. CASE i = N + 1
    <3>1. p[i].by # "user" /\ p[i].of = m
      BY <1>4, <2>1
    <3>2. CASE m \in gone
      <4>1. ASSUME NEW j \in 1..Len(p), p[j].of = m PROVE j = i
        BY <1>3, <1>4, <1>5, <2>1, <3>2, <4>1
      <4> QED BY <3>1, <3>2, <4>1
    <3>3. CASE m \notin gone
      <4>1. i - 1 = N /\ i > 1 /\ p[N] = l[N]
        BY <1>3, <1>4, <1>5, <2>1, <3>3
      <4> QED BY <1>5, <3>1, <3>3, <4>1
    <3> QED BY <3>2, <3>3
  <2>2. CASE i \in 1..N
    <3>1. p[i] = l[i]
      BY <1>4, <2>2
    <3>2. CASE l[i].by = "user" /\ l[i].of = m
      <4>1. i = N /\ p[i + 1].of = m /\ i < Len(p)
        BY <1>3, <1>4, <1>5, <2>2, <3>2
      <4> QED BY <3>1, <3>2, <4>1
    <3>3. CASE l[i].by = "user" /\ i < N /\ l[i + 1].of = l[i].of
      <4>1. i + 1 \in 1..N /\ i < Len(p)
        BY <1>3, <1>4, <2>2, <3>3
      <4> QED BY <1>4, <3>1, <3>3, <4>1
    <3>4. CASE l[i].by # "user" /\ i > 1 /\ l[i - 1] = [by |-> "user", of |-> l[i].of]
      <4>1. i - 1 \in 1..N
        BY <1>3, <2>2, <3>4
      <4> QED BY <1>4, <3>1, <3>4, <4>1
    <3>5. CASE /\ l[i].by # "user" /\ l[i].of \in gone
               /\ \A j \in 1..N : l[j].of = l[i].of => j = i
      <4>1. l[i].of # m
        BY <1>5, <2>2, <3>5
      <4>2. ASSUME NEW j \in 1..Len(p), p[j].of = p[i].of PROVE j = i
        <5>1. CASE j \in 1..N
          BY <1>4, <3>1, <3>5, <4>2, <5>1
        <5>2. CASE j = N + 1
          BY <1>4, <3>1, <4>1, <4>2, <5>2
        <5> QED BY <1>3, <1>4, <5>1, <5>2
      <4> QED BY <3>1, <3>5, <4>2
    <3> QED BY <1>6, <2>2, <3>2, <3>3, <3>4, <3>5
  <2> QED BY <1>3, <1>4, <2>1, <2>2
<1>9. InOrder(p, {}, gone)
  BY <1>8 DEF InOrder
<1> QED BY <1>4, <1>9 DEF S

LEMMA InitTab == ComponentsInit => TabInv
<1> SUFFICES ASSUME ComponentsInit PROVE TabInv
  OBVIOUS
<1>1. /\ token = "" /\ list = <<>> /\ loading = FALSE /\ abortRef = 0 /\ orphaned = {}
      /\ post = <<>> /\ expired = {}
  BY ChatInit DEF Chat!Init
<1>2. Len(<<>>) = 0 /\ <<>> \in Seq(Post) /\ DOMAIN <<>> = {}
      /\ <<>> \in Seq([by : {"user", "agent", "error"}, of : 1..0])
  BY EmptySeq
<1>2a. Len(post) = 0 /\ Len(list) = 0 /\ DOMAIN post = {}
  BY <1>1, <1>2
<1>2b. /\ post \in Seq(Post)
       /\ list \in Seq([by : {"user", "agent", "error"}, of : 1..Len(post)])
  BY <1>1, <1>2, <1>2a
<1>2c. Len(post) <= MaxMessages /\ abortRef \in 0..Len(post) /\ orphaned \subseteq 1..Len(post)
  <2>1. Len(post) = 0 /\ abortRef = 0 /\ orphaned = {}
    BY <1>1, <1>2a
  <2> QED BY <2>1, Bounds
<1>3. TabOK
  BY <1>1, <1>2b, <1>2c DEF TabOK
<1>4. Chat!InFlight = {}
  BY <1>2a DEF Chat!InFlight
<1>5. LoadingTellsTheTruth
  BY <1>1, <1>4 DEF LoadingTellsTheTruth, Chat!LoadingTellsTheTruth
<1>6. NoAborts /\ Asked(list, {}, orphaned) /\ InOrder(list, {}, orphaned)
  BY <1>2a DEF NoAborts, Asked, InOrder
<1> QED BY <1>3, <1>4, <1>5, <1>6 DEF TabInv

\* What the invariant says, with the domains spelled out.
LEMMA TabFacts ==
  ASSUME TabInv
  PROVE  /\ post \in Seq(Post) /\ Len(post) \in Nat /\ DOMAIN post = 1..Len(post)
         /\ list \in Seq(Lines(Len(post))) /\ Len(list) \in Nat
         /\ DOMAIN list = 1..Len(list)
         /\ Chat!InFlight = {i \in 1..Len(post) : post[i].stage # "settled"}
         /\ loading = (Chat!InFlight # {})
         /\ loading => Chat!InFlight = {abortRef} /\ abortRef = Len(post)
         /\ ~loading => abortRef = 0
<1>1. post \in Seq(Post) /\ list \in Seq(Lines(Len(post)))
  BY DEF TabInv, TabOK, Lines
<1>2. Len(post) \in Nat /\ DOMAIN post = 1..Len(post)
  BY <1>1, SeqFacts
<1>3. Len(list) \in Nat /\ DOMAIN list = 1..Len(list)
  BY <1>1, SeqFacts
<1>4. Chat!InFlight = {i \in 1..Len(post) : post[i].stage # "settled"}
  BY <1>2 DEF Chat!InFlight
<1>5. /\ loading = (Chat!InFlight # {})
      /\ loading => Chat!InFlight = {abortRef} /\ abortRef = Len(post)
      /\ ~loading => abortRef = 0
  BY DEF TabInv, LoadingTellsTheTruth, Chat!LoadingTellsTheTruth
<1> QED BY <1>1, <1>2, <1>3, <1>4, <1>5

\* The flag in the next state.
LEMMA FlagFacts ==
  ASSUME post' \in Seq(Post), \/ Chat!InFlight' = {} /\ ~loading' /\ abortRef' = 0
                              \/ /\ loading' /\ abortRef' = Len(post')
                                 /\ Chat!InFlight' = {abortRef'},
         loading' \in BOOLEAN
  PROVE  LoadingTellsTheTruth'
  BY DEF LoadingTellsTheTruth, Chat!LoadingTellsTheTruth

LEMMA SubmitTab ==
  ASSUME TabInv, Chat!HandleSubmit
  PROVE  TabInv'
<1> DEFINE n == Len(post)
           e == [token |-> token, stage |-> "sent"]
<1>1. /\ post \in Seq(Post) /\ n \in Nat /\ DOMAIN post = 1..n
      /\ list \in Seq(Lines(n))
      /\ Chat!InFlight = {i \in 1..n : post[i].stage # "settled"}
      /\ loading = (Chat!InFlight # {})
      /\ ~loading => abortRef = 0
  BY TabFacts
<1>2. /\ ~loading /\ token # "" /\ n < MaxMessages
      /\ list' = Append(list, [by |-> "user", of |-> n + 1])
      /\ abortRef' = n + 1 /\ loading' = TRUE
      /\ UNCHANGED <<token, orphaned, requests, expired, clock, accepted>>
  BY DEF Chat!HandleSubmit, Chat!SendMessage, Chat!Shown, Chat!gatewayVars
<1>3. Chat!InFlight = {} /\ abortRef = 0
  BY <1>1, <1>2
<1>4. post' = Append(post, e)
  <2> DEFINE p == [i \in DOMAIN post |->
                     IF i = abortRef /\ post[i].stage # "settled"
                     THEN [post[i] EXCEPT !.stage = "aborted"] ELSE post[i]]
  <2>1. post' = Append(p, e)
    BY DEF Chat!HandleSubmit, Chat!SendMessage
  <2>2. p = [i \in 1..n |-> post[i]]
    BY <1>1, <1>3
  <2>3. post = [i \in 1..n |-> post[i]]
    BY <1>1, LenProperties
  <2> QED BY <2>1, <2>2, <2>3
<1>5. e \in Post
  BY <1>2 DEF TabInv, TabOK, Post, Chat!Stages
<1>5a. e.stage = "sent"
  OBVIOUS
<1> HIDE DEF e
<1>6. /\ post' \in Seq(Post) /\ Len(post') = n + 1
      /\ \A i \in 1..n : post'[i] = post[i]
      /\ post'[n + 1].stage = "sent"
  <2>1. /\ Append(post, e) \in Seq(Post) /\ Len(Append(post, e)) = Len(post) + 1
        /\ \A i \in 1..Len(post) : Append(post, e)[i] = post[i]
        /\ Append(post, e)[Len(post) + 1] = e
    BY <1>1, <1>5, AppendFacts
  <2> QED BY <1>4, <1>5a, <2>1
<1> HIDE DEF n
<1>7. DOMAIN post' = 1..(n + 1)
  BY <1>6, SeqFacts
<1>8. Chat!InFlight' = {n + 1}
  <2>1. Chat!InFlight' = {i \in 1..(n + 1) : post'[i].stage # "settled"}
    BY <1>7 DEF Chat!InFlight
  <2>2. \A i \in 1..n : post'[i].stage = "settled"
    BY <1>1, <1>3, <1>6
  <2> QED BY <1>1, <1>6, <2>1, <2>2
<1>9. orphaned \subseteq 1..n /\ InOrder(list, {}, orphaned) /\ NoAborts
      /\ expired \subseteq Tokens /\ token \in Tokens \cup {""}
  BY <1>3 DEF TabInv, TabOK, n
<1>10. /\ list' \in Seq(Lines(n + 1))
       /\ Asked(list', {n + 1}, orphaned)
       /\ InOrder(list', {n + 1}, orphaned)
  BY <1>1, <1>2, <1>9, Question
<1>11. TabOK'
  <2>1. list' \in Seq([by : {"user", "agent", "error"}, of : 1..Len(post')])
    BY <1>6, <1>10 DEF Lines
  <2>0. /\ n \in Nat /\ Len(post') = n + 1 /\ abortRef' = n + 1 /\ n < MaxMessages
        /\ orphaned' \subseteq 1..n
    BY <1>1, <1>2, <1>6, <1>9
  <2>2. Len(post') <= MaxMessages /\ abortRef' \in 0..Len(post')
    BY <2>0, Bounds
  <2>3. orphaned' \subseteq 1..Len(post')
    BY <2>0
  <2> QED BY <1>2, <1>6, <1>9, <2>1, <2>2, <2>3 DEF TabOK
<1>12. NoAborts'
  <2>1. \A i \in 1..n : post[i].stage # "aborted"
    BY <1>9 DEF NoAborts, n
  <2> QED BY <1>1, <1>6, <2>1 DEF NoAborts
<1>13. LoadingTellsTheTruth'
  BY <1>2, <1>6, <1>8, FlagFacts
<1> QED BY <1>2, <1>8, <1>10, <1>11, <1>12, <1>13 DEF TabInv

LEMMA SettleTab ==
  ASSUME TabInv, NEW m \in DOMAIN post, Chat!Settle(m)
  PROVE  TabInv'
<1> DEFINE n == Len(post)
<1>1. /\ post \in Seq(Post) /\ n \in Nat /\ DOMAIN post = 1..n
      /\ list \in Seq(Lines(n))
      /\ Chat!InFlight = {i \in 1..n : post[i].stage # "settled"}
      /\ loading = (Chat!InFlight # {})
      /\ loading => Chat!InFlight = {abortRef} /\ abortRef = n
  BY TabFacts
<1>2. /\ post[m].stage \in Chat!Answers \cup {"aborted"}
      /\ loading' = FALSE /\ abortRef' = 0
      /\ post' = [post EXCEPT ![m].stage = "settled"]
      /\ UNCHANGED <<token, orphaned, requests, expired, clock, accepted>>
  BY DEF Chat!Settle, Chat!gatewayVars
<1>3. m \in 1..n /\ m \in Chat!InFlight
  BY <1>1, <1>2 DEF Chat!Answers
<1>4. Chat!InFlight = {m}
  BY <1>1, <1>3
<1>5. post[m].stage # "aborted"
  BY <1>3 DEF TabInv, NoAborts
<1>6. \E by \in {"agent", "error"} : list' = Append(list, [by |-> by, of |-> m])
  BY <1>5 DEF Chat!Settle, Chat!Shown
<1>7. /\ post' \in Seq(Post) /\ Len(post') = n /\ DOMAIN post' = 1..n
      /\ post'[m].stage = "settled"
      /\ \A i \in 1..n : i # m => post'[i] = post[i]
  BY <1>1, <1>2, StageFacts DEF Chat!Stages
<1> HIDE DEF n
<1>8. Chat!InFlight' = {}
  <2>1. Chat!InFlight' = {i \in 1..n : post'[i].stage # "settled"}
    BY <1>7 DEF Chat!InFlight
  <2>2. \A i \in 1..n : i # m => post[i].stage = "settled"
    BY <1>1, <1>4
  <2> QED BY <1>7, <2>1, <2>2
<1>9. /\ Asked(list, {m}, orphaned) /\ InOrder(list, {m}, orphaned)
      /\ NoAborts /\ TabOK
  BY <1>4 DEF TabInv
<1>10. list' \in Seq(Lines(n)) /\ InOrder(list', {}, orphaned)
  BY <1>1, <1>3, <1>6, <1>9, Reply
<1>11. TabOK'
  <2>1. list' \in Seq([by : {"user", "agent", "error"}, of : 1..Len(post')])
    BY <1>7, <1>10 DEF Lines
  <2>2. n <= MaxMessages /\ orphaned \subseteq 1..n /\ expired \subseteq Tokens
        /\ token \in Tokens \cup {""}
    BY <1>9 DEF TabOK, n
  <2>3. abortRef' \in 0..Len(post')
    BY <1>1, <1>2, <1>7
  <2> QED BY <1>2, <1>7, <2>1, <2>2, <2>3 DEF TabOK
<1>12. NoAborts'
  BY <1>7, <1>9 DEF NoAborts, n
<1>13. LoadingTellsTheTruth'
  BY <1>2, <1>7, <1>8, FlagFacts
<1>14. Asked(list', {}, orphaned)
  BY DEF Asked
<1> QED BY <1>2, <1>8, <1>10, <1>11, <1>12, <1>13, <1>14 DEF TabInv

\* A POST moves on while it is in flight.
LEMMA MoveTab ==
  ASSUME TabInv, NEW m \in DOMAIN post, NEW x \in Chat!Stages \ {"settled", "aborted"},
         post[m].stage # "settled", post' = [post EXCEPT ![m].stage = x],
         UNCHANGED <<token, list, loading, abortRef, orphaned, expired>>
  PROVE  TabInv'
<1> DEFINE n == Len(post)
<1>1. /\ post \in Seq(Post) /\ n \in Nat /\ DOMAIN post = 1..n
      /\ Chat!InFlight = {i \in 1..n : post[i].stage # "settled"}
      /\ loading = (Chat!InFlight # {})
      /\ loading => Chat!InFlight = {abortRef} /\ abortRef = n
      /\ ~loading => abortRef = 0
  BY TabFacts
<1>2. /\ post' \in Seq(Post) /\ Len(post') = n /\ DOMAIN post' = 1..n
      /\ post'[m].stage = x
      /\ \A i \in 1..n : i # m => post'[i] = post[i]
  BY <1>1, StageFacts
<1> HIDE DEF n
<1>3. Chat!InFlight' = Chat!InFlight
  <2>1. Chat!InFlight' = {i \in 1..n : post'[i].stage # "settled"}
    BY <1>2 DEF Chat!InFlight
  <2>2. \A i \in 1..n : (post'[i].stage # "settled") = (post[i].stage # "settled")
    BY <1>1, <1>2
  <2> QED BY <1>1, <2>1, <2>2
<1>4. TabOK'
  BY <1>2 DEF TabInv, TabOK, n
<1>5. NoAborts'
  BY <1>2 DEF TabInv, NoAborts, n
<1>6. loading' \in BOOLEAN
  BY <1>4 DEF TabOK
<1>7. LoadingTellsTheTruth'
  BY <1>1, <1>2, <1>3, <1>6, FlagFacts
<1> QED BY <1>3, <1>4, <1>5, <1>7 DEF TabInv

\* The list is cleared while the POSTs stay where they are.
LEMMA ClearTab ==
  ASSUME TabInv, list' = <<>>, orphaned' = orphaned \cup Chat!InFlight,
         token' \in Tokens \cup {""},
         UNCHANGED <<loading, abortRef, post, expired>>
  PROVE  TabInv'
<1>1. /\ Chat!InFlight' = Chat!InFlight /\ Chat!InFlight \subseteq 1..Len(post)
      /\ list' \in Seq([by : {"user", "agent", "error"}, of : 1..Len(post')])
      /\ Len(list') = 0
  <2>1. Chat!InFlight' = Chat!InFlight
    BY DEF Chat!InFlight
  <2>2. Chat!InFlight \subseteq 1..Len(post)
    BY TabFacts
  <2>3. /\ <<>> \in Seq([by : {"user", "agent", "error"}, of : 1..Len(post')])
        /\ Len(<<>>) = 0
    BY EmptySeq
  <2> QED BY <2>1, <2>2, <2>3
<1>2. TabOK'
  BY <1>1 DEF TabInv, TabOK
<1>3. NoAborts'
  BY DEF TabInv, NoAborts
<1>4. LoadingTellsTheTruth'
  BY <1>1 DEF TabInv, LoadingTellsTheTruth, Chat!LoadingTellsTheTruth
<1>5. Chat!InFlight' \subseteq orphaned'
  BY <1>1
<1>6. Asked(list', Chat!InFlight', orphaned') /\ InOrder(list', Chat!InFlight', orphaned')
  BY <1>1, <1>5, NoLines
<1> QED BY <1>2, <1>3, <1>4, <1>6 DEF TabInv

LEMMA SameTab ==
  ASSUME TabInv, token' \in Tokens \cup {""}, expired' \subseteq Tokens,
         UNCHANGED <<list, loading, abortRef, orphaned, post>>
  PROVE  TabInv'
<1>1. Chat!InFlight' = Chat!InFlight
  BY DEF Chat!InFlight
<1>2. TabOK' /\ NoAborts'
  BY DEF TabInv, TabOK, NoAborts
<1>3. LoadingTellsTheTruth'
  BY <1>1 DEF TabInv, LoadingTellsTheTruth, Chat!LoadingTellsTheTruth
<1> QED BY <1>1, <1>2, <1>3 DEF TabInv

LEMMA NextTab == TabInv /\ [ComponentsNext]_componentsVars => TabInv'
<1> SUFFICES ASSUME TabInv, [ComponentsNext]_componentsVars PROVE TabInv'
  OBVIOUS
<1> USE DEF Chat!gatewayVars, Chat!tabVars
<1>0. Chat!Next \/ UNCHANGED chatVars
  BY ChatStep
<1>1. token \in Tokens \cup {""} /\ expired \subseteq Tokens
  BY DEF TabInv, TabOK
<1>2. ASSUME NEW k \in Tokens, Chat!SignIn(k) PROVE TabInv'
  BY <1>1, <1>2, SameTab DEF Chat!SignIn
<1>3. ASSUME NEW k \in Tokens, Chat!OtherRequest(k) PROVE TabInv'
  BY <1>1, <1>3, SameTab DEF Chat!OtherRequest, Chat!Admit
<1>4. ASSUME NEW k \in Tokens, Chat!ExpireToken(k) PROVE TabInv'
  BY <1>1, <1>4, SameTab DEF Chat!ExpireToken
<1>5. CASE Chat!Clear
  BY <1>1, <1>5, ClearTab DEF Chat!Clear
<1>6. CASE Chat!SignOut
  BY <1>6, <1>1, ClearTab DEF Chat!SignOut
<1>7. CASE Chat!HandleSubmit
  BY <1>7, SubmitTab
<1>8. ASSUME NEW m \in DOMAIN post, Chat!Settle(m) PROVE TabInv'
  BY <1>8, SettleTab
<1>9. ASSUME NEW m \in DOMAIN post, Chat!Arrive(m) PROVE TabInv'
  <2>1. \E x \in Chat!Stages \ {"settled", "aborted"} : post' = [post EXCEPT ![m].stage = x]
    <3> DEFINE k == post[m].token
               x == CASE Chat!Limited(k) -> "limited"
                      [] ~Chat!Limited(k) /\ k \in expired -> "unauthorized"
                      [] OTHER -> "running"
    <3>1. x \in Chat!Stages \ {"settled", "aborted"}
      BY DEF Chat!Stages, Chat!Answers
    <3>2. post' = [post EXCEPT ![m].stage = x]
      BY <1>9 DEF Chat!Arrive
    <3> QED BY <3>1, <3>2
  <2>2. post[m].stage # "settled" /\ UNCHANGED <<token, list, loading, abortRef, orphaned, expired>>
    BY <1>9 DEF Chat!Arrive, Chat!Admit
  <2> QED BY <2>1, <2>2, MoveTab
<1>10. ASSUME NEW m \in DOMAIN post, Chat!Reply(m) PROVE TabInv'
  <2>1. \E x \in Chat!Stages \ {"settled", "aborted"} : post' = [post EXCEPT ![m].stage = x]
    BY <1>10 DEF Chat!Reply, Chat!Stages, Chat!Answers
  <2>2. post[m].stage # "settled" /\ UNCHANGED <<token, list, loading, abortRef, orphaned, expired>>
    BY <1>10 DEF Chat!Reply
  <2> QED BY <2>1, <2>2, MoveTab
<1>11. ASSUME NEW m \in DOMAIN post, Chat!LoseConnection(m) PROVE TabInv'
  <2>1. \E x \in Chat!Stages \ {"settled", "aborted"} : post' = [post EXCEPT ![m].stage = x]
    BY <1>11 DEF Chat!LoseConnection, Chat!Stages, Chat!Answers
  <2>2. post[m].stage # "settled" /\ UNCHANGED <<token, list, loading, abortRef, orphaned, expired>>
    BY <1>11 DEF Chat!LoseConnection
  <2> QED BY <2>1, <2>2, MoveTab
<1>12. CASE Chat!Tick
  BY <1>1, <1>12, SameTab DEF Chat!Tick
<1>13. CASE UNCHANGED chatVars
  BY <1>1, <1>13, SameTab DEF chatVars
<1> QED BY <1>0, <1>2, <1>3, <1>4, <1>5, <1>6, <1>7, <1>8, <1>9, <1>10, <1>11, <1>12, <1>13
       DEF Chat!Next

LEMMA ChatAlways == ComponentsSpec => [](TabInv /\ LimitInv)
<1>1. TabInv => TabOK
  BY DEF TabInv
<1>2. TabInv /\ LimitInv /\ [ComponentsNext]_componentsVars => (TabInv /\ LimitInv)'
  BY <1>1, NextTab, NextLimit
<1> QED BY <1>2, InitTab, InitLimit, PTL DEF ComponentsSpec

\* LoadingTellsTheTruth of ChatSession: for any number of messages, whatever
\* is cleared, lost, refused or answered late, the input is disabled exactly
\* while the latest message waits, so that nothing is ever aborted.
THEOREM LoadingIsTrue == ComponentsSpec => []LoadingTellsTheTruth
<1>1. TabInv => LoadingTellsTheTruth
  BY DEF TabInv
<1> QED BY <1>1, ChatAlways, PTL

\* ConversationReadsInOrder of ChatSession: every reply stands below its own
\* question, except one to a question that was cleared from the tab.
THEOREM ConversationIsInOrder == ComponentsSpec => []ConversationReadsInOrder
<1>1. TabInv => ConversationReadsInOrder
  <2> SUFFICES ASSUME TabInv PROVE ConversationReadsInOrder
    OBVIOUS
  <2>1. DOMAIN list = 1..Len(list)
    BY TabFacts
  <2>2. InOrder(list, Chat!InFlight, orphaned)
    BY DEF TabInv
  <2> QED BY <2>1, <2>2
          DEF InOrder, ConversationReadsInOrder, Chat!ConversationReadsInOrder, Chat!Shown
<1> QED BY <1>1, ChatAlways, PTL

\* SlidingWindow of ChatSession: no window lets more than rpm requests of a
\* token pass and no request is refused without as many just before it, for
\* any limit, window and order of requests.
THEOREM WindowSlides == ComponentsSpec => SlidingWindow
<1> DEFINE A == /\ \A k \in Tokens : Chat!AcceptedIn(k, clock, clock)' <= Rpm
                /\ \A m \in DOMAIN post :
                     post[m].stage = "sent" /\ post'[m].stage = "limited" =>
                       Chat!AcceptedIn(post[m].token, clock, clock) >= Rpm
<1>1. TabInv => TabOK
  BY DEF TabInv
<1>2. TabInv /\ LimitInv /\ (TabInv /\ LimitInv)' /\ [ComponentsNext]_componentsVars
        => [A]_(Chat!vars)
  BY <1>1, LimitStep
<1> QED BY <1>2, ChatAlways, PTL DEF ComponentsSpec, SlidingWindow, Chat!SlidingWindow

-----------------------------------------------------------------------------
(* Graceful degradation. *)

Attempt == [tools : SUBSET Tools, end : Degrading!Failures \cup {"fine"}]

\* The failures of a list of attempts, and the tools of those that told.
Ends(at) == [i \in DOMAIN at |-> at[i].end]
Told(at) == UNION {at[i].tools : i \in {j \in DOMAIN at : at[j].end # "timeout"}}

\* While it tries, and once it escalated, every attempt failed and is written
\* down, with its tools unless it timed out.
Recorded(ats, errs, tools) ==
  /\ \A i \in 1..Len(ats) : ats[i].end # "fine"
  /\ errs = Ends(ats) /\ Len(errs) = Len(ats)
  /\ tools = Told(ats)

DegradationInv ==
  /\ Degrading!TypeOK
  /\ outcome.status \in {"trying", "raised"} =>
       Len(attempts) <= MaxRetries /\ Recorded(attempts, errors, toolsAttempted)
  /\ outcome.status = "escalated" =>
       Len(attempts) = MaxRetries + 1 /\ Recorded(attempts, errors, outcome.tools)
  /\ outcome.status = "returned" =>
       /\ Len(attempts) \in 1..(MaxRetries + 1)
       /\ \A i \in 1..Len(attempts) : attempts[i].end = "fine" <=> i = Len(attempts)

LEMMA RecordedAppend ==
  ASSUME NEW ats \in Seq(Attempt), NEW errs \in Seq(Degrading!Failures), NEW tools,
         Recorded(ats, errs, tools),
         NEW e \in Attempt, e.end # "fine"
  PROVE  Recorded(Append(ats, e), Append(errs, e.end),
                  IF e.end = "timeout" THEN tools ELSE tools \cup e.tools)
<1> DEFINE f == e.end
           used == e.tools
           more == IF f = "timeout" THEN tools ELSE tools \cup used
           p == Append(ats, e)
           q == Append(errs, f)
           N == Len(ats)
<1>1. e.tools = used /\ e.end = f /\ f \in Degrading!Failures
  BY DEF Attempt
<1>2. N \in Nat /\ Len(errs) = N
  BY SeqFacts DEF Recorded
<1>3. /\ p \in Seq(Attempt) /\ Len(p) = N + 1
      /\ (\A i \in 1..N : p[i] = ats[i]) /\ p[N + 1] = e
  BY AppendFacts
<1>4. /\ q \in Seq(Degrading!Failures) /\ Len(q) = N + 1
      /\ (\A i \in 1..N : q[i] = errs[i]) /\ q[N + 1] = f
  BY <1>1, <1>2, AppendFacts
<1>5. DOMAIN ats = 1..N /\ DOMAIN p = 1..(N + 1) /\ DOMAIN q = 1..(N + 1)
  BY <1>3, <1>4, SeqFacts
<1>6. /\ \A i \in 1..N : ats[i].end # "fine" /\ errs[i] = ats[i].end
      /\ tools = Told(ats)
  BY <1>5 DEF Recorded, Ends
<1> HIDE DEF p, q, N
<1>7. \A i \in 1..(N + 1) : p[i].end # "fine"
  BY <1>1, <1>2, <1>3, <1>6 DEF Degrading!Failures
<1>8. q = Ends(p)
  <2>1. ASSUME NEW i \in 1..(N + 1) PROVE q[i] = p[i].end
    <3>1. CASE i \in 1..N
      BY <1>3, <1>4, <1>6, <3>1
    <3>2. CASE i = N + 1
      BY <1>1, <1>3, <1>4, <3>2
    <3> QED BY <1>2, <3>1, <3>2
  <2>2. q = [i \in 1..(N + 1) |-> q[i]]
    BY <1>4, LenProperties
  <2> QED BY <1>5, <2>1, <2>2 DEF Ends
<1>9. Told(p) = more
  <2>1. Told(p) = UNION {p[i].tools : i \in {j \in 1..(N + 1) : p[j].end # "timeout"}}
    BY <1>5 DEF Told
  <2>2. Told(ats) = UNION {ats[i].tools : i \in {j \in 1..N : ats[j].end # "timeout"}}
    BY <1>5 DEF Told
  <2>3. ASSUME NEW x \in Told(p) PROVE x \in more
    <3>1. PICK i \in 1..(N + 1) : p[i].end # "timeout" /\ x \in p[i].tools
      BY <2>1
    <3>2. CASE i \in 1..N
      BY <1>3, <1>6, <2>2, <3>1, <3>2
    <3>3. CASE i = N + 1
      BY <1>1, <1>3, <3>1, <3>3
    <3> QED BY <1>2, <3>2, <3>3
  <2>4. ASSUME NEW x \in more PROVE x \in Told(p)
    <3>1. CASE x \in tools
      <4>1. PICK i \in 1..N : ats[i].end # "timeout" /\ x \in ats[i].tools
        BY <1>6, <2>2, <3>1
      <4>2. i \in 1..(N + 1) /\ p[i] = ats[i]
        BY <1>2, <1>3
      <4> QED BY <2>1, <4>1, <4>2
    <3>2. CASE f # "timeout" /\ x \in used
      <4>1. N + 1 \in 1..(N + 1) /\ p[N + 1].end # "timeout" /\ x \in p[N + 1].tools
        BY <1>1, <1>2, <1>3, <3>2
      <4> QED BY <2>1, <4>1
    <3> QED BY <3>1, <3>2
  <2> QED BY <2>3, <2>4
<1>10. Recorded(p, q, more)
  BY <1>3, <1>4, <1>7, <1>8, <1>9 DEF Recorded
<1> QED BY <1>10 DEF p, q

LEMMA DegradationStep ==
  [ComponentsNext]_componentsVars => Degrading!Next \/ UNCHANGED degradationVars
  BY DEF ComponentsNext, componentsVars

LEMMA InitDegradation == ComponentsInit => DegradationInv
<1> SUFFICES ASSUME ComponentsInit PROVE DegradationInv
  OBVIOUS
<1>1. /\ hasContext \in BOOLEAN /\ calls = <<>> /\ errors = <<>> /\ toolsAttempted = {}
      /\ outcome = [status |-> "trying"] /\ attempts = <<>>
  BY DEF ComponentsInit, Degrading!Init
<1>2. /\ <<>> \in Seq(Degrading!ToolCall) /\ <<>> \in Seq(Degrading!Failures)
      /\ <<>> \in Seq([tools : SUBSET Tools, end : Degrading!Failures \cup {"fine"}])
      /\ Len(<<>>) = 0 /\ DOMAIN <<>> = {}
  BY EmptySeq
<1>3. /\ calls \in Seq(Degrading!ToolCall) /\ errors \in Seq(Degrading!Failures)
      /\ attempts \in Seq([tools : SUBSET Tools, end : Degrading!Failures \cup {"fine"}])
  BY <1>1, <1>2
<1>4. Len(calls) = 0 /\ Len(errors) = 0 /\ Len(attempts) = 0 /\ DOMAIN attempts = {}
  BY <1>1, <1>2
<1>5. Len(calls) <= MaxCalls /\ Len(errors) <= MaxRetries + 1 /\ Len(attempts) <= MaxRetries
  BY <1>4, Bounds
<1>6. Degrading!TypeOK
  BY <1>1, <1>3, <1>5 DEF Degrading!TypeOK
<1>7. Recorded(attempts, errors, toolsAttempted)
  <2>1. Told(attempts) = {}
    BY <1>4 DEF Told
  <2>2. errors = Ends(attempts)
    BY <1>1, <1>4 DEF Ends
  <2> QED BY <1>1, <1>4, <2>1, <2>2 DEF Recorded
<1> QED BY <1>1, <1>5, <1>6, <1>7 DEF DegradationInv

LEMMA DegradationFacts ==
  ASSUME DegradationInv
  PROVE  /\ attempts \in Seq(Attempt) /\ Len(attempts) \in Nat
         /\ errors \in Seq(Degrading!Failures) /\ Len(errors) \in Nat
         /\ toolsAttempted \subseteq Tools
         /\ Degrading!ToolsOf(calls) \subseteq Tools
<1>1. /\ attempts \in Seq(Attempt) /\ errors \in Seq(Degrading!Failures)
      /\ calls \in Seq(Degrading!ToolCall) /\ toolsAttempted \subseteq Tools
  BY DEF DegradationInv, Degrading!TypeOK, Attempt
<1>2. Len(attempts) \in Nat /\ Len(errors) \in Nat
  BY <1>1, SeqFacts
<1>3. \A i \in DOMAIN calls : calls[i] \in Degrading!ToolCall
  BY <1>1, SeqFacts
<1> QED BY <1>1, <1>2, <1>3 DEF Degrading!ToolsOf, Degrading!ToolCall

LEMMA EndOfAttempt ==
  ASSUME DegradationInv, Degrading!Trying, NEW f \in Degrading!Failures, NEW tools,
         tools = IF f = "timeout" THEN toolsAttempted
                 ELSE toolsAttempted \cup Degrading!ToolsOf(calls),
         Degrading!EndAttempt(f, tools), hasContext' = hasContext
  PROVE  DegradationInv'
<1> DEFINE used == Degrading!ToolsOf(calls)
           e == [tools |-> used, end |-> f]
<1>1. /\ attempts \in Seq(Attempt) /\ Len(attempts) \in Nat
      /\ errors \in Seq(Degrading!Failures) /\ used \in SUBSET Tools
      /\ toolsAttempted \subseteq Tools
  BY DegradationFacts
<1>2. outcome.status = "trying" /\ Len(attempts) <= MaxRetries
      /\ Recorded(attempts, errors, toolsAttempted)
  BY DEF DegradationInv, Degrading!Trying
<1>3. /\ errors' = Append(errors, f) /\ toolsAttempted' = tools
      /\ outcome' = IF Len(errors) < MaxRetries THEN outcome
                    ELSE [status |-> "escalated", tools |-> tools]
      /\ attempts' = Append(attempts, e) /\ calls' = <<>>
  BY DEF Degrading!EndAttempt
<1>4. /\ attempts' \in Seq(Attempt) /\ Len(attempts') = Len(attempts) + 1
      /\ errors' \in Seq(Degrading!Failures) /\ Len(errors') = Len(errors) + 1
      /\ Recorded(attempts', errors', tools)
  <2>1. e \in Attempt /\ e.end = f /\ e.tools = used /\ f # "fine"
    BY <1>1 DEF Attempt, Degrading!Failures
  <2>2. tools = IF e.end = "timeout" THEN toolsAttempted ELSE toolsAttempted \cup e.tools
    BY <2>1
  <2> HIDE DEF used, e
  <2>3. Append(attempts, e) \in Seq(Attempt) /\ Len(Append(attempts, e)) = Len(attempts) + 1
    BY <1>1, <2>1, AppendFacts
  <2>4. /\ Append(errors, f) \in Seq(Degrading!Failures)
        /\ Len(Append(errors, f)) = Len(errors) + 1
    BY <1>1, AppendFacts
  <2>5. Recorded(Append(attempts, e), Append(errors, e.end),
                 IF e.end = "timeout" THEN toolsAttempted ELSE toolsAttempted \cup e.tools)
    BY <1>1, <1>2, <2>1, RecordedAppend
  <2> QED BY <1>3, <2>1, <2>2, <2>3, <2>4, <2>5
<1>5. Len(errors) = Len(attempts)
  BY <1>2 DEF Recorded
<1>6. tools \subseteq Tools
  BY <1>1
<1>7. outcome' \in [status : {"trying", "raised", "returned"}]
                   \cup [status : {"escalated"}, tools : SUBSET Tools]
  BY <1>3, <1>6 DEF DegradationInv, Degrading!TypeOK
<1>8. calls' \in Seq(Degrading!ToolCall) /\ Len(calls') <= MaxCalls
  <2>1. <<>> \in Seq(Degrading!ToolCall) /\ Len(<<>>) = 0
    BY EmptySeq
  <2> QED BY <1>3, <2>1, Bounds
<1>9. Len(errors') <= MaxRetries + 1
  BY <1>1, <1>2, <1>4, <1>5, Bounds
<1>10. hasContext' \in BOOLEAN
  BY DEF DegradationInv, Degrading!TypeOK
<1>11. Degrading!TypeOK'
  BY <1>3, <1>4, <1>6, <1>7, <1>8, <1>9, <1>10 DEF Degrading!TypeOK, Attempt
<1>12. CASE Len(errors) < MaxRetries
  <2>1. outcome' = outcome /\ Len(attempts') <= MaxRetries
    BY <1>1, <1>3, <1>4, <1>5, <1>12, Bounds
  <2> QED BY <1>2, <1>3, <1>4, <1>11, <2>1 DEF DegradationInv
<1>13. CASE ~(Len(errors) < MaxRetries)
  <2>1. /\ outcome' = [status |-> "escalated", tools |-> tools]
        /\ Len(attempts') = MaxRetries + 1
    BY <1>1, <1>2, <1>3, <1>4, <1>5, <1>13, Bounds
  <2> QED BY <1>4, <1>11, <2>1 DEF DegradationInv
<1> QED BY <1>12, <1>13

LEMMA NextDegradation ==
  DegradationInv /\ [ComponentsNext]_componentsVars => DegradationInv'
<1> SUFFICES ASSUME DegradationInv, [ComponentsNext]_componentsVars PROVE DegradationInv'
  OBVIOUS
<1>0. Degrading!Next \/ UNCHANGED degradationVars
  BY DegradationStep
<1>1. ASSUME NEW tool \in Tools, NEW success \in BOOLEAN, Degrading!CallTool(tool, success)
      PROVE  DegradationInv'
  <2> DEFINE e == [tool |-> tool, success |-> success]
  <2>1. /\ calls \in Seq(Degrading!ToolCall) /\ Len(calls) < MaxCalls
        /\ calls' = Append(calls, e)
        /\ UNCHANGED <<hasContext, errors, toolsAttempted, outcome, attempts>>
    BY <1>1 DEF DegradationInv, Degrading!TypeOK, Degrading!CallTool
  <2>2. e \in Degrading!ToolCall
    BY DEF Degrading!ToolCall
  <2> HIDE DEF e
  <2>3. Append(calls, e) \in Seq(Degrading!ToolCall) /\ Len(Append(calls, e)) = Len(calls) + 1
    BY <2>1, <2>2, AppendFacts
  <2>4. calls' \in Seq(Degrading!ToolCall) /\ Len(calls') <= MaxCalls
    BY <2>1, <2>3, SeqFacts, Bounds
  <2> QED BY <2>1, <2>4 DEF DegradationInv, Degrading!TypeOK
<1>2. CASE Degrading!Timeout
  <2>1. "timeout" \in Degrading!Failures
    BY DEF Degrading!Failures
  <2> QED BY <1>2, <2>1, EndOfAttempt DEF Degrading!Timeout
<1>3. ASSUME NEW response \in Degrading!Responses, Degrading!AgentAnswers(response)
      PROVE  DegradationInv'
  <2> DEFINE f == Degrading!FailureOf(response)
             used == Degrading!ToolsOf(calls)
             e == [tools |-> used, end |-> "fine"]
  <2>1. f = "none" \/ (f \in Degrading!Failures /\ f # "timeout")
    BY DEF Degrading!FailureOf, Degrading!Failures
  <2>2. CASE f # "none"
    <3>1. Degrading!EndAttempt(f, toolsAttempted \cup used)
      BY <1>3, <2>2 DEF Degrading!AgentAnswers
    <3>2. Degrading!Trying /\ hasContext' = hasContext
      BY <1>3 DEF Degrading!AgentAnswers
    <3> HIDE DEF f
    <3> QED BY <2>1, <2>2, <3>1, <3>2, EndOfAttempt
  <2>3. CASE f = "none"
    <3>1. /\ attempts \in Seq(Attempt) /\ Len(attempts) \in Nat
          /\ used \in SUBSET Tools /\ toolsAttempted \subseteq Tools
      BY DegradationFacts
    <3>2. outcome.status = "trying"
      BY <1>3 DEF Degrading!AgentAnswers, Degrading!Trying
    <3>3. /\ outcome' = [status |-> "returned"]
          /\ toolsAttempted' = toolsAttempted \cup used
          /\ attempts' = Append(attempts, e)
          /\ calls' = <<>> /\ UNCHANGED <<errors, hasContext>>
      BY <1>3, <2>3 DEF Degrading!AgentAnswers
    <3>4. Len(attempts) <= MaxRetries /\ \A i \in 1..Len(attempts) : attempts[i].end # "fine"
      BY <3>2 DEF DegradationInv, Recorded
    <3>5. e \in Attempt /\ e.end = "fine"
      BY <3>1 DEF Attempt
    <3> HIDE DEF e
    <3>6. /\ attempts' \in Seq(Attempt) /\ Len(attempts') = Len(attempts) + 1
          /\ \A i \in 1..Len(attempts) : attempts'[i] = attempts[i]
          /\ attempts'[Len(attempts) + 1] = e
      BY <3>1, <3>3, <3>5, AppendFacts
    <3>7. /\ Len(attempts') \in 1..(MaxRetries + 1)
          /\ \A i \in 1..Len(attempts') : attempts'[i].end = "fine" <=> i = Len(attempts')
      BY <3>1, <3>4, <3>5, <3>6, Bounds
    <3>8. calls' \in Seq(Degrading!ToolCall) /\ Len(calls') <= MaxCalls
      <4>1. <<>> \in Seq(Degrading!ToolCall) /\ Len(<<>>) = 0
        BY EmptySeq
      <4> QED BY <3>3, <4>1, Bounds
    <3>9. Degrading!TypeOK'
      BY <3>1, <3>3, <3>6, <3>8 DEF DegradationInv, Degrading!TypeOK, Attempt
    <3> QED BY <3>3, <3>7, <3>9 DEF DegradationInv
  <2> QED BY <2>2, <2>3
<1>4. CASE Degrading!AgentRaises
  <2>1. /\ outcome.status = "trying" /\ outcome' = [status |-> "raised"]
        /\ UNCHANGED <<hasContext, calls, errors, toolsAttempted, attempts>>
    BY <1>4 DEF Degrading!AgentRaises, Degrading!Trying
  <2> QED BY <2>1 DEF DegradationInv, Degrading!TypeOK
<1>5. CASE UNCHANGED degradationVars
  BY <1>5 DEF degradationVars, DegradationInv, Degrading!TypeOK
<1> QED BY <1>0, <1>1, <1>2, <1>3, <1>4, <1>5 DEF Degrading!Next

LEMMA DegradationAlways == ComponentsSpec => []DegradationInv
  BY InitDegradation, NextDegradation, PTL DEF ComponentsSpec

\* EscalationTellsWhatHappened of Degradation: for any tools, number of
\* retries and of tool calls.
THEOREM EscalationIsTrue == ComponentsSpec => []EscalationTellsWhatHappened
<1>1. DegradationInv => EscalationTellsWhatHappened
  <2> SUFFICES ASSUME DegradationInv PROVE Degrading!EscalationTellsWhatHappened
    BY DEF EscalationTellsWhatHappened
  <2> DEFINE failed == {i \in DOMAIN attempts : attempts[i].end # "fine"}
             known == {i \in DOMAIN attempts : attempts[i].end # "timeout"}
  <2>1. DOMAIN attempts = 1..Len(attempts) /\ Len(attempts) \in Nat
    BY DegradationFacts, SeqFacts
  <2>2. ASSUME outcome.status = "escalated"
        PROVE  /\ Len(attempts) = MaxRetries + 1 /\ failed = DOMAIN attempts
               /\ errors = [i \in DOMAIN attempts |-> attempts[i].end]
               /\ outcome.tools = UNION {attempts[i].tools : i \in known}
    BY <2>1, <2>2 DEF DegradationInv, Recorded, Ends, Told
  <2>3. ASSUME outcome.status = "returned"
        PROVE  /\ attempts # <<>> /\ Len(attempts) <= MaxRetries + 1
               /\ failed = 1..(Len(attempts) - 1)
    <3>1. /\ Len(attempts) \in 1..(MaxRetries + 1)
          /\ \A i \in 1..Len(attempts) : attempts[i].end = "fine" <=> i = Len(attempts)
      BY <2>3 DEF DegradationInv
    <3>2. attempts # <<>>
      BY <3>1, EmptySeq
    <3>3. failed = {i \in 1..Len(attempts) : i # Len(attempts)}
      BY <2>1, <3>1
    <3>4. {i \in 1..Len(attempts) : i # Len(attempts)} = 1..(Len(attempts) - 1)
      BY <2>1
    <3>5. Len(attempts) <= MaxRetries + 1
      BY <3>1, Bounds
    <3> QED BY <3>2, <3>3, <3>4, <3>5
  <2>4. ASSUME outcome.status = "trying"
        PROVE  failed = DOMAIN attempts /\ Len(attempts) <= MaxRetries
    BY <2>1, <2>4 DEF DegradationInv, Recorded
  <2> QED BY <2>2, <2>3, <2>4 DEF Degrading!EscalationTellsWhatHappened
<1> QED BY <1>1, DegradationAlways, PTL

-----------------------------------------------------------------------------
(* The gap analysis. *)

LEMMA AdviseKept ==
  ASSUME NEW s, NEW keep
  PROVE  Advise!Kept(s, keep) = Kept(s, keep)
  BY DEF Advise!Kept, Kept

\* The instance has its own copies of the operators on finite sets.
LEMMA AdviseSets ==
  /\ \A S : Advise!Cardinality(S) = Cardinality(S)
  /\ \A S : Advise!IsFiniteSet(S) <=> IsFiniteSet(S)
<1>1. ASSUME NEW S PROVE Advise!IsFiniteSet(S) <=> IsFiniteSet(S)
  BY DEF Advise!IsFiniteSet, IsFiniteSet
<1>2. ASSUME NEW S PROVE Advise!Cardinality(S) = Cardinality(S)
  BY DEF Advise!Cardinality, Cardinality
<1> QED BY <1>1, <1>2

LEMMA TreeFacts ==
  ASSUME NEW tree, Advise!IsTree(tree)
  PROVE  /\ Len(tree) \in Nat /\ DOMAIN tree = 1..Len(tree) /\ 1 \in 1..Len(tree)
         /\ tree[1].parent = 0
         /\ \A n \in 1..Len(tree) :
              /\ tree[n].kind \in {"leaf", "and", "or"}
              /\ IsFiniteSet(tree[n].pool) /\ tree[n].need \in Int
              /\ n > 1 => /\ tree[n].parent \in 1..(n - 1)
                          /\ tree[tree[n].parent].kind # "leaf"
<1>1. tree \in Seq(Advise!ToSet(tree)) /\ tree # <<>>
  BY DEF Advise!IsTree
<1>2. Len(tree) \in Nat /\ DOMAIN tree = 1..Len(tree)
  <2> DEFINE S == Advise!ToSet(tree)
  <2> HIDE DEF S
  <2> QED BY <1>1, SeqFacts DEF S
<1>3. Len(tree) # 0
  BY <1>1, EmptySeq
<1>4. 1 \in 1..Len(tree)
  BY <1>2, <1>3
<1>5. tree[1].parent = 0
  BY DEF Advise!IsTree
<1>6. ASSUME NEW n \in 1..Len(tree)
      PROVE  /\ tree[n].kind \in {"leaf", "and", "or"}
             /\ IsFiniteSet(tree[n].pool) /\ tree[n].need \in Int
             /\ n > 1 => /\ tree[n].parent \in 1..(n - 1)
                         /\ tree[tree[n].parent].kind # "leaf"
  <2>1. n \in DOMAIN tree
    BY <1>2
  <2>2. Advise!IsFiniteSet(tree[n].pool)
    BY <2>1 DEF Advise!IsTree
  <2>3. IsFiniteSet(tree[n].pool)
    BY <2>2, AdviseSets
  <2> QED BY <2>1, <2>3 DEF Advise!IsTree
<1> QED BY <1>2, <1>4, <1>5, <1>6

\* What _walk returns for node n, given what it returns for the nodes after it.
Verdict(tree, completed, sat, n) ==
  \/ /\ tree[n].kind = "leaf"
     /\ Advise!Cardinality(Advise!Already(tree[n], completed)) >= tree[n].need
  \/ tree[n].kind = "and" /\ \A c \in Advise!Children(tree, n) : sat[c]
  \/ tree[n].kind = "or" /\ \E c \in Advise!Children(tree, n) : sat[c]

IsWalk(sat, tree, completed) ==
  sat = [n \in DOMAIN tree |->
     \/ /\ tree[n].kind = "leaf"
        /\ Advise!Cardinality(Advise!Already(tree[n], completed)) >= tree[n].need
     \/ tree[n].kind = "and" /\ \A c \in Advise!Children(tree, n) : sat[c]
     \/ tree[n].kind = "or" /\ \E c \in Advise!Children(tree, n) : sat[c]]

LEMMA WalkIs ==
  ASSUME NEW tree, NEW completed
  PROVE  Advise!Walk(tree, completed) = CHOOSE sat : IsWalk(sat, tree, completed)
  BY DEF Advise!Walk, IsWalk

LEMMA ChildrenAfter ==
  ASSUME NEW tree, Advise!IsTree(tree), NEW n \in 1..Len(tree),
         NEW c \in Advise!Children(tree, n)
  PROVE  c \in 1..Len(tree) /\ c \in (n + 1)..Len(tree) /\ tree[n].kind # "leaf"
<1>1. Len(tree) \in Nat /\ DOMAIN tree = 1..Len(tree) /\ tree[1].parent = 0
  BY TreeFacts
<1>2. c \in 1..Len(tree) /\ tree[c].parent = n
  BY <1>1 DEF Advise!Children
<1>3. c # 1
  BY <1>1, <1>2
<1>4. c > 1
  BY <1>1, <1>2, <1>3
<1>5. tree[c].parent \in 1..(c - 1) /\ tree[tree[c].parent].kind # "leaf"
  BY <1>2, <1>4, TreeFacts
<1> QED BY <1>1, <1>2, <1>5

\* The recursion of _walk ends, because a child comes after its parent; at a
\* leaf it counts.
LEMMA WalkFacts ==
  ASSUME NEW tree, Advise!IsTree(tree), NEW completed
  PROVE  \A n \in 1..Len(tree) : tree[n].kind = "leaf" =>
           (Advise!Walk(tree, completed)[n] <=>
              Cardinality(Advise!Already(tree[n], completed)) >= tree[n].need)
<1> DEFINE N == Len(tree)
           Step(f, n) == Verdict(tree, completed, f, n)
           T == {k \in Nat : k <= N =>
                   \E f : \A n \in (N - k + 1)..N : f[n] = Step(f, n)}
<1>1. N \in Nat /\ DOMAIN tree = 1..N
  BY TreeFacts
<1>2. \A n \in 1..N : Advise!Children(tree, n) \subseteq (n + 1)..N
  BY ChildrenAfter
<1> HIDE DEF N
<1>3. 0 \in T
  BY <1>1
<1>4. ASSUME NEW k \in Nat, k \in T PROVE k + 1 \in T
  <2>1. SUFFICES ASSUME k + 1 <= N
                 PROVE  \E f : \A n \in (N - (k + 1) + 1)..N : f[n] = Step(f, n)
    OBVIOUS
  <2>2. PICK f : \A n \in (N - k + 1)..N : f[n] = Step(f, n)
    BY <1>1, <1>4, <2>1
  <2> DEFINE h == [n \in (N - k)..N |-> IF n = N - k THEN Step(f, n) ELSE f[n]]
  <2>3. ASSUME NEW n \in (N - k)..N PROVE h[n] = Step(f, n)
    BY <1>1, <2>2, <2>3
  <2>4. ASSUME NEW n \in (N - k)..N PROVE Step(h, n) = Step(f, n)
    <3>1. n \in 1..N
      BY <1>1, <2>1
    <3>2. \A c \in Advise!Children(tree, n) : h[c] = f[c]
      <4> TAKE c \in Advise!Children(tree, n)
      <4>1. c \in (n + 1)..N
        BY <1>2, <3>1
      <4>2. c \in (N - k)..N /\ c # N - k
        BY <1>1, <4>1
      <4> QED BY <4>2
    <3> HIDE DEF h
    <3> QED BY <3>2 DEF Verdict
  <2> HIDE DEF h, Step
  <2>5. \A n \in (N - k)..N : h[n] = Step(h, n)
    BY <2>3, <2>4
  <2>6. N - (k + 1) + 1 = N - k
    BY <1>1
  <2> QED BY <2>5, <2>6
<1>5. Nat \subseteq T
  <2> HIDE DEF T
  <2> QED BY <1>3, <1>4, SetInduction
<1>6. PICK f : \A n \in 1..N : f[n] = Step(f, n)
  <2>1. \E f : \A n \in (N - N + 1)..N : f[n] = Step(f, n)
    BY <1>1, <1>5
  <2>2. N - N + 1 = 1
    BY <1>1
  <2> QED BY <2>1, <2>2
<1> DEFINE g == [n \in 1..N |-> f[n]]
           walk == CHOOSE sat : IsWalk(sat, tree, completed)
<1>7. IsWalk(g, tree, completed)
  <2>1. ASSUME NEW n \in 1..N PROVE g[n] = Step(g, n)
    <3>1. \A c \in Advise!Children(tree, n) : g[c] = f[c]
      BY <1>1, <1>2
    <3>2. g[n] = Step(f, n)
      BY <1>6
    <3> HIDE DEF g
    <3> QED BY <3>1, <3>2 DEF Verdict
  <2>2. g = [n \in 1..N |-> g[n]]
    OBVIOUS
  <2> HIDE DEF g
  <2> QED BY <1>1, <2>1, <2>2 DEF Verdict, IsWalk
<1>8. IsWalk(walk, tree, completed)
  <2> HIDE DEF g
  <2> QED BY <1>7
<1>9. Advise!Walk(tree, completed) = walk
  BY WalkIs
<1> HIDE DEF walk, g, Step
<1>10. ASSUME NEW n \in 1..N, tree[n].kind = "leaf"
       PROVE  walk[n] <=>
                Advise!Cardinality(Advise!Already(tree[n], completed)) >= tree[n].need
  <2>1. n \in DOMAIN tree
    BY <1>1
  <2>2. walk[n] <=>
          \/ /\ tree[n].kind = "leaf"
             /\ Advise!Cardinality(Advise!Already(tree[n], completed)) >= tree[n].need
          \/ tree[n].kind = "and" /\ \A c \in Advise!Children(tree, n) : walk[c]
          \/ tree[n].kind = "or" /\ \E c \in Advise!Children(tree, n) : walk[c]
    BY <1>8, <2>1 DEF IsWalk
  <2> QED BY <1>10, <2>2
<1> QED BY <1>9, <1>10, AdviseSets DEF N

\* The leaves that are short of courses.
Short(tree, completed) ==
  {n \in 1..Len(tree) :
     /\ tree[n].kind = "leaf"
     /\ Cardinality(Advise!Already(tree[n], completed)) < tree[n].need}

\* Every short leaf is reported, with what it misses, and nothing else is.
LEMMA Reported ==
  ASSUME NEW tree, Advise!IsTree(tree), NEW completed,
         NEW found, found = Advise!Unsatisfied(tree, completed)
  PROVE  /\ \A n \in Short(tree, completed) : \E i \in DOMAIN found :
              /\ found[i].pool = tree[n].pool
              /\ found[i].already = Advise!Already(tree[n], completed)
              /\ found[i].need =
                   tree[n].need - Cardinality(Advise!Already(tree[n], completed))
         /\ Short(tree, completed) = {} => found = <<>>
<1> DEFINE N == Len(tree)
           nodes == [n \in DOMAIN tree |-> n]
           keep == {n \in DOMAIN tree : tree[n].kind = "leaf"
                                        /\ ~Advise!Walk(tree, completed)[n]}
           short == Kept(nodes, keep)
<1>1. N \in Nat /\ DOMAIN tree = 1..N
  BY TreeFacts
<1>2. keep = Short(tree, completed)
  <2>1. ASSUME NEW n \in 1..N, tree[n].kind = "leaf"
        PROVE  ~Advise!Walk(tree, completed)[n] <=>
                 Cardinality(Advise!Already(tree[n], completed)) < tree[n].need
    <3>1. tree[n].need \in Int /\ IsFiniteSet(tree[n].pool)
      BY TreeFacts
    <3>2. IsFiniteSet(Advise!Already(tree[n], completed))
      BY <3>1, FS_Intersection DEF Advise!Already
    <3>3. Cardinality(Advise!Already(tree[n], completed)) \in Nat
      BY <3>2, FS_CardinalityType
    <3> QED BY <2>1, <3>1, <3>3, WalkFacts
  <2> QED BY <1>1, <2>1 DEF Short
<1>3. nodes \in Seq(1..N) /\ Len(nodes) = N /\ \A n \in 1..N : nodes[n] = n
  BY <1>1
<1>4. found = [i \in DOMAIN short |->
                 [pool |-> tree[short[i]].pool,
                  already |-> Advise!Already(tree[short[i]], completed),
                  need |-> tree[short[i]].need
                             - Cardinality(Advise!Already(tree[short[i]], completed))]]
  <2>1. short = Advise!Kept(nodes, keep)
    BY AdviseKept
  <2> HIDE DEF short
  <2> QED BY <2>1, AdviseSets DEF Advise!Unsatisfied
<1> HIDE DEF nodes, keep
<1>5. short \in Seq((1..N) \cap keep)
  <2> DEFINE S == 1..N
  <2> HIDE DEF S
  <2> QED BY <1>3, KeptType DEF S
<1>6. DOMAIN short = 1..Len(short) /\ Len(short) \in Nat
  BY <1>5, SeqFacts
<1>7. ASSUME NEW n \in keep
      PROVE  \E i \in DOMAIN found :
              /\ found[i].pool = tree[n].pool
              /\ found[i].already = Advise!Already(tree[n], completed)
              /\ found[i].need =
                   tree[n].need - Cardinality(Advise!Already(tree[n], completed))
  <2>1. n \in 1..Len(nodes) /\ nodes[n] = n
    BY <1>2, <1>3 DEF Short
  <2>2. \E j \in 1..Len(Kept(nodes, keep)) : Kept(nodes, keep)[j] = nodes[n]
    <3> DEFINE S == 1..N
    <3>1. nodes \in Seq(S) /\ nodes[n] \in keep
      BY <1>3, <2>1
    <3> HIDE DEF S
    <3> QED BY <2>1, <3>1, KeptAll
  <2>3. PICK i \in DOMAIN short : short[i] = n
    BY <1>6, <2>1, <2>2
  <2> HIDE DEF short
  <2> QED BY <1>4, <2>3
<1>8. ASSUME keep = {} PROVE found = <<>>
  <2>1. short \in Seq({})
    BY <1>5, <1>8
  <2>2. Len(short) = 0
    <3> HIDE DEF short
    <3>1. Len(short) \notin 1..Len(short)
      BY <2>1, SeqFacts
    <3> QED BY <1>6, <3>1
  <2>3. DOMAIN short = {}
    BY <1>6, <2>2
  <2> HIDE DEF short
  <2> QED BY <1>4, <2>3
<1> QED BY <1>2, <1>7, <1>8

\* What a leaf has of its pool after one has passed X as well.
LEMMA Passed ==
  ASSUME NEW pool, IsFiniteSet(pool), NEW completed, NEW X, NEW need \in Int,
         Cardinality(pool \cap completed) < need =>
           Cardinality(X \cap (pool \ (pool \cap completed)))
             >= need - Cardinality(pool \cap completed)
  PROVE  Cardinality(pool \cap (completed \cup X)) >= need
<1> DEFINE already == pool \cap completed
           more == X \cap (pool \ already)
<1>1. IsFiniteSet(already) /\ IsFiniteSet(more)
  <2>1. already \subseteq pool /\ more \subseteq pool
    OBVIOUS
  <2> QED BY <2>1, FS_Subset
<1>2. pool \cap (completed \cup X) = already \cup more /\ already \cap more = {}
  OBVIOUS
<1> HIDE DEF already, more
<1>3. Cardinality(already) \in Nat /\ Cardinality(more) \in Nat
  BY <1>1, FS_CardinalityType
<1>4. Cardinality(already \cup more) =
        Cardinality(already) + Cardinality(more) - Cardinality(already \cap more)
  BY <1>1, FS_Union
<1>5. Cardinality(already \cap more) = 0
  BY <1>2, FS_EmptySet
<1>6. Cardinality(already) < need => Cardinality(more) >= need - Cardinality(already)
  BY DEF already, more
<1>7. Cardinality(already \cup more) = Cardinality(already) + Cardinality(more)
  BY <1>3, <1>4, <1>5
<1>8. Cardinality(already) + Cardinality(more) >= need
  BY <1>3, <1>6
<1> QED BY <1>2, <1>7, <1>8

\* Passing what every reported pool misses is enough: all nodes can be chosen.
LEMMA Enough ==
  ASSUME NEW tree, Advise!IsTree(tree), NEW completed, NEW X,
         \A n \in Short(tree, completed) :
           Cardinality(X \cap (tree[n].pool \ Advise!Already(tree[n], completed)))
             >= tree[n].need - Cardinality(Advise!Already(tree[n], completed)),
         \A n \in 1..Len(tree) : tree[n].kind = "or" => Advise!Children(tree, n) # {}
  PROVE  Advise!Satisfied(tree, completed \cup X)
<1> DEFINE N == Len(tree)
           chosen == 1..N
<1>1. DOMAIN tree = 1..N /\ 1 \in chosen
  BY TreeFacts
<1>2. ASSUME NEW n \in 1..N, tree[n].kind = "leaf"
      PROVE  Advise!Cardinality(tree[n].pool \cap (completed \cup X)) >= tree[n].need
  <2>1. IsFiniteSet(tree[n].pool) /\ tree[n].need \in Int
    BY TreeFacts
  <2>2. Cardinality(tree[n].pool \cap completed) < tree[n].need =>
          Cardinality(X \cap (tree[n].pool \ (tree[n].pool \cap completed)))
            >= tree[n].need - Cardinality(tree[n].pool \cap completed)
    BY <1>2 DEF Short, Advise!Already
  <2>3. Cardinality(tree[n].pool \cap (completed \cup X)) >= tree[n].need
    BY <2>1, <2>2, Passed
  <2> QED BY <2>3, AdviseSets
<1>3. ASSUME NEW n \in 1..N
      PROVE  /\ Advise!Children(tree, n) \subseteq chosen
             /\ tree[n].kind = "or" => Advise!Children(tree, n) \cap chosen # {}
  <2>1. Advise!Children(tree, n) \subseteq chosen
    BY <1>1 DEF Advise!Children
  <2> QED BY <2>1
<1>4. chosen \in SUBSET DOMAIN tree
  BY <1>1
<1> HIDE DEF N
<1>5. \A n \in chosen :
        /\ tree[n].kind = "leaf" =>
             Advise!Cardinality(tree[n].pool \cap (completed \cup X)) >= tree[n].need
        /\ tree[n].kind = "and" => Advise!Children(tree, n) \subseteq chosen
        /\ tree[n].kind = "or" => Advise!Children(tree, n) \cap chosen # {}
  BY <1>2, <1>3
<1> HIDE DEF chosen
<1> QED BY <1>1, <1>4, <1>5 DEF Advise!Satisfied

\* Without an "or" every node of a satisfied tree is chosen, so none is short.
LEMMA Needed ==
  ASSUME NEW tree, Advise!IsTree(tree), NEW completed,
         ~Advise!Has(tree, "or"), Advise!Satisfied(tree, completed)
  PROVE  Short(tree, completed) = {}
<1> DEFINE N == Len(tree)
<1>1. N \in Nat /\ DOMAIN tree = 1..N
  BY TreeFacts
<1>2. PICK chosen \in SUBSET (1..N) :
        /\ 1 \in chosen
        /\ \A n \in chosen :
             /\ tree[n].kind = "leaf" =>
                  Advise!Cardinality(tree[n].pool \cap completed) >= tree[n].need
             /\ tree[n].kind = "and" => Advise!Children(tree, n) \subseteq chosen
  BY <1>1 DEF Advise!Satisfied
<1> DEFINE T == {k \in Nat : \A n \in 1..N : n <= k => n \in chosen}
<1>3. 0 \in T
  OBVIOUS
<1>4. ASSUME NEW k \in Nat, k \in T PROVE k + 1 \in T
  <2>1. ASSUME NEW n \in 1..N, n <= k + 1 PROVE n \in chosen
    <3>1. CASE n = 1
      BY <1>2, <3>1
    <3>2. CASE n # 1 /\ n = k + 1
      <4>1. n > 1
        BY <3>2
      <4>2. tree[n].parent \in 1..(n - 1) /\ tree[tree[n].parent].kind # "leaf"
        BY <4>1, TreeFacts
      <4>3. tree[n].parent \in 1..N /\ tree[n].parent <= k
        BY <1>1, <3>2, <4>2
      <4>4. tree[n].parent \in chosen
        BY <1>4, <4>3
      <4>5. tree[tree[n].parent].kind = "and"
        BY <1>1, <4>2, <4>3, TreeFacts DEF Advise!Has
      <4>6. n \in Advise!Children(tree, tree[n].parent)
        BY <1>1 DEF Advise!Children
      <4> QED BY <1>2, <4>4, <4>5, <4>6
    <3>3. CASE n <= k
      BY <1>4, <3>3
    <3> QED BY <2>1, <3>1, <3>2, <3>3
  <2> QED BY <2>1
<1>5. Nat \subseteq T
  <2> HIDE DEF T
  <2> QED BY <1>3, <1>4, SetInduction
<1>6. \A n \in 1..N : n \in chosen
  BY <1>1, <1>5
<1>7. ASSUME NEW n \in Short(tree, completed) PROVE FALSE
  <2>1. n \in 1..N /\ tree[n].kind = "leaf"
        /\ Cardinality(tree[n].pool \cap completed) < tree[n].need
    BY <1>7 DEF Short, Advise!Already
  <2>2. Cardinality(tree[n].pool \cap completed) >= tree[n].need
    BY <1>2, <1>6, <2>1, AdviseSets
  <2>3. tree[n].need \in Int /\ IsFiniteSet(tree[n].pool)
    BY <2>1, TreeFacts
  <2>4. Cardinality(tree[n].pool \cap completed) \in Nat
    BY <2>3, FS_Intersection, FS_CardinalityType
  <2> QED BY <2>1, <2>2, <2>3, <2>4
<1> QED BY <1>7

GapInv ==
  subject = "advising" =>
    /\ request \in Requests
    /\ computed => gaps = Advise!Unsatisfied(request.program, request.completed)

LEMMA GapAlways == ComponentsSpec => []GapInv
<1>1. ComponentsInit => GapInv
  BY DEF ComponentsInit, Advise!Init, GapInv
<1>2. ASSUME GapInv, [ComponentsNext]_componentsVars PROVE GapInv'
  <2>1. CASE subject = "advising" /\ subject' = subject /\ Advise!Next
    BY <1>2, <2>1 DEF GapInv, Advise!Next, Advise!RunSteps
  <2>2. CASE subject # "advising" /\ subject' = subject
    BY <2>2 DEF GapInv
  <2>3. CASE UNCHANGED <<subject, adviseVars>>
    BY <1>2, <2>3 DEF GapInv, adviseVars
  <2> QED BY <1>2, <2>1, <2>2, <2>3 DEF ComponentsNext, componentsVars
<1> QED BY <1>1, <1>2, PTL DEF ComponentsSpec

\* GapsAreWhatIsMissing of Advising: for any requirement tree and any courses
\* passed, what the gap analysis reports is enough to satisfy the tree and, if
\* the tree has no "or", it reports nothing that is not needed.
THEOREM GapsAreTrue == ComponentsSpec => []GapsAreWhatIsMissing
<1>1. ASSUME GapInv, subject = "advising", computed PROVE Advise!GapsAreWhatIsMissing
  <2> DEFINE tree == request.program
             completed == request.completed
             closes(X) == \A i \in DOMAIN gaps :
               Advise!Cardinality(X \cap (gaps[i].pool \ gaps[i].already)) >= gaps[i].need
  <2>1. Advise!IsTree(tree) /\ gaps = Advise!Unsatisfied(tree, completed)
    BY <1>1, RequestsAssumption DEF GapInv, Advise!IsRequest
  <2> HIDE DEF tree, completed
  <2>2. DOMAIN tree = 1..Len(tree)
    BY <2>1, TreeFacts
  <2>3. ASSUME NEW X, closes(X), \A n \in DOMAIN tree : ~(tree[n].kind = "or"
                                                 /\ Advise!Children(tree, n) = {})
        PROVE  Advise!Satisfied(tree, completed \cup X)
    <3>1. ASSUME NEW n \in Short(tree, completed)
          PROVE  Cardinality(X \cap (tree[n].pool \ Advise!Already(tree[n], completed)))
                   >= tree[n].need - Cardinality(Advise!Already(tree[n], completed))
      <4>1. PICK i \in DOMAIN gaps :
              /\ gaps[i].pool = tree[n].pool
              /\ gaps[i].already = Advise!Already(tree[n], completed)
              /\ gaps[i].need =
                   tree[n].need - Cardinality(Advise!Already(tree[n], completed))
        BY <2>1, <3>1, Reported
      <4>2. Cardinality(X \cap (gaps[i].pool \ gaps[i].already)) >= gaps[i].need
        BY <2>3, AdviseSets
      <4> QED BY <4>1, <4>2
    <3> QED BY <2>1, <2>2, <2>3, <3>1, Enough
  <2>4. ASSUME ~Advise!Has(tree, "or"), Advise!Satisfied(tree, completed)
        PROVE  gaps = <<>>
    BY <2>1, <2>4, Needed, Reported
  <2> QED BY <1>1, <2>3, <2>4 DEF Advise!GapsAreWhatIsMissing, tree, completed
<1>2. GapInv => GapsAreWhatIsMissing
  <2>1. ~computed => Advise!GapsAreWhatIsMissing
    BY DEF Advise!GapsAreWhatIsMissing
  <2> QED BY <1>1, <2>1 DEF GapsAreWhatIsMissing
<1> QED BY <1>2, GapAlways, PTL

-----------------------------------------------------------------------------
(* The schedule solver. *)

\* The indices of a set, in order.
LEMMA PickIndices ==
  ASSUME NEW N \in Nat, NEW S \in SUBSET (1..N)
  PROVE  /\ Kept([i \in 1..N |-> i], S) \in Seq(S)
         /\ Len(Kept([i \in 1..N |-> i], S)) = Cardinality(S)
         /\ \A i \in S : \E j \in 1..Len(Kept([k \in 1..N |-> k], S)) :
                            Kept([k \in 1..N |-> k], S)[j] = i
<1> DEFINE upto(n) == [i \in 1..n |-> i]
           T == {n \in Nat : Len(Kept(upto(n), S)) = Cardinality(S \cap (1..n))}
<1>1. ASSUME NEW n \in Nat
      PROVE  /\ upto(n) \in Seq(1..n) /\ Len(upto(n)) = n /\ upto(n) \in Seq(Nat)
             /\ \A i \in 1..n : upto(n)[i] = i
  OBVIOUS
<1>2. ASSUME NEW n \in Nat PROVE upto(n + 1) = Append(upto(n), n + 1)
  OBVIOUS
<1>3. ASSUME NEW n \in Nat PROVE Kept(upto(n), S) \in Seq(S)
  <2> DEFINE U == 1..n
  <2> HIDE DEF U, upto
  <2>1. upto(n) \in Seq(U)
    BY <1>1 DEF U
  <2>2. Kept(upto(n), S) \in Seq(U \cap S)
    BY <2>1, KeptType
  <2>3. U \cap S \subseteq S
    OBVIOUS
  <2> QED BY <2>2, <2>3, SeqMonotonic
<1> HIDE DEF upto
<1>4. 0 \in T
  <2>1. upto(0) = <<>>
    BY DEF upto
  <2>2. Kept(upto(0), S) = <<>> /\ Len(<<>>) = 0
    BY <2>1, KeptEmpty, EmptySeq
  <2>3. S \cap (1..0) = {}
    OBVIOUS
  <2> QED BY <2>2, <2>3, FS_EmptySet
<1>5. ASSUME NEW n \in Nat, n \in T PROVE n + 1 \in T
  <2>1. Kept(upto(n + 1), S) = IF n + 1 \in S THEN Append(Kept(upto(n), S), n + 1)
                               ELSE Kept(upto(n), S)
    <3>1. upto(n) \in Seq(Nat) /\ n + 1 \in Nat /\ upto(n + 1) = Append(upto(n), n + 1)
      <4>1. upto(n) \in Seq(Nat)
        BY <1>1
      <4>2. upto(n + 1) = Append(upto(n), n + 1)
        BY <1>2
      <4> QED BY <4>1, <4>2
    <3>2. Kept(Append(upto(n), n + 1), S) =
            IF n + 1 \in S THEN Append(Kept(upto(n), S), n + 1) ELSE Kept(upto(n), S)
      <4> DEFINE s == upto(n)
      <4>1. s \in Seq(Nat) /\ n + 1 \in Nat
        BY <3>1
      <4> HIDE DEF s
      <4>2. ASSUME NEW m \in Nat
            PROVE  Kept(Append(s, m), S) = IF m \in S THEN Append(Kept(s, S), m)
                                           ELSE Kept(s, S)
        BY <4>1, KeptAppend
      <4> QED BY <4>1, <4>2 DEF s
    <3> QED BY <3>1, <3>2
  <2>2. IsFiniteSet(S \cap (1..n)) /\ n + 1 \notin S \cap (1..n)
    <3>1. IsFiniteSet(1..n)
      BY FS_Interval
    <3>2. IsFiniteSet(S \cap (1..n))
      BY <3>1, FS_Intersection
    <3>3. n + 1 \notin S \cap (1..n)
      OBVIOUS
    <3> QED BY <3>2, <3>3
  <2>3. Len(Kept(upto(n), S)) = Cardinality(S \cap (1..n))
    BY <1>5
  <2>4. CASE n + 1 \in S
    <3>1. S \cap (1..(n + 1)) = (S \cap (1..n)) \cup {n + 1}
      BY <2>4
    <3>2. Cardinality(S \cap (1..(n + 1))) = Cardinality(S \cap (1..n)) + 1
      BY <2>2, <3>1, FS_AddElement
    <3>3. Len(Append(Kept(upto(n), S), n + 1)) = Len(Kept(upto(n), S)) + 1
      BY <1>3, <2>4, AppendFacts
    <3> QED BY <2>1, <2>3, <2>4, <3>2, <3>3
  <2>5. CASE n + 1 \notin S
    <3>1. S \cap (1..(n + 1)) = S \cap (1..n)
      BY <2>5
    <3>2. Kept(upto(n + 1), S) = Kept(upto(n), S)
      BY <2>1, <2>5
    <3>3. Len(Kept(upto(n + 1), S)) = Cardinality(S \cap (1..(n + 1)))
      BY <2>3, <3>1, <3>2
    <3> HIDE DEF upto
    <3> QED BY <3>3
  <2> QED BY <2>4, <2>5
<1>6. Nat \subseteq T
  <2> HIDE DEF T
  <2> QED BY <1>4, <1>5, SetInduction
<1>7. Len(Kept(upto(N), S)) = Cardinality(S)
  <2>1. S \cap (1..N) = S
    OBVIOUS
  <2> QED BY <1>6, <2>1
<1>8. ASSUME NEW i \in S PROVE \E j \in 1..Len(Kept(upto(N), S)) : Kept(upto(N), S)[j] = i
  <2>1. i \in 1..Len(upto(N)) /\ upto(N)[i] = i /\ upto(N)[i] \in S
    BY <1>1
  <2>2. upto(N) \in Seq(Nat)
    BY <1>1
  <2> QED BY <2>1, <2>2, KeptAll
<1> QED BY <1>3, <1>7, <1>8 DEF upto

\* The sections of a combination.
LEMMA SectionsAre ==
  ASSUME NEW cands, Advise!AreSections(cands), NEW c \in SUBSET DOMAIN cands
  PROVE  /\ Len(Advise!Sections(cands, c)) = Cardinality(c)
         /\ Advise!Sections(cands, c) \in Seq({cands[i] : i \in c})
         /\ \A k \in DOMAIN Advise!Sections(cands, c) :
              \E i \in c : Advise!Sections(cands, c)[k] = cands[i]
         /\ \A i \in c : \E k \in DOMAIN Advise!Sections(cands, c) :
              Advise!Sections(cands, c)[k] = cands[i]
         /\ IsFiniteSet(c) /\ Cardinality(c) \in Nat
<1> DEFINE N == Len(cands)
           chosen == Kept([i \in 1..N |-> i], c)
<1>1. N \in Nat /\ DOMAIN cands = 1..N
  <2> DEFINE S == Advise!ToSet(cands)
  <2>1. cands \in Seq(S)
    BY DEF Advise!AreSections
  <2> HIDE DEF S
  <2> QED BY <2>1, SeqFacts
<1>2. /\ chosen \in Seq(c) /\ Len(chosen) = Cardinality(c)
      /\ \A i \in c : \E j \in 1..Len(chosen) : chosen[j] = i
  BY <1>1, PickIndices
<1>3. DOMAIN chosen = 1..Len(chosen) /\ Len(chosen) \in Nat
      /\ \A k \in 1..Len(chosen) : chosen[k] \in c
  BY <1>2, SeqFacts
<1>4. Advise!Sections(cands, c) = [n \in DOMAIN chosen |-> cands[chosen[n]]]
  BY <1>1, AdviseKept DEF Advise!Sections
<1> HIDE DEF chosen
<1>5. Advise!Sections(cands, c) \in Seq({cands[i] : i \in c})
  BY <1>3, <1>4
<1>6. Len(Advise!Sections(cands, c)) = Len(chosen)
  BY <1>3, <1>4
<1>7. IsFiniteSet(c)
  <2>1. IsFiniteSet(1..N)
    BY <1>1, FS_Interval
  <2> QED BY <1>1, <2>1, FS_Subset
<1>8. DOMAIN Advise!Sections(cands, c) = 1..Len(chosen)
  BY <1>3, <1>4
<1>9. ASSUME NEW k \in DOMAIN Advise!Sections(cands, c)
      PROVE  \E i \in c : Advise!Sections(cands, c)[k] = cands[i]
  BY <1>3, <1>4, <1>8
<1>10. ASSUME NEW i \in c
       PROVE  \E k \in DOMAIN Advise!Sections(cands, c) :
                Advise!Sections(cands, c)[k] = cands[i]
  <2>1. PICK k \in 1..Len(chosen) : chosen[k] = i
    BY <1>2
  <2>2. Advise!Sections(cands, c)[k] = cands[i]
    BY <1>3, <1>4, <2>1
  <2> QED BY <1>8, <2>1, <2>2
<1> QED BY <1>2, <1>5, <1>6, <1>7, <1>9, <1>10, FS_CardinalityType

\* Typed and finite: what AreSections says of the sections of a combination.
Typed(sections) ==
  /\ IsFiniteSet(Advise!Meetings(sections))
  /\ \A p \in Advise!Meetings(sections) :
       Advise!At(sections, p).start \in Int /\ Advise!At(sections, p).end \in Int

LEMMA SectionsTyped ==
  ASSUME NEW cands, Advise!AreSections(cands), NEW c \in SUBSET DOMAIN cands
  PROVE  Typed(Advise!Sections(cands, c))
<1> DEFINE s == Advise!Sections(cands, c)
<1>1. s \in Seq({cands[i] : i \in c}) /\ \A k \in DOMAIN s : \E i \in c : s[k] = cands[i]
  BY SectionsAre
<1>2. IsFiniteSet(DOMAIN s)
  <2> DEFINE S == {cands[i] : i \in c}
  <2> HIDE DEF S, s
  <2>1. DOMAIN s = 1..Len(s) /\ Len(s) \in Nat
    BY <1>1, SeqFacts DEF S
  <2>2. IsFiniteSet(1..Len(s))
    BY <2>1, FS_Interval
  <2> QED BY <2>1, <2>2
<1> HIDE DEF s
<1>3. ASSUME NEW k \in DOMAIN s
      PROVE  /\ IsFiniteSet({k} \X DOMAIN s[k].meetings)
             /\ \A n \in DOMAIN s[k].meetings :
                  s[k].meetings[n].start \in Int /\ s[k].meetings[n].end \in Int
  <2>1. PICK i \in DOMAIN cands : s[k] = cands[i]
    BY <1>1
  <2> DEFINE ms == cands[i].meetings
             M == Advise!ToSet(ms)
  <2>2. ms \in Seq(M) /\ \A n \in DOMAIN ms : {ms[n].start, ms[n].end} \subseteq Int
    BY DEF Advise!AreSections
  <2>3. IsFiniteSet(DOMAIN ms)
    <3> HIDE DEF ms, M
    <3>1. DOMAIN ms = 1..Len(ms) /\ Len(ms) \in Nat
      BY <2>2, SeqFacts
    <3>2. IsFiniteSet(1..Len(ms))
      BY <3>1, FS_Interval
    <3> QED BY <3>1, <3>2
  <2>4. IsFiniteSet({k} \X DOMAIN ms)
    BY <2>3, FS_Singleton, FS_Product
  <2> QED BY <2>1, <2>2, <2>4
<1>4. IsFiniteSet(Advise!Meetings(s))
  <2> DEFINE parts == {{k} \X DOMAIN s[k].meetings : k \in DOMAIN s}
  <2>1. IsFiniteSet(parts)
    <3> DEFINE f == [k \in DOMAIN s |-> {k} \X DOMAIN s[k].meetings]
    <3>1. f \in Surjection(DOMAIN s, parts)
      BY DEF Surjection
    <3> HIDE DEF f, parts
    <3> QED BY <1>2, <3>1, FS_Surjection
  <2>2. \A P \in parts : IsFiniteSet(P)
    BY <1>3
  <2>3. IsFiniteSet(UNION parts)
    <3> HIDE DEF parts
    <3> QED BY <2>1, <2>2, FS_UNION
  <2> QED BY <2>3 DEF Advise!Meetings
<1>5. ASSUME NEW p \in Advise!Meetings(s)
      PROVE  Advise!At(s, p).start \in Int /\ Advise!At(s, p).end \in Int
  <2>1. p[1] \in DOMAIN s /\ p[2] \in DOMAIN s[p[1]].meetings
    BY DEF Advise!Meetings
  <2> QED BY <1>3, <2>1 DEF Advise!At
<1> QED BY <1>4, <1>5 DEF Typed, s

\* A list without a conflict is free of clashes.
LEMMA NoConflictNoClash ==
  ASSUME NEW sections, Typed(sections), ~Advise!HasTimeConflict(sections)
  PROVE  Advise!ClashFree(sections)
<1> DEFINE M == Advise!Meetings(sections)
           on(day, time) == {p \in M : Advise!InClass(Advise!At(sections, p), day, time)}
<1>1. ASSUME NEW day, NEW m, m \in M,
             NEW p \in on(day, Advise!At(sections, m).start),
             NEW q \in on(day, Advise!At(sections, m).start)
      PROVE  p = q
  <2> DEFINE time == Advise!At(sections, m).start
             a == Advise!At(sections, p)
             b == Advise!At(sections, q)
  <2>1. p \in M /\ q \in M /\ Advise!InClass(a, day, time) /\ Advise!InClass(b, day, time)
    OBVIOUS
  <2>2. {time, a.start, a.end, b.start, b.end} \subseteq Int
    BY <1>1, <2>1 DEF Typed
  <2>3. a.days \cap b.days # {} /\ a.start < b.end /\ b.start < a.end
    <3> HIDE DEF a, b, time
    <3> QED BY <2>1, <2>2 DEF Advise!InClass
  <2>4. Advise!Overlaps(a, b)
    BY <2>3 DEF Advise!Overlaps
  <2> QED BY <2>1, <2>4 DEF Advise!HasTimeConflict
<1>2. ASSUME NEW day, NEW m \in M
      PROVE  Advise!Cardinality(on(day, Advise!At(sections, m).start)) <= 1
  <2> DEFINE S == on(day, Advise!At(sections, m).start)
  <2>1. S = {} \/ \E p : S = {p}
    <3>1. ASSUME NEW p \in S, NEW q \in S PROVE p = q
      BY <1>1
    <3> HIDE DEF S
    <3> QED BY <3>1
  <2> HIDE DEF S
  <2>2. Cardinality(S) <= 1
    BY <2>1, FS_EmptySet, FS_Singleton
  <2> QED BY <2>2, AdviseSets DEF S
<1> QED BY <1>2 DEF Advise!ClashFree

\* And the other way round, if every meeting ends after it starts.
LEMMA NoClashNoConflict ==
  ASSUME NEW sections, Typed(sections), Advise!ClashFree(sections),
         \A p \in Advise!Meetings(sections) :
           Advise!At(sections, p).start < Advise!At(sections, p).end
  PROVE  ~Advise!HasTimeConflict(sections)
<1> DEFINE M == Advise!Meetings(sections)
           on(day, time) == {p \in M : Advise!InClass(Advise!At(sections, p), day, time)}
<1>1. ASSUME NEW day, NEW p \in M, NEW q \in M, p # q,
             day \in Advise!At(sections, p).days, day \in Advise!At(sections, q).days,
             Advise!At(sections, p).start < Advise!At(sections, q).end,
             Advise!At(sections, q).start <= Advise!At(sections, p).start
      PROVE  FALSE
  <2> DEFINE S == on(day, Advise!At(sections, p).start)
  <2>1. {Advise!At(sections, p).start, Advise!At(sections, p).end,
         Advise!At(sections, q).start, Advise!At(sections, q).end} \subseteq Int
    BY DEF Typed
  <2>2. p \in S /\ q \in S
    BY <1>1, <2>1 DEF Advise!InClass
  <2>3. Advise!Cardinality(S) <= 1
    BY <1>1 DEF Advise!ClashFree
  <2>4. IsFiniteSet(S)
    <3>1. S \subseteq M /\ IsFiniteSet(M)
      BY DEF Typed
    <3> HIDE DEF S, M
    <3> QED BY <3>1, FS_Subset
  <2> HIDE DEF S
  <2>5. Cardinality(S) <= 1 /\ Cardinality(S) \in Nat
    BY <2>3, <2>4, AdviseSets, FS_CardinalityType
  <2>6. Cardinality(S) = 0 \/ Cardinality(S) = 1
    BY <2>5
  <2> QED BY <1>1, <2>2, <2>4, <2>6, FS_EmptySet, FS_Singleton
<1>2. ASSUME NEW p \in M, NEW q \in M, p # q,
             Advise!Overlaps(Advise!At(sections, p), Advise!At(sections, q))
      PROVE  FALSE
  <2> DEFINE a == Advise!At(sections, p)
             b == Advise!At(sections, q)
  <2>1. PICK day : day \in a.days /\ day \in b.days
    BY <1>2 DEF Advise!Overlaps
  <2>2. a.start < b.end /\ b.start < a.end
    BY <1>2 DEF Advise!Overlaps
  <2>3. a.start \in Int /\ b.start \in Int
    BY DEF Typed
  <2>4. CASE b.start <= a.start
    BY <1>1, <1>2, <2>1, <2>2, <2>4
  <2>5. CASE a.start <= b.start
    BY <1>1, <1>2, <2>1, <2>2, <2>5
  <2> HIDE DEF a, b
  <2> QED BY <2>3, <2>4, <2>5
<1> QED BY <1>2 DEF Advise!HasTimeConflict

LEMMA Least ==
  ASSUME NEW N \in Nat, NEW X \in SUBSET (1..N), X # {}
  PROVE  \E m \in X : \A i \in X : m <= i
<1> DEFINE T == {k \in Nat : \A x \in X : x <= k => \E m \in X : \A i \in X : m <= i}
<1>1. 0 \in T
  OBVIOUS
<1>2. ASSUME NEW k \in Nat, k \in T PROVE k + 1 \in T
  <2>1. ASSUME NEW x \in X, x <= k + 1 PROVE \E m \in X : \A i \in X : m <= i
    <3>1. CASE \E y \in X : y <= k
      BY <1>2, <3>1
    <3>2. CASE \A y \in X : ~(y <= k)
      <4>1. \A y \in X : x <= y
        BY <2>1, <3>2
      <4> QED BY <4>1
    <3> QED BY <3>1, <3>2
  <2> QED BY <2>1
<1>3. Nat \subseteq T
  <2> HIDE DEF T
  <2> QED BY <1>1, <1>2, SetInduction
<1>4. PICK x : x \in X
  OBVIOUS
<1>5. x \in T
  BY <1>3, <1>4
<1> QED BY <1>4, <1>5

\* combinations come in an order, in which no two share a place.
LEMMA BeforeIsAnOrder ==
  ASSUME NEW N \in Nat, NEW a \in SUBSET (1..N), NEW b \in SUBSET (1..N),
         NEW c \in SUBSET (1..N)
  PROVE  /\ ~Advise!Before(a, a)
         /\ Advise!Before(a, b) /\ Advise!Before(b, c) => Advise!Before(a, c)
         /\ a = b \/ Advise!Before(a, b) \/ Advise!Before(b, a)
<1> DEFINE First(x, y) == \E d \in x \ y : \A i \in x \cup y : i < d => (i \in x <=> i \in y)
<1>1. ASSUME NEW x \in SUBSET (1..N) PROVE Cardinality(x) \in Nat
  <2>1. IsFiniteSet(x)
    <3>1. IsFiniteSet(1..N)
      BY FS_Interval
    <3> QED BY <3>1, FS_Subset
  <2> QED BY <2>1, FS_CardinalityType
<1>2. \A x, y : Advise!Before(x, y) <=>
        \/ Cardinality(x) < Cardinality(y)
        \/ Cardinality(x) = Cardinality(y) /\ First(x, y)
  BY AdviseSets DEF Advise!Before
<1>3. ASSUME First(a, b), First(b, c) PROVE First(a, c)
  <2>1. PICK d \in a \ b : \A i \in a \cup b : i < d => (i \in a <=> i \in b)
    BY <1>3
  <2>2. PICK e \in b \ c : \A i \in b \cup c : i < e => (i \in b <=> i \in c)
    BY <1>3
  <2>3. d \in Nat /\ e \in Nat /\ a \subseteq Nat /\ b \subseteq Nat /\ c \subseteq Nat
    OBVIOUS
  <2>4. CASE d < e
    <3>1. d \in a \ c
      BY <2>1, <2>2, <2>4
    <3>2. \A i \in a \cup c : i < d => (i \in a <=> i \in c)
      BY <2>1, <2>2, <2>3, <2>4
    <3> QED BY <3>1, <3>2
  <2>5. CASE e < d
    <3>1. e \in a \ c
      BY <2>1, <2>2, <2>5
    <3>2. \A i \in a \cup c : i < e => (i \in a <=> i \in c)
      BY <2>1, <2>2, <2>3, <2>5
    <3> QED BY <3>1, <3>2
  <2>6. d # e
    BY <2>1, <2>2
  <2> QED BY <2>3, <2>4, <2>5, <2>6
<1>4. ASSUME a # b PROVE First(a, b) \/ First(b, a)
  <2> DEFINE X == (a \ b) \cup (b \ a)
  <2>1. X \in SUBSET (1..N) /\ X # {}
    BY <1>4
  <2>2. PICK m \in X : \A i \in X : m <= i
    <3> HIDE DEF X
    <3> QED BY <2>1, Least
  <2>3. \A i \in a \cup b : i < m => (i \in a <=> i \in b)
    BY <2>1, <2>2
  <2> QED BY <2>2, <2>3
<1>5. ~First(a, a)
  OBVIOUS
<1> HIDE DEF First
<1>6. Advise!Before(a, b) /\ Advise!Before(b, c) => Advise!Before(a, c)
  BY <1>1, <1>2, <1>3
<1>7. ~Advise!Before(a, a)
  BY <1>1, <1>2, <1>5
<1>8. a = b \/ Advise!Before(a, b) \/ Advise!Before(b, a)
  BY <1>1, <1>2, <1>4
<1> QED BY <1>6, <1>7, <1>8

\* R orders F strictly and totally.
Orders(R, F) ==
  /\ \A a \in F : <<a, a>> \notin R
  /\ \A a, b, c \in F : <<a, b>> \in R /\ <<b, c>> \in R => <<a, c>> \in R
  /\ \A a, b \in F : a = b \/ <<a, b>> \in R \/ <<b, a>> \in R

Below(R, F, a) == {d \in F : <<d, a>> \in R}

\* In a finite set with an order there is one for each rank.
LEMMA Ranks ==
  ASSUME NEW F, IsFiniteSet(F), NEW R, Orders(R, F)
  PROVE  /\ Cardinality(F) \in Nat
         /\ \A a \in F : Cardinality(Below(R, F, a)) \in 0..(Cardinality(F) - 1)
         /\ \A a, b \in F : <<a, b>> \in R =>
              Cardinality(Below(R, F, a)) < Cardinality(Below(R, F, b))
         /\ \A n \in 1..Cardinality(F) : \E a \in F : Cardinality(Below(R, F, a)) = n - 1
<1> DEFINE N == Cardinality(F)
           rank == [a \in F |-> Cardinality(Below(R, F, a))]
<1>1. N \in Nat
  BY FS_CardinalityType
<1>2. ASSUME NEW a \in F
      PROVE  /\ IsFiniteSet(Below(R, F, a)) /\ Cardinality(Below(R, F, a)) \in Nat
             /\ Cardinality(Below(R, F, a)) <= N - 1
  <2>1. Below(R, F, a) \subseteq F \ {a}
    BY DEF Below, Orders
  <2>2. IsFiniteSet(F \ {a}) /\ Cardinality(F \ {a}) = N - 1
    BY FS_RemoveElement
  <2>3. IsFiniteSet(Below(R, F, a)) /\ Cardinality(Below(R, F, a)) <= Cardinality(F \ {a})
    BY <2>1, <2>2, FS_Subset
  <2> QED BY <2>2, <2>3, FS_CardinalityType
<1>3. ASSUME NEW a \in F, NEW b \in F, <<a, b>> \in R
      PROVE  Cardinality(Below(R, F, a)) < Cardinality(Below(R, F, b))
  <2>1. Below(R, F, a) \subseteq Below(R, F, b)
    BY <1>3 DEF Below, Orders
  <2>2. a \in Below(R, F, b) /\ a \notin Below(R, F, a)
    BY <1>3 DEF Below, Orders
  <2>3. /\ Cardinality(Below(R, F, a)) <= Cardinality(Below(R, F, b))
        /\ Cardinality(Below(R, F, b)) = Cardinality(Below(R, F, a)) =>
             Below(R, F, b) = Below(R, F, a)
    BY <1>2, <2>1, FS_Subset
  <2>4. Cardinality(Below(R, F, b)) # Cardinality(Below(R, F, a))
    BY <2>2, <2>3
  <2> QED BY <1>2, <2>3, <2>4
<1>4. \A a \in F : Cardinality(Below(R, F, a)) \in 0..(N - 1)
  BY <1>1, <1>2
<1>5. rank \in Injection(F, 0..(N - 1))
  <2>1. rank \in [F -> 0..(N - 1)]
    BY <1>4
  <2>2. ASSUME NEW a \in F, NEW b \in F, rank[a] = rank[b] PROVE a = b
    <3>1. /\ <<a, b>> \in R => rank[a] < rank[b]
          /\ <<b, a>> \in R => rank[b] < rank[a]
          /\ rank[a] \in Nat /\ rank[b] \in Nat
      BY <1>2, <1>3
    <3>2. a = b \/ <<a, b>> \in R \/ <<b, a>> \in R
      BY DEF Orders
    <3> QED BY <2>2, <3>1, <3>2
  <2> QED BY <2>1, <2>2 DEF Injection, IsInjective
<1>6. IsFiniteSet(0..(N - 1)) /\ Cardinality(0..(N - 1)) = N
  <2>1. N - 1 \in Int /\ 0 \in Int
    BY <1>1
  <2>2. IsFiniteSet(0..(N - 1)) /\ Cardinality(0..(N - 1)) =
          IF 0 > N - 1 THEN 0 ELSE (N - 1) - 0 + 1
    BY <2>1, FS_Interval
  <2> QED BY <1>1, <2>2
<1>7. rank \in Surjection(F, 0..(N - 1))
  <2> HIDE DEF rank
  <2> QED BY <1>5, <1>6, FS_Injection
<1>8. ASSUME NEW n \in 1..N PROVE \E a \in F : Cardinality(Below(R, F, a)) = n - 1
  <2>1. n - 1 \in 0..(N - 1)
    BY <1>1
  <2>2. PICK a \in F : rank[a] = n - 1
    BY <1>7, <2>1 DEF Surjection
  <2> QED BY <2>2
<1> QED BY <1>1, <1>3, <1>4, <1>8

\* The combinations of a request and, of them, the ones that are returned.
LEMMA CombinationFacts ==
  ASSUME NEW r, Advise!IsRequest(r)
  PROVE  /\ Len(r.candidates) \in Nat /\ DOMAIN r.candidates = 1..Len(r.candidates)
         /\ Advise!AreSections(r.candidates)
         /\ Advise!Combinations(r) \subseteq SUBSET (1..Len(r.candidates))
         /\ IsFiniteSet(Advise!Combinations(r))
         /\ Advise!Feasible(r) \subseteq Advise!FirstOfKey(r)
         /\ Advise!FirstOfKey(r) \subseteq Advise!Combinations(r)
         /\ IsFiniteSet(Advise!Feasible(r))
<1> DEFINE cands == r.candidates
           N == Len(cands)
<1>1. Advise!AreSections(cands)
  BY DEF Advise!IsRequest
<1>2. N \in Nat /\ DOMAIN cands = 1..N
  <2> DEFINE S == Advise!ToSet(cands)
  <2>1. cands \in Seq(S)
    BY <1>1 DEF Advise!AreSections
  <2> HIDE DEF S
  <2> QED BY <2>1, SeqFacts
<1>3. Advise!Combinations(r) \subseteq SUBSET (1..N)
  BY <1>2 DEF Advise!Combinations, Advise!Valid
<1>4. IsFiniteSet(SUBSET (1..N))
  <2>1. IsFiniteSet(1..N)
    BY <1>2, FS_Interval
  <2> QED BY <2>1, FS_SUBSET
<1>5. IsFiniteSet(Advise!Combinations(r))
  <2> DEFINE U == SUBSET (1..N)
  <2>1. Advise!Combinations(r) \subseteq U /\ IsFiniteSet(U)
    BY <1>3, <1>4
  <2> HIDE DEF U
  <2> QED BY <2>1, FS_Subset
<1>6. Advise!Feasible(r) \subseteq Advise!FirstOfKey(r)
  BY DEF Advise!Feasible
<1>7. Advise!FirstOfKey(r) \subseteq Advise!Combinations(r)
  BY DEF Advise!FirstOfKey
<1>8. IsFiniteSet(Advise!Feasible(r))
  BY <1>5, <1>6, <1>7, FS_Subset
<1> QED BY <1>1, <1>2, <1>3, <1>5, <1>6, <1>7, <1>8

\* The score of a feasible combination is a number.
LEMMA ScoreFacts ==
  ASSUME NEW r, Advise!IsRequest(r), NEW c \in Advise!Feasible(r)
  PROVE  /\ Advise!Credits(Advise!Sections(r.candidates, c)) \in Int
         /\ Len(Advise!Sections(r.candidates, c)) \in Nat
         /\ Advise!RankScore(Advise!Sections(r.candidates, c)) \in Int
         /\ Advise!RankScore(Advise!Sections(r.candidates, c)) =
              100 * Len(Advise!Sections(r.candidates, c))
                + Advise!Credits(Advise!Sections(r.candidates, c))
<1> DEFINE s == Advise!Sections(r.candidates, c)
<1>1. c \in SUBSET DOMAIN r.candidates /\ Advise!AreSections(r.candidates)
  BY CombinationFacts
<1>2. Len(s) \in Nat
  BY <1>1, SectionsAre
<1>3. Advise!MeetsCreditBounds(s, r.constraints)
  BY DEF Advise!Feasible
<1> HIDE DEF s
<1>4. Advise!Credits(s) \in Int
  BY <1>3 DEF Advise!MeetsCreditBounds, Advise!IsRequest
<1> QED BY <1>2, <1>4 DEF Advise!RankScore, s

Ahead(r) == {p \in Advise!Feasible(r) \X Advise!Feasible(r) :
               Advise!Better(r.candidates, p[1], p[2])}

LEMMA RankIsAnOrder ==
  ASSUME NEW r, Advise!IsRequest(r)
  PROVE  Orders(Ahead(r), Advise!Feasible(r))
<1> DEFINE F == Advise!Feasible(r)
           score(c) == Advise!RankScore(Advise!Sections(r.candidates, c))
           N == Len(r.candidates)
<1>1. N \in Nat /\ F \subseteq SUBSET (1..N)
  BY CombinationFacts
<1>2. \A c \in F : score(c) \in Int
  BY ScoreFacts
<1>3. \A a, b \in F : <<a, b>> \in Ahead(r) <=>
        score(a) > score(b) \/ (score(a) = score(b) /\ Advise!Before(a, b))
  BY DEF Ahead, Advise!Better
<1> HIDE DEF F, score, N
<1>4. ASSUME NEW a \in F PROVE <<a, a>> \notin Ahead(r)
  <2>1. ~Advise!Before(a, a)
    BY <1>1, BeforeIsAnOrder
  <2> QED BY <1>2, <1>3, <2>1
<1>5. ASSUME NEW a \in F, NEW b \in F, NEW c \in F,
             <<a, b>> \in Ahead(r), <<b, c>> \in Ahead(r)
      PROVE  <<a, c>> \in Ahead(r)
  <2>1. Advise!Before(a, b) /\ Advise!Before(b, c) => Advise!Before(a, c)
    BY <1>1, BeforeIsAnOrder
  <2>2. /\ score(a) > score(b) \/ (score(a) = score(b) /\ Advise!Before(a, b))
        /\ score(b) > score(c) \/ (score(b) = score(c) /\ Advise!Before(b, c))
    BY <1>3, <1>5
  <2>3. score(a) \in Int /\ score(b) \in Int /\ score(c) \in Int
    BY <1>2
  <2>4. score(a) > score(c) \/ (score(a) = score(c) /\ Advise!Before(a, c))
    BY <2>1, <2>2, <2>3
  <2> QED BY <1>3, <2>4
<1>6. ASSUME NEW a \in F, NEW b \in F
      PROVE  a = b \/ <<a, b>> \in Ahead(r) \/ <<b, a>> \in Ahead(r)
  <2>1. a = b \/ Advise!Before(a, b) \/ Advise!Before(b, a)
    BY <1>1, BeforeIsAnOrder
  <2>2. score(a) \in Int /\ score(b) \in Int
    BY <1>2
  <2>3. score(a) > score(b) \/ score(a) = score(b) \/ score(b) > score(a)
    BY <2>2
  <2> QED BY <1>3, <2>1, <2>3
<1> QED BY <1>4, <1>5, <1>6 DEF Orders, F

\* What is returned: the feasible combinations, the better ones first.
LEMMA Ranked ==
  ASSUME NEW r, Advise!IsRequest(r), NEW found, found = Advise!Solve(r)
  PROVE  \E ranked \in [1..Cardinality(Advise!Feasible(r)) -> Advise!Feasible(r)] :
           /\ DOMAIN found = 1..Cardinality(Advise!Feasible(r))
           /\ DOMAIN found \subseteq Nat
           /\ \A n \in DOMAIN found : found[n] = Advise!Sections(r.candidates, ranked[n])
           /\ \A i, j \in DOMAIN found : i < j => <<ranked[i], ranked[j]>> \in Ahead(r)
           /\ \A c \in Advise!Feasible(r) : \E n \in DOMAIN found : ranked[n] = c
<1> DEFINE F == Advise!Feasible(r)
           R == Ahead(r)
           rank(c) == Cardinality(Below(R, F, c))
           ranked == Advise!Rank(r.candidates, F)
<1>1. IsFiniteSet(F) /\ Orders(R, F)
  BY CombinationFacts, RankIsAnOrder
<1>2. \A c \in F : Advise!Cardinality({d \in F : Advise!Better(r.candidates, d, c)}) = rank(c)
  <2> TAKE c \in F
  <2>1. {d \in F : Advise!Better(r.candidates, d, c)} = Below(R, F, c)
    BY DEF Below, Ahead
  <2> QED BY <2>1, AdviseSets
<1>3. ranked = [n \in 1..Cardinality(F) |->
                  CHOOSE c \in F :
                    Advise!Cardinality({d \in F : Advise!Better(r.candidates, d, c)}) = n - 1]
  BY AdviseSets DEF Advise!Rank
<1>4. found = [n \in DOMAIN ranked |-> Advise!Sections(r.candidates, ranked[n])]
  BY DEF Advise!Solve
<1> HIDE DEF F, R, ranked
<1>5. /\ Cardinality(F) \in Nat
      /\ \A c \in F : rank(c) \in 0..(Cardinality(F) - 1)
      /\ \A a, b \in F : <<a, b>> \in R => rank(a) < rank(b)
      /\ \A n \in 1..Cardinality(F) : \E c \in F : rank(c) = n - 1
  BY <1>1, Ranks
<1> HIDE DEF rank
<1>6. DOMAIN ranked = 1..Cardinality(F)
  BY <1>3
<1>7. ASSUME NEW n \in 1..Cardinality(F) PROVE ranked[n] \in F /\ rank(ranked[n]) = n - 1
  <2>1. PICK c \in F : rank(c) = n - 1
    BY <1>5
  <2>2. Advise!Cardinality({d \in F : Advise!Better(r.candidates, d, c)}) = n - 1
    BY <1>2, <2>1
  <2>3. /\ ranked[n] \in F
        /\ Advise!Cardinality({d \in F : Advise!Better(r.candidates, d, ranked[n])}) = n - 1
    BY <1>3, <2>2
  <2> QED BY <1>2, <2>3
<1>8. ranked \in [1..Cardinality(F) -> F]
  <2> DEFINE nth(n) == CHOOSE c \in F :
               Advise!Cardinality({d \in F : Advise!Better(r.candidates, d, c)}) = n - 1
  <2>1. ranked = [n \in 1..Cardinality(F) |-> nth(n)]
    BY <1>3
  <2> HIDE DEF nth
  <2>2. \A n \in 1..Cardinality(F) : nth(n) \in F
    BY <1>7, <2>1
  <2> QED BY <2>1, <2>2
<1>9. ASSUME NEW i \in 1..Cardinality(F), NEW j \in 1..Cardinality(F), i < j
      PROVE  <<ranked[i], ranked[j]>> \in R
  <2>1. /\ ranked[i] \in F /\ rank(ranked[i]) = i - 1
        /\ ranked[j] \in F /\ rank(ranked[j]) = j - 1
    BY <1>7
  <2>2. i - 1 < j - 1 /\ i - 1 # j - 1 /\ ~(j - 1 < i - 1)
    BY <1>5, <1>9
  <2>3. \/ ranked[i] = ranked[j] \/ <<ranked[i], ranked[j]>> \in R
        \/ <<ranked[j], ranked[i]>> \in R
    BY <1>1, <2>1 DEF Orders
  <2>4. <<ranked[j], ranked[i]>> \in R => rank(ranked[j]) < rank(ranked[i])
    BY <1>5, <2>1
  <2> QED BY <2>1, <2>2, <2>3, <2>4
<1>10. ASSUME NEW c \in F PROVE \E n \in 1..Cardinality(F) : ranked[n] = c
  <2>1. rank(c) \in 0..(Cardinality(F) - 1)
    BY <1>5
  <2>2. PICK n \in 1..Cardinality(F) : n - 1 = rank(c)
    <3>1. ASSUME NEW k \in 0..(Cardinality(F) - 1)
          PROVE  \E n \in 1..Cardinality(F) : n - 1 = k
      <4> DEFINE n == k + 1
      <4>1. n \in 1..Cardinality(F) /\ n - 1 = k
        BY <1>5
      <4> HIDE DEF n
      <4> QED BY <4>1
    <3> QED BY <2>1, <3>1
  <2>3. ranked[n] \in F /\ rank(ranked[n]) = rank(c)
    BY <1>7, <2>2
  <2>4. ranked[n] = c \/ <<c, ranked[n]>> \in R \/ <<ranked[n], c>> \in R
    BY <1>1, <2>3 DEF Orders
  <2>5. /\ <<c, ranked[n]>> \in R => rank(c) < rank(ranked[n])
        /\ <<ranked[n], c>> \in R => rank(ranked[n]) < rank(c)
    BY <1>5, <2>3
  <2>6. ~(rank(c) < rank(c))
    BY <2>1
  <2>7. ranked[n] = c
    BY <2>3, <2>4, <2>5, <2>6
  <2> QED BY <2>7
<1>11. DOMAIN found = 1..Cardinality(F) /\ DOMAIN found \subseteq Nat
  BY <1>4, <1>6
<1>12. \A n \in DOMAIN found : found[n] = Advise!Sections(r.candidates, ranked[n])
  BY <1>4, <1>6, <1>11
<1> QED BY <1>8, <1>9, <1>10, <1>11, <1>12 DEF F, R

SolveInv ==
  subject = "advising" =>
    /\ request \in Requests
    /\ computed => options = Advise!Solve(request)

LEMMA SolveAlways == ComponentsSpec => []SolveInv
<1>1. ComponentsInit => SolveInv
  BY DEF ComponentsInit, Advise!Init, SolveInv
<1>2. ASSUME SolveInv, [ComponentsNext]_componentsVars PROVE SolveInv'
  <2>1. CASE subject = "advising" /\ subject' = subject /\ Advise!Next
    BY <1>2, <2>1 DEF SolveInv, Advise!Next, Advise!RunSteps
  <2>2. CASE subject # "advising" /\ subject' = subject
    BY <2>2 DEF SolveInv
  <2>3. CASE UNCHANGED <<subject, adviseVars>>
    BY <1>2, <2>3 DEF SolveInv, adviseVars
  <2> QED BY <1>2, <2>1, <2>2, <2>3 DEF ComponentsNext, componentsVars
<1> QED BY <1>1, <1>2, PTL DEF ComponentsSpec

\* A feasible combination is a timetable.
LEMMA FeasibleIsTimetable ==
  ASSUME Advise!IsRequest(request), NEW c \in Advise!Feasible(request)
  PROVE  Advise!Timetable(Advise!Sections(request.candidates, c))
<1> DEFINE cands == request.candidates
           s == Advise!Sections(cands, c)
<1>1. /\ Advise!AreSections(cands) /\ c \in Advise!Combinations(request)
      /\ c \in SUBSET DOMAIN cands
  BY CombinationFacts
<1>2. /\ Len(s) = Cardinality(c) /\ \A k \in DOMAIN s : \E i \in c : s[k] = cands[i]
  BY <1>1, SectionsAre
<1>3. Len(s) \in request.constraints.minCourses..request.constraints.maxCourses
  BY <1>1, <1>2, AdviseSets DEF Advise!Combinations
<1>4. ~Advise!HasTimeConflict(s) /\ Advise!MeetsCreditBounds(s, request.constraints)
  BY DEF Advise!Feasible
<1>5. Advise!ClashFree(s)
  BY <1>1, <1>4, SectionsTyped, NoConflictNoClash
<1>6. \A k \in DOMAIN s :
        Advise!MeetsHardConstraints(s[k], request.completed, request.constraints)
  <2>1. \A i \in c :
          Advise!MeetsHardConstraints(cands[i], request.completed, request.constraints)
    BY <1>1 DEF Advise!Combinations, Advise!Valid
  <2> HIDE DEF s, cands
  <2> QED BY <1>2, <2>1
<1> QED BY <1>3, <1>4, <1>5, <1>6 DEF Advise!Timetable

\* OptionsAreTimetables of Advising: for any sections and constraints, every
\* option is a timetable and the ones with more courses come first.
THEOREM OptionsAreRight == ComponentsSpec => []OptionsAreTimetables
<1>1. ASSUME SolveInv, subject = "advising", computed PROVE Advise!OptionsAreTimetables
  <2> DEFINE F == Advise!Feasible(request)
             R == Ahead(request)
             cands == request.candidates
  <2>1. Advise!IsRequest(request) /\ options = Advise!Solve(request)
    BY <1>1, RequestsAssumption DEF SolveInv
  <2>2. PICK ranked \in [1..Cardinality(F) -> F] :
          /\ DOMAIN options = 1..Cardinality(F)
          /\ \A n \in DOMAIN options : options[n] = Advise!Sections(cands, ranked[n])
          /\ \A i, j \in DOMAIN options : i < j => <<ranked[i], ranked[j]>> \in R
    BY <2>1, Ranked
  <2>3. ASSUME NEW i \in DOMAIN options PROVE Advise!Timetable(options[i])
    <3>1. ranked[i] \in F /\ options[i] = Advise!Sections(cands, ranked[i])
      BY <2>2
    <3> QED BY <2>1, <3>1, FeasibleIsTimetable
  <2>4. ASSUME NEW i \in DOMAIN options, NEW j \in DOMAIN options, i < j
        PROVE  \/ Len(options[i]) >= Len(options[j])
               \/ Advise!Credits(options[i]) >= Advise!Credits(options[j]) + 100
    <3>1. /\ ranked[i] \in F /\ options[i] = Advise!Sections(cands, ranked[i])
          /\ ranked[j] \in F /\ options[j] = Advise!Sections(cands, ranked[j])
          /\ <<ranked[i], ranked[j]>> \in R
      BY <2>2, <2>4
    <3>2. /\ Advise!RankScore(options[i]) =
               100 * Len(options[i]) + Advise!Credits(options[i])
          /\ Advise!Credits(options[i]) \in Int /\ Len(options[i]) \in Nat
      BY <2>1, <3>1, ScoreFacts, SMTT(30)
    <3>3. /\ Advise!RankScore(options[j]) =
               100 * Len(options[j]) + Advise!Credits(options[j])
          /\ Advise!Credits(options[j]) \in Int /\ Len(options[j]) \in Nat
      BY <2>1, <3>1, ScoreFacts
    <3>4. \/ Advise!RankScore(options[i]) > Advise!RankScore(options[j])
          \/ Advise!RankScore(options[i]) = Advise!RankScore(options[j])
      BY <3>1 DEF Ahead, Advise!Better
    <3> QED BY <3>2, <3>3, <3>4
  <2> QED BY <2>3, <2>4 DEF Advise!OptionsAreTimetables
<1>2. SolveInv => OptionsAreTimetables
  <2>1. ~computed => Advise!OptionsAreTimetables
    BY DEF Advise!OptionsAreTimetables
  <2> QED BY <1>1, <2>1 DEF OptionsAreTimetables
<1> QED BY <1>2, SolveAlways, PTL

\* Of the combinations with the same courses the first is tried.
LEMMA FirstIsTried ==
  ASSUME NEW r, Advise!IsRequest(r), NEW S \in Advise!Combinations(r)
  PROVE  \E c \in Advise!FirstOfKey(r) :
           Advise!Key(Advise!Sections(r.candidates, c)) =
             Advise!Key(Advise!Sections(r.candidates, S))
<1> DEFINE C == Advise!Combinations(r)
           key(c) == Advise!Key(Advise!Sections(r.candidates, c))
           F == {c \in C : key(c) = key(S)}
           R == {p \in F \X F : Advise!Before(p[1], p[2])}
           N == Len(r.candidates)
<1>1. N \in Nat /\ C \subseteq SUBSET (1..N) /\ IsFiniteSet(C)
  BY CombinationFacts
<1>2. S \in F /\ F \subseteq C
  OBVIOUS
<1>3. \A a, b \in F : <<a, b>> \in R <=> Advise!Before(a, b)
  OBVIOUS
<1>4. Advise!FirstOfKey(r) =
        {c \in C : \A d \in C : Advise!Before(d, c) => key(d) # key(c)}
  BY DEF Advise!FirstOfKey
<1>5. \A d \in C : d \in F <=> key(d) = key(S)
  OBVIOUS
<1> HIDE DEF C, key, F, R, N
<1>6. IsFiniteSet(F)
  BY <1>1, <1>2, FS_Subset
<1>7. Orders(R, F)
  <2>1. F \subseteq SUBSET (1..N)
    BY <1>1, <1>2
  <2>2. ASSUME NEW a \in F PROVE <<a, a>> \notin R
    BY <1>1, <1>3, <2>1, BeforeIsAnOrder
  <2>3. ASSUME NEW a \in F, NEW b \in F, NEW c \in F, <<a, b>> \in R, <<b, c>> \in R
        PROVE  <<a, c>> \in R
    BY <1>1, <1>3, <2>1, <2>3, BeforeIsAnOrder
  <2>4. ASSUME NEW a \in F, NEW b \in F PROVE a = b \/ <<a, b>> \in R \/ <<b, a>> \in R
    BY <1>1, <1>3, <2>1, BeforeIsAnOrder
  <2> QED BY <2>2, <2>3, <2>4 DEF Orders
<1>8. PICK c \in F : Below(R, F, c) = {}
  <2>1. Cardinality(F) \in Nat /\ Cardinality(F) # 0
    BY <1>2, <1>6, FS_CardinalityType, FS_EmptySet
  <2>2. 1 \in 1..Cardinality(F)
    BY <2>1
  <2>3. PICK c \in F : Cardinality(Below(R, F, c)) = 1 - 1
    BY <1>6, <1>7, <2>2, Ranks
  <2>4. IsFiniteSet(Below(R, F, c))
    BY <1>6, FS_Subset DEF Below
  <2> QED BY <2>3, <2>4, FS_EmptySet
<1>9. ASSUME NEW d \in C, Advise!Before(d, c) PROVE key(d) # key(c)
  <2>1. CASE d \in F
    BY <1>3, <1>8, <1>9, <2>1 DEF Below
  <2>2. CASE d \notin F
    BY <1>2, <1>5, <1>8, <2>2
  <2> QED BY <2>1, <2>2
<1>10. c \in C /\ key(c) = key(S)
  BY <1>2, <1>5, <1>8
<1> QED BY <1>4, <1>9, <1>10 DEF key

\* OffersEveryTimetable of Advising: for any sections and constraints, no
\* timetable is missed but for the reasons named there.
THEOREM NoTimetableIsMissed == ComponentsSpec => []OffersEveryTimetable
<1>1. ASSUME SolveInv, subject = "advising", computed PROVE Advise!OffersEveryTimetable
  <2> DEFINE cands == request.candidates
             pick(S) == Advise!Sections(cands, S)
             codes(S) == Advise!Key(pick(S))
             proper(S) == \A p \in Advise!Meetings(pick(S)) :
                            Advise!At(pick(S), p).start < Advise!At(pick(S), p).end
             F == Advise!Feasible(request)
  <2>1. Advise!IsRequest(request) /\ options = Advise!Solve(request)
    BY <1>1, RequestsAssumption DEF SolveInv
  <2>2. PICK ranked \in [1..Cardinality(F) -> F] :
          /\ DOMAIN options = 1..Cardinality(F)
          /\ \A n \in DOMAIN options : options[n] = pick(ranked[n])
          /\ \A c \in F : \E n \in DOMAIN options : ranked[n] = c
    BY <2>1, Ranked
  <2>3. ASSUME NEW S \in SUBSET DOMAIN cands, Advise!Timetable(pick(S))
        PROVE  \/ \E i \in DOMAIN options : Advise!Key(options[i]) = codes(S)
               \/ \E T \in SUBSET DOMAIN cands :
                    codes(T) = codes(S) /\ (~Advise!Timetable(pick(T)) \/ ~proper(T))
    <3>1. /\ Len(pick(S)) = Cardinality(S)
          /\ \A i \in S : \E k \in DOMAIN pick(S) : pick(S)[k] = cands[i]
      BY <2>1, CombinationFacts, SectionsAre
    <3>2. S \in Advise!Combinations(request)
      <4>1. /\ Len(pick(S)) \in
                 request.constraints.minCourses..request.constraints.maxCourses
            /\ \A k \in DOMAIN pick(S) : Advise!MeetsHardConstraints(
                 pick(S)[k], request.completed, request.constraints)
        BY <2>3 DEF Advise!Timetable
      <4>2. S \subseteq Advise!Valid(request)
        <5> HIDE DEF pick
        <5> QED BY <3>1, <4>1 DEF Advise!Valid
      <4> QED BY <3>1, <4>1, <4>2, AdviseSets DEF Advise!Combinations
    <3>3. PICK c \in Advise!FirstOfKey(request) : codes(c) = codes(S)
      BY <2>1, <3>2, FirstIsTried
    <3>4. c \in SUBSET DOMAIN cands
      BY <2>1, CombinationFacts
    <3>5. CASE c \in F
      <4>1. PICK n \in DOMAIN options : options[n] = pick(c)
        BY <2>2, <3>5
      <4> QED BY <3>3, <4>1
    <3>6. CASE c \notin F
      <4>1. Advise!HasTimeConflict(pick(c))
            \/ ~Advise!MeetsCreditBounds(pick(c), request.constraints)
        BY <3>6 DEF Advise!Feasible
      <4>2. Typed(pick(c))
        BY <2>1, <3>4, CombinationFacts, SectionsTyped
      <4>3. Advise!HasTimeConflict(pick(c)) => ~Advise!ClashFree(pick(c)) \/ ~proper(c)
        BY <4>2, NoClashNoConflict
      <4>4. ~Advise!Timetable(pick(c)) \/ ~proper(c)
        BY <4>1, <4>3 DEF Advise!Timetable
      <4> QED BY <3>3, <3>4, <4>4
    <3> QED BY <3>5, <3>6
  <2> HIDE DEF F
  <2> QED BY <2>3 DEF Advise!OffersEveryTimetable
<1>2. SolveInv => OffersEveryTimetable
  <2>1. ~computed => Advise!OffersEveryTimetable
    BY DEF Advise!OffersEveryTimetable
  <2> QED BY <1>1, <2>1 DEF OffersEveryTimetable
<1> QED BY <1>2, SolveAlways, PTL

-----------------------------------------------------------------------------
(* All four components. *)

\* A behaviour of the components is one of the cache, which the steps of the
\* others do not move.
LEMMA CacheAlone == ComponentsSpec => Spec
<1>1. ComponentsInit => Init
  BY DEF ComponentsInit
<1>2. [ComponentsNext]_componentsVars => [Next]_vars
  BY DEF ComponentsNext, componentsVars
<1> QED BY <1>1, <1>2, PTL DEF ComponentsSpec, Spec

AdviseTypes == subject = "advising" => Advise!TypeOK

LEMMA AdviseAlways == ComponentsSpec => []AdviseTypes
<1>1. ComponentsInit => AdviseTypes
  BY DEF ComponentsInit, Advise!Init, AdviseTypes, Advise!TypeOK
<1>2. ASSUME AdviseTypes, [ComponentsNext]_componentsVars PROVE AdviseTypes'
  <2>1. CASE subject = "advising" /\ subject' = subject /\ Advise!Next
    BY <1>2, <2>1 DEF AdviseTypes, Advise!TypeOK, Advise!Next, Advise!RunSteps
  <2>2. CASE subject # "advising" /\ subject' = subject
    BY <2>2 DEF AdviseTypes
  <2>3. CASE UNCHANGED <<subject, adviseVars>>
    BY <1>2, <2>3 DEF AdviseTypes, Advise!TypeOK, adviseVars
  <2> QED BY <1>2, <2>1, <2>2, <2>3 DEF ComponentsNext, componentsVars
<1> QED BY <1>1, <1>2, PTL DEF ComponentsSpec

\* ComponentsTypeOK: the types of the four components' variables, for every
\* value of the constants.
THEOREM ComponentsTypes == ComponentsSpec => []ComponentsTypeOK
<1>1. TypeOK /\ DegradationInv /\ (TabInv /\ LimitInv) /\ AdviseTypes => ComponentsTypeOK
  BY TypesOfChat DEF ComponentsTypeOK, DegradationInv, TabInv, LimitInv, AdviseTypes
<1> QED BY <1>1, CacheAlone, TypeCorrect, DegradationAlways, ChatAlways, AdviseAlways, PTL
=============================================================================
