------------------------ MODULE Orchestrator_proofs ------------------------
(***************************************************************************)
(* What the graph and its threads promise, for any number of calls,        *)
(* threads, messages and failures and for windows of any size.             *)
(***************************************************************************)
EXTENDS Orchestrator, NatInduction, SequenceTheorems, TLAPS

-----------------------------------------------------------------------------
(* Sequences and numbers. *)

LEMMA Pushing ==
  ASSUME NEW S, NEW n \in Nat, NEW f \in [1..n -> S], NEW e \in S
  PROVE  /\ Append(f, e) \in [1..(n + 1) -> S]
         /\ Append(f, e)[n + 1] = e
         /\ \A i \in 1..n : Append(f, e)[i] = f[i]
<1>1. f \in Seq(S) /\ Len(f) = n
  BY SMT
<1>2. /\ Append(f, e) \in Seq(S) /\ Len(Append(f, e)) = n + 1
      /\ \A i \in 1..n : Append(f, e)[i] = f[i]
      /\ Append(f, e)[n + 1] = e
  BY <1>1, SMT
<1>3. Append(f, e) \in [1..Len(Append(f, e)) -> S]
  BY <1>2, LenProperties
<1> QED
  BY <1>2, <1>3

LEMMA CallFacts ==
  ASSUME NEW c \in Call
  PROVE  /\ c.thread \in Threads /\ c.kind \in {"message", "resume"}
         /\ c.kind = "message" => c.input.text \in Text /\ c.input.role \in Roles
         /\ c.kind = "resume" => c.approved \in BOOLEAN /\ c.card \in 1..MaxCalls
<1>1. CASE c \in [kind : {"message"}, thread : Threads, input : Inputs]
  BY <1>1, OrchestratorAssumption
<1>2. CASE c \in [kind : {"resume"}, thread : Threads, approved : BOOLEAN, card : 1..MaxCalls]
  BY <1>2
<1> QED
  BY <1>1, <1>2 DEF Call

\* The bounds are numbers.
LEMMA Bounds == MaxCalls \in Nat /\ HistoryTurns \in Nat /\ CorefTurns \in Nat
BY OrchestratorAssumption

\* A nonempty bounded set of numbers has a greatest element.
LEMMA GreatestNat ==
  ASSUME NEW T \in SUBSET Nat, T # {}, NEW b \in Nat, \A x \in T : x <= b
  PROVE  \E m \in T : \A x \in T : x <= m
<1> DEFINE D == {d \in Nat : \E x \in T : d = b - x}
<1>1. D \subseteq Nat /\ D # {}
  <2>1. PICK x \in T : TRUE
    OBVIOUS
  <2>2. b - x \in Nat
    BY <2>1, SMT
  <2> QED
    BY <2>1, <2>2
<1>2. PICK d \in D : \A e \in D : d <= e
  <2> HIDE DEF D
  <2> QED
    BY <1>1, LeastNat
<1>3. PICK m \in T : d = b - m
  BY <1>2
<1>4. ASSUME NEW x \in T PROVE x <= m
  <2>1. b - x \in Nat
    BY SMT
  <2>2. b - x \in D
    BY <2>1
  <2>3. d <= b - x
    BY <2>2, <1>2
  <2> QED
    BY <2>3, <1>3, SMT
<1> QED
  BY <1>4

-----------------------------------------------------------------------------
(* The gate and the agents. *)

LEMMA MinIsMember ==
  ASSUME NEW T \in SUBSET Nat, T # {}
  PROVE  Min(T) \in T
<1>1. \E m \in T : \A x \in T : m <= x
  BY LeastNat
<1> QED
  BY <1>1 DEF Min

LEMMA MaxIsGreatest ==
  ASSUME NEW T, T # {}, \A x \in T : x \in Nat /\ x <= 1000
  PROVE  Max(T) \in T /\ \A x \in T : x <= Max(T)
<1> DEFINE b == 1000
<1>1. b \in Nat /\ \A x \in T : x \in Nat /\ x <= b
  OBVIOUS
<1> HIDE DEF b
<1>2. PICK m \in T : \A x \in T : x <= m
  BY <1>1, GreatestNat, ZenonT(30)
<1>3. \A x \in T : m >= x
  BY <1>1, <1>2, SMT
<1>4. Max(T) \in T /\ \A x \in T : Max(T) >= x
  BY <1>3 DEF Max
<1> QED
  BY <1>1, <1>4, SMT

\* The gate only gives verdicts there are.
LEMMA GateDecides ==
  ASSUME NEW cl, NEW role, NEW intent, NEW text, NEW history
  PROVE  OuterSafetyCheck(cl, role, intent, text, history) \subseteq Decisions
<1>1. CheckRbac(role, intent) \in Decisions
  BY DEF CheckRbac, Decisions
<1>2. CheckStaticRules(intent, text) \in Decisions
  <2> DEFINE hits == {i \in DOMAIN StaticRules : Matches(StaticRules[i], intent, text)}
  <2>1. DOMAIN StaticRules = 1..5 /\ \A i \in 1..5 : StaticRules[i].decision \in Decisions
    BY DEF StaticRules, Rule, Decisions
  <2>2. CASE hits = {}
    BY <2>2 DEF CheckStaticRules, Decisions
  <2>3. CASE hits # {}
    <3>1. hits \subseteq Nat
      BY <2>1
    <3>2. Min(hits) \in hits
      <4> HIDE DEF hits
      <4> QED
        BY <3>1, <2>3, MinIsMember
    <3>3. StaticRules[Min(hits)].decision \in Decisions
      BY <3>2, <2>1
    <3> QED
      BY <3>3, <2>3 DEF CheckStaticRules
  <2> QED
    BY <2>2, <2>3
<1>3. CheckInjection(cl, text, history) \subseteq Decisions
  BY DEF CheckInjection, DecisionOf, Decisions
<1> QED
  BY <1>1, <1>2, <1>3 DEF OuterSafetyCheck

LEMMA QueriesLeakMatches ==
  \A a \in Query!RunQueryAgent : a.leaks \in SUBSET Registry
<1> SUFFICES ASSUME NEW o \in Query!Outputs, NEW a \in Query!Answers(o)
             PROVE  a.leaks \in SUBSET Registry
  BY DEF Query!RunQueryAgent
<1>1. CASE ~o.json
  <2>1. o.text \in LLMLeaks
    BY <1>1 DEF Query!Outputs
  <2>2. a = Query!Answer(o.text, "none")
    BY <1>1 DEF Query!Answers
  <2> QED
    BY <2>1, <2>2, OrchestratorAssumption DEF Query!Answer
<1>2. CASE o.json
  <2>1. a.leaks = {} \/ \E r : a.leaks = Query!FormattedLeaks(o.source, r)
    <3>1. CASE o.source \in {"", "unknown"}
      <4>1. a = Query!Answer({}, "none") \/ a = Query!Answer({}, "failed")
        BY <1>2, <3>1 DEF Query!Answers
      <4> QED
        BY <4>1 DEF Query!Answer
    <3>2. CASE o.source \notin {"", "unknown"}
      <4>1. \E r : \E w : a = Query!Answer(Query!FormattedLeaks(o.source, r), w)
        BY <1>2, <3>2, Zenon DEF Query!Answers
      <4> QED
        BY <4>1 DEF Query!Answer
    <3> QED
      BY <3>1, <3>2
  <2>2. \A r : Query!FormattedLeaks(o.source, r) \in SUBSET Registry
    BY DEF Query!FormattedLeaks, Registry
  <2> QED
    BY <2>1, <2>2
<1> QED
  BY <1>1, <1>2

\* Whatever an agent returns, the registries know it.
LEMMA AgentsLeakMatches ==
  ASSUME NEW agent, NEW l \in AgentLeaks(agent)
  PROVE  l \in SUBSET Registry
BY QueriesLeakMatches, OrchestratorAssumption DEF AgentLeaks

LEMMA ScoresAreThousandths ==
  ASSUME NEW text
  PROVE  Score(text) \in 0..1000 /\ Discounted(Score(text)) \in 0..1000
<1> DEFINE T == {0} \cup {PatternScore[m] : m \in text.marks \cap DOMAIN PatternScore}
<1>1. \A m \in DOMAIN PatternScore : PatternScore[m] \in 0..1000
  BY DEF PatternScore
<1>2. T # {} /\ T \subseteq 0..1000 /\ \A x \in T : x \in Nat /\ x <= 1000
  BY <1>1, SMTT(30)
<1>3. Max(T) \in T
  <2> HIDE DEF T
  <2> QED
    BY <1>2, MaxIsGreatest, ZenonT(30)
<1>4. Score(text) \in 0..1000
  <2>1. Score(text) = Max(T)
    BY DEF Score
  <2> HIDE DEF T
  <2>2. T \subseteq 0..1000
    BY <1>2
  <2>3. Max(T) \in 0..1000
    BY <2>2, <1>3, ZenonT(30)
  <2> QED
    BY <2>1, <2>3
<1> QED
  BY <1>4, SMT DEF Discounted

\* What the heuristic guard lets pass has no injection in its window.
LEMMA AllowedIsClean ==
  ASSUME NEW role, NEW intent, NEW text, NEW history,
         "allow" \in OuterSafetyCheck("heuristic", role, intent, text, history)
  PROVE  \A h \in LastOf(history, HistoryTurns) : Discounted(Score(h)) < 500
<1> DEFINE T == {Score(text)} \cup
                {Discounted(Score(h)) : h \in LastOf(history, HistoryTurns)}
<1>1. HeuristicScore(text, history) = Max(T)
  BY DEF HeuristicScore
<1>2. T # {} /\ \A x \in T : x \in Nat /\ x <= 1000
  BY ScoresAreThousandths, SMTT(30)
<1>3. Max(T) \in Nat /\ \A x \in T : x <= Max(T)
  <2> HIDE DEF T
  <2> QED
    BY <1>2, MaxIsGreatest
<1>4. "allow" \in CheckInjection("heuristic", text, history)
  BY DEF OuterSafetyCheck
<1>5. DecisionOf(Max(T)) = "allow"
  BY <1>4, <1>1 DEF CheckInjection
<1>6. Max(T) < 500
  <2> HIDE DEF T
  <2> QED
    BY <1>5, <1>3 DEF DecisionOf
<1>7. ASSUME NEW h \in LastOf(history, HistoryTurns)
      PROVE  Discounted(Score(h)) < 500
  <2>1. Discounted(Score(h)) \in T /\ Discounted(Score(h)) \in Nat
    BY <1>2
  <2> HIDE DEF T
  <2> QED
    BY <2>1, <1>3, <1>6
<1> QED
  BY <1>7

-----------------------------------------------------------------------------
(* The inductive invariant.  A thread's checkpoint and a call's state obey *)
(* the same rules, since calls are started from checkpoints; the rules are *)
(* about the calls, the cards shown and the classifier they are given.     *)

\* The messages of a state are messages of its thread, oldest first.
MessagesOn(calls, s, t) ==
  /\ \A i \in DOMAIN s.msgs :
       /\ s.msgs[i] \in DOMAIN calls
       /\ calls[s.msgs[i]].kind = "message" /\ calls[s.msgs[i]].thread = t
  /\ \A i, j \in DOMAIN s.msgs : i < j => s.msgs[i] < s.msgs[j]
  /\ s.node # "end" => s.msgs # <<>>

\* The gate allowed the newest message, or a reviewer approved it.
Reviewed(calls, cards, s, t) ==
  \/ s.verdict = "allow" /\ s.approval = "none"
  \/ /\ s.verdict = "flag" /\ s.approval = "approved" /\ Last(s.msgs) \in cards
     /\ \E k \in DOMAIN calls :
          calls[k].kind = "resume" /\ calls[k].thread = t /\ calls[k].approved

\* No turn in the window of the heuristic guard is an injection.
WindowClean(cl, calls, s) ==
  cl = "heuristic" =>
    \A i \in DOMAIN s.msgs : i < Len(s.msgs) /\ i + HistoryTurns >= Len(s.msgs) =>
      Discounted(Score(calls[s.msgs[i]].input.text)) < 500

\* What is settled by the time a node is next.
StageOK(cl, calls, cards, s, t) ==
  /\ s.node \in {"classify", "route", "outer"} =>
       s.verdict = "" /\ s.approval = "none" /\ s.response = NoResponse
  /\ s.node = "hitl" =>
       /\ s.verdict = "flag" /\ s.approval = "none" /\ s.response = NoResponse
       /\ Last(s.msgs) \in cards
  /\ s.node \in {"coref", "execute"} =>
       Reviewed(calls, cards, s, t) /\ s.response = NoResponse
  /\ s.node = "reject" => s.verdict = "deny" /\ s.approval = "none"
  /\ s.node = "end" => s.response.leaks = {}
  /\ s.verdict = "allow" => WindowClean(cl, calls, s)

\* How far a call is, what it executed (r) and what it fed the resolver (f).
CallOK(calls, cards, n, s, st, r, f) ==
  /\ st = "running" => /\ s.node # "end"
                       /\ s.node = "hitl" => calls[n].kind = "resume"
  /\ st = "paused" => s.node = "hitl"
  /\ st = "done" => s.node = "end"
  /\ r # 0 => /\ s.msgs # <<>> /\ r = Last(s.msgs)
              /\ Reviewed(calls, cards, s, calls[n].thread)
              /\ st = "failed" \/ s.node \in {"respond", "filter", "end"}
  /\ f # {} => /\ \A m \in f : \E i \in DOMAIN s.msgs : i < Len(s.msgs) /\ m = s.msgs[i]
               /\ Reviewed(calls, cards, s, calls[n].thread)
               /\ s.node \in {"execute", "respond", "filter", "end"}

GoodInv ==
  /\ TypeOK
  /\ \A m \in shown : call[m].kind = "message"
  /\ \A t \in Threads : /\ MessagesOn(call, ckpt[t], t)
                        /\ StageOK(client, call, shown, ckpt[t], t)
  /\ \A n \in DOMAIN call :
       /\ MessagesOn(call, state[n], call[n].thread)
       /\ StageOK(client, call, shown, state[n], call[n].thread)
       /\ CallOK(call, shown, n, state[n], status[n], ran[n], fed[n])

-----------------------------------------------------------------------------
(* Later calls and cards take nothing back. *)

Extends(calls, more) ==
  \A k \in DOMAIN calls : k \in DOMAIN more /\ more[k] = calls[k]

LEMMA MessagesGrow ==
  ASSUME NEW calls, NEW more, NEW s, NEW t, Extends(calls, more), MessagesOn(calls, s, t)
  PROVE  MessagesOn(more, s, t)
BY DEF Extends, MessagesOn

LEMMA ReviewedGrows ==
  ASSUME NEW calls, NEW more, NEW cards, NEW others, NEW s, NEW t,
         Extends(calls, more), cards \subseteq others, Reviewed(calls, cards, s, t)
  PROVE  Reviewed(more, others, s, t)
BY DEF Extends, Reviewed

LEMMA StageGrows ==
  ASSUME NEW cl, NEW calls, NEW more, NEW cards, NEW others, NEW s, NEW t,
         Extends(calls, more), cards \subseteq others, MessagesOn(calls, s, t),
         StageOK(cl, calls, cards, s, t)
  PROVE  StageOK(cl, more, others, s, t)
<1>1. s.verdict = "allow" => WindowClean(cl, more, s)
  BY DEF StageOK, WindowClean, Extends, MessagesOn
<1>2. s.node \in {"coref", "execute"} => Reviewed(more, others, s, t)
  BY ReviewedGrows DEF StageOK
<1> QED
  BY <1>1, <1>2 DEF StageOK

LEMMA CallGrows ==
  ASSUME NEW calls, NEW more, NEW cards, NEW others, NEW n \in DOMAIN calls,
         NEW s, NEW st, NEW r, NEW f,
         Extends(calls, more), cards \subseteq others, CallOK(calls, cards, n, s, st, r, f)
  PROVE  CallOK(more, others, n, s, st, r, f)
<1>1. more[n] = calls[n]
  BY DEF Extends
<1>2. Reviewed(calls, cards, s, calls[n].thread) => Reviewed(more, others, s, more[n].thread)
  BY <1>1, ReviewedGrows
<1> QED
  BY <1>1, <1>2 DEF CallOK

-----------------------------------------------------------------------------
(* A step starts a call or moves one; either way the rules stay. *)

\* q' is q with a last element e.
Longer(q, more, e) ==
  /\ more[Len(call) + 1] = e
  /\ \A n \in DOMAIN call : more[n] = q[n]

LEMMA Lengthening ==
  ASSUME NEW S, Len(call) \in Nat, DOMAIN call = 1..Len(call),
         NEW q \in [DOMAIN call -> S], NEW e \in S
  PROVE  Append(q, e) \in [1..(Len(call) + 1) -> S] /\ Longer(q, Append(q, e), e)
<1> DEFINE N == Len(call)
<1>1. N \in Nat /\ q \in [1..N -> S] /\ DOMAIN call = 1..N
  OBVIOUS
<1>2. /\ Append(q, e) \in [1..(N + 1) -> S] /\ Append(q, e)[N + 1] = e
      /\ \A i \in 1..N : Append(q, e)[i] = q[i]
  <2> HIDE DEF N
  <2>1. N \in Nat
    BY <1>1
  <2>2. q \in [1..N -> S]
    BY <1>1
  <2>3. Append(q, e) \in [1..(N + 1) -> S]
    BY <2>1, <2>2, Pushing
  <2>4. Append(q, e)[N + 1] = e
    BY <2>1, <2>2, Pushing
  <2>5. \A i \in 1..N : Append(q, e)[i] = q[i]
    BY <2>1, <2>2, Pushing
  <2> QED
    BY <2>3, <2>4, <2>5
<1> QED
  BY <1>1, <1>2 DEF Longer

LEMMA BeginFacts ==
  ASSUME TypeOK, NEW c \in Call, NEW s \in State, Begin(c, s)
  PROVE  /\ DOMAIN call = 1..Len(call) /\ DOMAIN call' = DOMAIN call \cup {Len(call) + 1}
         /\ Len(call) \in Nat /\ Len(call) + 1 \notin DOMAIN call
         /\ Len(call) + 1 \in 1..MaxCalls
         /\ Extends(call, call')
         /\ call' \in Seq(Call) /\ Len(call') = Len(call) + 1 /\ Len(call') <= MaxCalls
         /\ state' \in [DOMAIN call' -> State]
         /\ status' \in [DOMAIN call' -> {"running", "paused", "done", "failed"}]
         /\ ran' \in [DOMAIN call' -> {0} \cup DOMAIN call']
         /\ fed' \in [DOMAIN call' -> SUBSET DOMAIN call']
         /\ during' \in [DOMAIN call' -> SUBSET DOMAIN call']
         /\ Longer(call, call', c) /\ Longer(state, state', s)
         /\ Longer(status, status', IF s.node = "end" THEN "done" ELSE "running")
         /\ Longer(ran, ran', 0) /\ Longer(fed, fed', {})
         /\ Longer(during, during', {k \in DOMAIN call : call[k].thread = c.thread
                                                      /\ status[k] = "running"})
<1> DEFINE N == Len(call)
<1>1. /\ N \in Nat /\ DOMAIN call = 1..N /\ call \in Seq(Call) /\ N < MaxCalls
      /\ call \in [1..N -> Call]
  BY LenProperties DEF TypeOK, Begin
<1>2. call' = Append(call, c) /\ call' \in Seq(Call) /\ Len(call') = N + 1
  BY <1>1, SMT DEF Begin
<1>3. DOMAIN call' = 1..(N + 1)
  BY <1>2, LenProperties
<1>4. N + 1 \in 1..MaxCalls /\ N + 1 \notin 1..N /\ 1..(N + 1) = 1..N \cup {N + 1}
      /\ N + 1 <= MaxCalls
  BY <1>1, Bounds, SMT
<1>5. Longer(call, call', c) /\ Extends(call, call')
  BY <1>1, <1>2, <1>3, <1>4, Lengthening DEF Longer, Extends
<1>6. state' \in [1..(N + 1) -> State] /\ Longer(state, state', s)
  <2>1. state \in [DOMAIN call -> State] /\ state' = Append(state, s)
    BY <1>1 DEF TypeOK, Begin
  <2> QED
    BY <1>1, <2>1, Lengthening
<1>7. /\ status' \in [1..(N + 1) -> {"running", "paused", "done", "failed"}]
      /\ Longer(status, status', IF s.node = "end" THEN "done" ELSE "running")
  <2> DEFINE e == IF s.node = "end" THEN "done" ELSE "running"
             W == {"running", "paused", "done", "failed"}
  <2>1. status \in [DOMAIN call -> W] /\ status' = Append(status, e) /\ e \in W
    BY <1>1 DEF TypeOK, Begin
  <2> HIDE DEF e, W
  <2>2. status' \in [1..(N + 1) -> W] /\ Longer(status, status', e)
    BY <1>1, <2>1, Lengthening
  <2> QED
    BY <2>2 DEF e, W
<1>8. ran' \in [1..(N + 1) -> {0} \cup 1..(N + 1)] /\ Longer(ran, ran', 0)
  <2> DEFINE W == {0} \cup 1..(N + 1)
  <2>1. ran \in [DOMAIN call -> W] /\ ran' = Append(ran, 0) /\ 0 \in W
    BY <1>1, <1>4 DEF TypeOK, Begin
  <2> HIDE DEF W
  <2>2. ran' \in [1..(N + 1) -> W] /\ Longer(ran, ran', 0)
    BY <1>1, <2>1, Lengthening
  <2> QED
    BY <2>2 DEF W
<1>9. fed' \in [1..(N + 1) -> SUBSET (1..(N + 1))] /\ Longer(fed, fed', {})
  <2> DEFINE W == SUBSET (1..(N + 1))
  <2>1. fed \in [DOMAIN call -> W] /\ fed' = Append(fed, {}) /\ {} \in W
    BY <1>1, <1>4 DEF TypeOK, Begin
  <2> HIDE DEF W
  <2>2. fed' \in [1..(N + 1) -> W] /\ Longer(fed, fed', {})
    BY <1>1, <2>1, Lengthening
  <2> QED
    BY <2>2 DEF W
<1>10. /\ during' \in [1..(N + 1) -> SUBSET (1..(N + 1))]
       /\ Longer(during, during', {k \in DOMAIN call : call[k].thread = c.thread
                                                    /\ status[k] = "running"})
  <2> DEFINE W == SUBSET (1..(N + 1))
             e == {k \in DOMAIN call : call[k].thread = c.thread /\ status[k] = "running"}
  <2>1. during \in [DOMAIN call -> W] /\ during' = Append(during, e) /\ e \in W
    BY <1>1, <1>4 DEF TypeOK, Begin
  <2> HIDE DEF W, e
  <2>2. during' \in [1..(N + 1) -> W] /\ Longer(during, during', e)
    BY <1>1, <2>1, Lengthening
  <2> QED
    BY <2>2 DEF W, e
<1> QED
  BY <1>1, <1>2, <1>3, <1>4, <1>5, <1>6, <1>7, <1>8, <1>9, <1>10 DEF N

LEMMA BeginKeeps ==
  ASSUME GoodInv, NEW c \in Call, NEW s \in State, Begin(c, s),
         MessagesOn(call', s, c.thread), StageOK(client, call', shown, s, c.thread),
         s.node = "hitl" => c.kind = "resume",
         ckpt' \in [Threads -> State],
         \A t \in Threads : ckpt'[t] = ckpt[t] \/ (t = c.thread /\ ckpt'[t] = s)
  PROVE  GoodInv'
<1> DEFINE N == Len(call) + 1
<1>1. TypeOK /\ UNCHANGED <<client, shown>>
  BY DEF GoodInv, Begin
<1>2. /\ DOMAIN call' = DOMAIN call \cup {N} /\ Extends(call, call')
      /\ Longer(call, call', c) /\ Longer(state, state', s)
      /\ Longer(status, status', IF s.node = "end" THEN "done" ELSE "running")
      /\ Longer(ran, ran', 0) /\ Longer(fed, fed', {})
  <2>1. DOMAIN call' = DOMAIN call \cup {N} /\ Extends(call, call')
    BY <1>1, BeginFacts
  <2>2. Longer(call, call', c) /\ Longer(state, state', s)
    BY <1>1, BeginFacts
  <2>3. Longer(status, status', IF s.node = "end" THEN "done" ELSE "running")
    BY <1>1, BeginFacts
  <2>4. Longer(ran, ran', 0) /\ Longer(fed, fed', {})
    BY <1>1, BeginFacts
  <2> QED
    BY <2>1, <2>2, <2>3, <2>4
<1>3. TypeOK'
  <2>1. shown' \subseteq DOMAIN call' /\ client' \in Clients
    BY <1>1, <1>2 DEF TypeOK
  <2> QED
    BY <1>1, BeginFacts, <2>1 DEF TypeOK
<1>4. \A m \in shown' : call'[m].kind = "message"
  BY <1>1, <1>2 DEF GoodInv, TypeOK, Extends
<1>5. ASSUME NEW t \in Threads
      PROVE  MessagesOn(call', ckpt'[t], t) /\ StageOK(client', call', shown', ckpt'[t], t)
  <2>1. MessagesOn(call, ckpt[t], t) /\ StageOK(client, call, shown, ckpt[t], t)
    BY DEF GoodInv
  <2>2. MessagesOn(call', ckpt[t], t) /\ StageOK(client, call', shown, ckpt[t], t)
    BY <1>2, <2>1, MessagesGrow, StageGrows
  <2> QED
    BY <2>2, <1>1
<1>6. ASSUME NEW n \in DOMAIN call'
      PROVE  /\ MessagesOn(call', state'[n], call'[n].thread)
             /\ StageOK(client', call', shown', state'[n], call'[n].thread)
             /\ CallOK(call', shown', n, state'[n], status'[n], ran'[n], fed'[n])
  <2>1. CASE n \in DOMAIN call
    <3>1. /\ call'[n] = call[n] /\ state'[n] = state[n] /\ status'[n] = status[n]
          /\ ran'[n] = ran[n] /\ fed'[n] = fed[n]
      BY <1>2, <2>1 DEF Longer
    <3>2. /\ MessagesOn(call, state[n], call[n].thread)
          /\ StageOK(client, call, shown, state[n], call[n].thread)
          /\ CallOK(call, shown, n, state[n], status[n], ran[n], fed[n])
      BY <2>1 DEF GoodInv
    <3>3. /\ MessagesOn(call', state[n], call[n].thread)
          /\ StageOK(client, call', shown, state[n], call[n].thread)
          /\ CallOK(call', shown, n, state[n], status[n], ran[n], fed[n])
      BY <3>2, <2>1, <1>2, MessagesGrow, StageGrows, CallGrows
    <3> QED
      BY <3>1, <3>3, <1>1
  <2>2. CASE n = N
    <3>1. /\ call'[n] = c /\ state'[n] = s /\ ran'[n] = 0 /\ fed'[n] = {}
          /\ status'[n] = (IF s.node = "end" THEN "done" ELSE "running")
      BY <1>2, <2>2 DEF Longer
    <3>2. CallOK(call', shown, n, s, status'[n], 0, {})
      BY <3>1 DEF CallOK
    <3> QED
      BY <3>1, <3>2, <1>1
  <2> QED
    BY <2>1, <2>2, <1>2
<1> QED
  BY <1>3, <1>4, <1>5, <1>6 DEF GoodInv

\* What a node that leaves s behind must see to; it executes r and feeds f.
Moves(n, s, st, r, f) ==
  /\ Advance(n, s) /\ UNCHANGED traceVars
  /\ status' = [status EXCEPT ![n] = st]
  /\ ran' = [ran EXCEPT ![n] = r] /\ fed' = [fed EXCEPT ![n] = f]
  /\ shown \subseteq shown'

LEMMA AdvanceKeeps ==
  ASSUME GoodInv, NEW n \in DOMAIN call, NEW s \in State,
         NEW st \in {"running", "paused", "done", "failed"},
         NEW r \in {0} \cup DOMAIN call, NEW f \in SUBSET DOMAIN call,
         Moves(n, s, st, r, f),
         \A m \in shown' : m \in DOMAIN call /\ call[m].kind = "message",
         MessagesOn(call, s, call[n].thread),
         StageOK(client, call, shown', s, call[n].thread),
         CallOK(call, shown', n, s, st, r, f)
  PROVE  GoodInv'
<1>1. TypeOK /\ UNCHANGED <<client, call, during>> /\ shown \subseteq shown'
      /\ Extends(call, call)
  BY DEF GoodInv, Moves, traceVars, Extends
<1>2. /\ state' \in [DOMAIN call -> State] /\ state'[n] = s
      /\ \A k \in DOMAIN call : k # n => state'[k] = state[k]
  BY <1>1 DEF TypeOK, Moves, Advance
<1>3. /\ ckpt' \in [Threads -> State]
      /\ \A t \in Threads : ckpt'[t] = ckpt[t] \/ (t = call[n].thread /\ ckpt'[t] = s)
  BY <1>1 DEF TypeOK, Moves, Advance
<1>4. /\ status' \in [DOMAIN call -> {"running", "paused", "done", "failed"}]
      /\ status'[n] = st
      /\ \A k \in DOMAIN call : k # n => status'[k] = status[k]
  BY <1>1 DEF TypeOK, Moves
<1>5. /\ ran' \in [DOMAIN call -> {0} \cup DOMAIN call] /\ ran'[n] = r
      /\ \A k \in DOMAIN call : k # n => ran'[k] = ran[k]
  BY <1>1 DEF TypeOK, Moves
<1>6. /\ fed' \in [DOMAIN call -> SUBSET DOMAIN call] /\ fed'[n] = f
      /\ \A k \in DOMAIN call : k # n => fed'[k] = fed[k]
  BY <1>1 DEF TypeOK, Moves
<1>7. TypeOK'
  <2>1. shown' \subseteq DOMAIN call
    OBVIOUS
  <2> QED
    BY <1>1, <1>2, <1>3, <1>4, <1>5, <1>6, <2>1 DEF TypeOK
<1>8. \A m \in shown' : call'[m].kind = "message"
  BY <1>1
<1>9. ASSUME NEW t \in Threads
      PROVE  MessagesOn(call, ckpt'[t], t) /\ StageOK(client, call, shown', ckpt'[t], t)
  <2>1. MessagesOn(call, ckpt[t], t) /\ StageOK(client, call, shown, ckpt[t], t)
    BY DEF GoodInv
  <2>2. StageOK(client, call, shown', ckpt[t], t)
    BY <1>1, <2>1, StageGrows
  <2> QED
    BY <2>1, <2>2, <1>3
<1>10. ASSUME NEW k \in DOMAIN call
       PROVE  /\ MessagesOn(call, state'[k], call[k].thread)
              /\ StageOK(client, call, shown', state'[k], call[k].thread)
              /\ CallOK(call, shown', k, state'[k], status'[k], ran'[k], fed'[k])
  <2>1. CASE k = n
    BY <2>1, <1>2, <1>4, <1>5, <1>6
  <2>2. CASE k # n
    <3>1. /\ MessagesOn(call, state[k], call[k].thread)
          /\ StageOK(client, call, shown, state[k], call[k].thread)
          /\ CallOK(call, shown, k, state[k], status[k], ran[k], fed[k])
      BY DEF GoodInv
    <3>2. /\ StageOK(client, call, shown', state[k], call[k].thread)
          /\ CallOK(call, shown', k, state[k], status[k], ran[k], fed[k])
      BY <1>1, <3>1, StageGrows, CallGrows
    <3> QED
      BY <2>2, <3>1, <3>2, <1>2, <1>4, <1>5, <1>6
  <2> QED
    BY <2>1, <2>2
<1> QED
  BY <1>1, <1>7, <1>8, <1>9, <1>10 DEF GoodInv

\* What a call at a node may rely on.
LEMMA AtNode ==
  ASSUME GoodInv, NEW n \in DOMAIN call, NEW node \in Nodes \ {"end"}, At(n, node)
  PROVE  /\ state[n] \in State /\ call[n] \in Call /\ call[n].thread \in Threads
         /\ status[n] = "running" /\ state[n].node = node
         /\ MessagesOn(call, state[n], call[n].thread)
         /\ StageOK(client, call, shown, state[n], call[n].thread)
         /\ CallOK(call, shown, n, state[n], status[n], ran[n], fed[n])
         /\ state[n].msgs \in Seq(1..MaxCalls) /\ state[n].msgs # <<>>
         /\ Message(n) = state[n].msgs[Len(state[n].msgs)]
         /\ Message(n) \in DOMAIN call /\ call[Message(n)].kind = "message"
         /\ call[Message(n)].thread = call[n].thread
<1>1. /\ state[n] \in State /\ call[n] \in Call
      /\ status[n] = "running" /\ state[n].node = node
  BY DEF GoodInv, TypeOK, At
<1>2. call[n].thread \in Threads
  BY <1>1, CallFacts
<1>3. /\ MessagesOn(call, state[n], call[n].thread)
      /\ StageOK(client, call, shown, state[n], call[n].thread)
      /\ CallOK(call, shown, n, state[n], status[n], ran[n], fed[n])
  BY DEF GoodInv
<1>4. state[n].msgs \in Seq(1..MaxCalls) /\ state[n].msgs # <<>>
  BY <1>1, <1>3 DEF State, MessagesOn
<1>5. Len(state[n].msgs) \in DOMAIN state[n].msgs
  <2> DEFINE q == state[n].msgs
  <2>1. q \in Seq(1..MaxCalls) /\ q # <<>>
    BY <1>4
  <2> HIDE DEF q
  <2>2. Len(q) \in Nat /\ Len(q) # 0 /\ DOMAIN q = 1..Len(q)
    BY <2>1, LenProperties, EmptySeq
  <2>3. Len(q) \in DOMAIN q
    BY <2>2, SMT
  <2> QED
    BY <2>3 DEF q
<1>6. Message(n) = state[n].msgs[Len(state[n].msgs)]
  BY DEF Message, Last
<1> QED
  BY <1>1, <1>2, <1>3, <1>4, <1>5, <1>6 DEF MessagesOn

\* A node that leaves the messages alone.
LEMMA MessagesStay ==
  ASSUME NEW calls, NEW s, NEW t, MessagesOn(calls, s, t), s.msgs # <<>>,
         NEW new, new.msgs = s.msgs
  PROVE  MessagesOn(calls, new, t)
BY DEF MessagesOn

LEMMA SameUpdate ==
  ASSUME NEW D, NEW S, NEW g \in [D -> S], NEW n \in D
  PROVE  g = [g EXCEPT ![n] = g[n]]
OBVIOUS

LEMMA PlainMoves ==
  ASSUME GoodInv, NEW n \in DOMAIN call, NEW node \in Nodes \ {"end"}, At(n, node),
         NEW s \in State, Advance(n, s), UNCHANGED <<traceVars, status, shown, ran, fed>>,
         s.msgs = state[n].msgs,
         StageOK(client, call, shown, s, call[n].thread),
         CallOK(call, shown, n, s, "running", ran[n], fed[n])
  PROVE  GoodInv'
<1>1. TypeOK /\ status[n] = "running"
  BY AtNode DEF GoodInv
<1>2. ran[n] \in {0} \cup DOMAIN call /\ fed[n] \in SUBSET DOMAIN call
  BY <1>1 DEF TypeOK
<1>3. Moves(n, s, "running", ran[n], fed[n])
  <2>1. status = [status EXCEPT ![n] = "running"]
    BY <1>1, SameUpdate DEF TypeOK
  <2>2. ran = [ran EXCEPT ![n] = ran[n]] /\ fed = [fed EXCEPT ![n] = fed[n]]
    BY <1>1, SameUpdate DEF TypeOK
  <2> QED
    BY <2>1, <2>2 DEF Moves
<1>4. MessagesOn(call, s, call[n].thread)
  BY AtNode, MessagesStay
<1>5. \A m \in shown' : m \in DOMAIN call /\ call[m].kind = "message"
  BY DEF GoodInv, TypeOK
<1>6. shown' = shown
  OBVIOUS
<1> QED
  BY <1>2, <1>3, <1>4, <1>5, <1>6, AdvanceKeeps

\* Before an agent is next nothing was executed and nothing fed.
LEMMA NothingYet ==
  ASSUME GoodInv, NEW n \in DOMAIN call,
         NEW node \in {"classify", "route", "outer", "hitl", "coref", "execute", "reject"},
         At(n, node)
  PROVE  ran[n] = 0 /\ (node # "execute" => fed[n] = {})
<1>1. CallOK(call, shown, n, state[n], "running", ran[n], fed[n]) /\ state[n].node = node
  BY DEF GoodInv, At
<1> QED
  BY <1>1 DEF CallOK

LEMMA ClassifyKeeps ==
  ASSUME GoodInv, NEW n \in DOMAIN call, ClassifyIntent(n)
  PROVE  GoodInv'
<1>1. At(n, "classify") /\ "classify" \in Nodes \ {"end"}
  BY DEF ClassifyIntent, Nodes
<1>2. PICK i \in {TextOf(Message(n)).intent, "query"} :
        Advance(n, [state[n] EXCEPT !.intent = i, !.node = "route"])
  BY DEF ClassifyIntent
<1> DEFINE new == [state[n] EXCEPT !.intent = i, !.node = "route"]
<1>3. i \in Intents
  <2>1. call[Message(n)] \in Call /\ call[Message(n)].kind = "message"
    BY <1>1, AtNode DEF GoodInv, TypeOK
  <2>2. TextOf(Message(n)) \in Text
    BY <2>1, CallFacts DEF TextOf
  <2> QED
    BY <2>2 DEF Text, Intents
<1>4. /\ state[n] \in State /\ state[n].node = "classify"
      /\ StageOK(client, call, shown, state[n], call[n].thread)
  BY <1>1, AtNode
<1>5. new \in State
  BY <1>3, <1>4 DEF State, Nodes
<1>6. /\ new.msgs = state[n].msgs /\ new.node = "route" /\ new.verdict = state[n].verdict
      /\ new.approval = state[n].approval /\ new.response = state[n].response
  BY <1>4 DEF State
<1> HIDE DEF new
<1>7. StageOK(client, call, shown, new, call[n].thread)
  BY <1>4, <1>6 DEF StageOK
<1>8. CallOK(call, shown, n, new, "running", ran[n], fed[n])
  BY <1>1, <1>6, NothingYet DEF CallOK
<1>9. Advance(n, new) /\ UNCHANGED <<traceVars, status, shown, ran, fed>>
  BY <1>2 DEF new, ClassifyIntent
<1> QED
  BY <1>1, <1>5, <1>6, <1>7, <1>8, <1>9, PlainMoves

LEMMA RouteKeeps ==
  ASSUME GoodInv, NEW n \in DOMAIN call, RouteToAgent(n)
  PROVE  GoodInv'
<1> DEFINE new == [state[n] EXCEPT !.agent = AgentOf(state[n].intent), !.node = "outer"]
<1>1. At(n, "route") /\ "route" \in Nodes \ {"end"}
  BY DEF RouteToAgent, Nodes
<1>4. /\ state[n] \in State /\ state[n].node = "route"
      /\ StageOK(client, call, shown, state[n], call[n].thread)
  BY <1>1, AtNode
<1>5. new \in State
  BY <1>4 DEF State, Nodes, AgentOf
<1>6. /\ new.msgs = state[n].msgs /\ new.node = "outer" /\ new.verdict = state[n].verdict
      /\ new.approval = state[n].approval /\ new.response = state[n].response
  BY <1>4 DEF State
<1>9. Advance(n, new) /\ UNCHANGED <<traceVars, status, shown, ran, fed>>
  BY DEF RouteToAgent
<1> HIDE DEF new
<1>7. StageOK(client, call, shown, new, call[n].thread)
  BY <1>4, <1>6 DEF StageOK
<1>8. CallOK(call, shown, n, new, "running", ran[n], fed[n])
  BY <1>1, <1>6, NothingYet DEF CallOK
<1> QED
  BY <1>1, <1>5, <1>6, <1>7, <1>8, <1>9, PlainMoves

LEMMA HitlKeeps ==
  ASSUME GoodInv, NEW n \in DOMAIN call, HitlApproval(n)
  PROVE  GoodInv'
<1> DEFINE yes == [state[n] EXCEPT !.approval = "approved", !.node = "coref"]
           no == [state[n] EXCEPT !.approval = "rejected", !.node = "respond",
                                  !.response.by = "reviewer"]
           new == IF call[n].approved THEN yes ELSE no
<1>1. At(n, "hitl") /\ "hitl" \in Nodes \ {"end"}
  BY DEF HitlApproval, Nodes
<1>2. /\ state[n] \in State /\ state[n].node = "hitl"
      /\ StageOK(client, call, shown, state[n], call[n].thread)
      /\ call[n].kind = "resume"
  BY <1>1, AtNode DEF CallOK
<1>3. /\ state[n].verdict = "flag" /\ state[n].response = NoResponse
      /\ Last(state[n].msgs) \in shown
  BY <1>2 DEF StageOK
<1>4. yes \in State /\ no \in State
  <2>1. yes \in State
    BY <1>2 DEF State, Nodes
  <2>2. no.response \in Response
    BY <1>2 DEF State, Response
  <2>3. no \in State
    BY <1>2, <2>2 DEF State, Nodes
  <2> QED
    BY <2>1, <2>3
<1>5. /\ yes.msgs = state[n].msgs /\ yes.node = "coref" /\ yes.verdict = "flag"
      /\ yes.approval = "approved" /\ yes.response = NoResponse
  BY <1>2, <1>3 DEF State
<1>6. /\ no.msgs = state[n].msgs /\ no.node = "respond" /\ no.verdict = "flag"
      /\ no.approval = "rejected"
  BY <1>2, <1>3 DEF State
<1>7. Advance(n, new) /\ UNCHANGED <<traceVars, status, shown, ran, fed>>
  BY DEF HitlApproval
<1> HIDE DEF yes, no
<1>8. ran[n] = 0 /\ fed[n] = {}
  BY <1>1, NothingYet
<1>9. CASE call[n].approved
  <2>1. Reviewed(call, shown, yes, call[n].thread)
    BY <1>2, <1>3, <1>5, <1>9 DEF Reviewed
  <2>2. StageOK(client, call, shown, yes, call[n].thread)
    BY <1>5, <2>1 DEF StageOK
  <2>3. CallOK(call, shown, n, yes, "running", ran[n], fed[n])
    BY <1>5, <1>8 DEF CallOK
  <2> QED
    BY <1>1, <1>4, <1>5, <1>7, <1>9, <2>2, <2>3, PlainMoves
<1>10. CASE ~call[n].approved
  <2>2. StageOK(client, call, shown, no, call[n].thread)
    BY <1>6 DEF StageOK
  <2>3. CallOK(call, shown, n, no, "running", ran[n], fed[n])
    BY <1>6, <1>8 DEF CallOK
  <2> QED
    BY <1>1, <1>4, <1>6, <1>7, <1>10, <2>2, <2>3, PlainMoves
<1> QED
  BY <1>9, <1>10

LEMMA RejectKeeps ==
  ASSUME GoodInv, NEW n \in DOMAIN call, RejectNode(n)
  PROVE  GoodInv'
<1> DEFINE new == [state[n] EXCEPT !.response.by = "gate", !.node = "respond"]
<1>1. At(n, "reject") /\ "reject" \in Nodes \ {"end"}
  BY DEF RejectNode, Nodes
<1>4. /\ state[n] \in State /\ state[n].node = "reject"
      /\ StageOK(client, call, shown, state[n], call[n].thread)
  BY <1>1, AtNode
<1>5. new \in State
  <2>1. new.response \in Response
    BY <1>4 DEF State, Response
  <2> QED
    BY <1>4, <2>1 DEF State, Nodes
<1>6. /\ new.msgs = state[n].msgs /\ new.node = "respond" /\ new.verdict = state[n].verdict
      /\ new.approval = state[n].approval
  BY <1>4 DEF State
<1>9. Advance(n, new) /\ UNCHANGED <<traceVars, status, shown, ran, fed>>
  BY DEF RejectNode
<1> HIDE DEF new
<1>7. StageOK(client, call, shown, new, call[n].thread)
  BY <1>4, <1>6 DEF StageOK
<1>8. CallOK(call, shown, n, new, "running", ran[n], fed[n])
  BY <1>1, <1>6, NothingYet DEF CallOK
<1> QED
  BY <1>1, <1>5, <1>6, <1>7, <1>8, <1>9, PlainMoves

LEMMA RespondKeeps ==
  ASSUME GoodInv, NEW n \in DOMAIN call, GenerateResponse(n)
  PROVE  GoodInv'
<1> DEFINE new == [state[n] EXCEPT !.node = "filter"]
<1>1. At(n, "respond") /\ "respond" \in Nodes \ {"end"}
  BY DEF GenerateResponse, Nodes
<1>4. /\ state[n] \in State /\ state[n].node = "respond"
      /\ StageOK(client, call, shown, state[n], call[n].thread)
      /\ CallOK(call, shown, n, state[n], "running", ran[n], fed[n])
  BY <1>1, AtNode
<1>5. new \in State
  BY <1>4 DEF State, Nodes
<1>6. /\ new.msgs = state[n].msgs /\ new.node = "filter" /\ new.verdict = state[n].verdict
      /\ new.approval = state[n].approval
  BY <1>4 DEF State
<1>9. Advance(n, new) /\ UNCHANGED <<traceVars, status, shown, ran, fed>>
  BY DEF GenerateResponse
<1> HIDE DEF new
<1>7. StageOK(client, call, shown, new, call[n].thread)
  BY <1>4, <1>6 DEF StageOK, WindowClean
<1>8. CallOK(call, shown, n, new, "running", ran[n], fed[n])
  BY <1>4, <1>6 DEF CallOK, Reviewed
<1> QED
  BY <1>1, <1>5, <1>6, <1>7, <1>8, <1>9, PlainMoves

LEMMA FilterKeeps ==
  ASSUME GoodInv, NEW n \in DOMAIN call, OutputFilter(n)
  PROVE  GoodInv'
<1> DEFINE new == [state[n] EXCEPT !.response.leaks = FilterResponse(@), !.node = "end"]
<1>1. At(n, "filter") /\ "filter" \in Nodes \ {"end"}
  BY DEF OutputFilter, Nodes
<1>2. /\ state[n] \in State /\ state[n].node = "filter" /\ state[n].msgs # <<>>
      /\ MessagesOn(call, state[n], call[n].thread)
      /\ StageOK(client, call, shown, state[n], call[n].thread)
      /\ CallOK(call, shown, n, state[n], "running", ran[n], fed[n])
  BY <1>1, AtNode
<1>3. state[n].response \in Response /\ state[n].response.leaks \subseteq Registry
  BY <1>2 DEF State, Response
<1>4. new.response = [state[n].response EXCEPT !.leaks = {}]
  BY <1>2, <1>3 DEF State, FilterResponse
<1>5. new.response \in Response /\ new.response.leaks = {}
  BY <1>3, <1>4 DEF Response
<1>6. new \in State
  BY <1>2, <1>5 DEF State, Nodes
<1>7. /\ new.msgs = state[n].msgs /\ new.node = "end" /\ new.verdict = state[n].verdict
      /\ new.approval = state[n].approval
  BY <1>2 DEF State
<1>8. /\ Advance(n, new) /\ status' = [status EXCEPT ![n] = "done"]
      /\ UNCHANGED <<traceVars, shown, ran, fed>>
  BY DEF OutputFilter
<1>9. TypeOK
  BY DEF GoodInv
<1> HIDE DEF new
<1>10. Moves(n, new, "done", ran[n], fed[n])
  <2>1. ran = [ran EXCEPT ![n] = ran[n]] /\ fed = [fed EXCEPT ![n] = fed[n]]
    BY <1>9, SameUpdate DEF TypeOK
  <2> QED
    BY <1>8, <2>1 DEF Moves
<1>11. StageOK(client, call, shown', new, call[n].thread)
  BY <1>2, <1>5, <1>7, <1>8 DEF StageOK, WindowClean
<1>12. CallOK(call, shown', n, new, "done", ran[n], fed[n])
  BY <1>2, <1>7, <1>8 DEF CallOK, Reviewed
<1>13. MessagesOn(call, new, call[n].thread)
  BY <1>2, <1>7, MessagesStay
<1>14. \A m \in shown' : m \in DOMAIN call /\ call[m].kind = "message"
  BY <1>8 DEF GoodInv, TypeOK
<1>15. ran[n] \in {0} \cup DOMAIN call /\ fed[n] \in SUBSET DOMAIN call
  BY <1>9 DEF TypeOK
<1> QED
  BY <1>6, <1>10, <1>11, <1>12, <1>13, <1>14, <1>15, AdvanceKeeps

LEMMA ExecuteKeeps ==
  ASSUME GoodInv, NEW n \in DOMAIN call, ExecuteAgent(n)
  PROVE  GoodInv'
<1>1. At(n, "execute") /\ "execute" \in Nodes \ {"end"}
  BY DEF ExecuteAgent, Nodes
<1>2. PICK l \in AgentLeaks(state[n].agent) :
        Advance(n, [state[n] EXCEPT !.response = [by |-> "agent", leaks |-> l],
                                    !.node = "respond"])
  BY DEF ExecuteAgent
<1> DEFINE new == [state[n] EXCEPT !.response = [by |-> "agent", leaks |-> l],
                                   !.node = "respond"]
<1>3. /\ state[n] \in State /\ state[n].node = "execute" /\ state[n].msgs # <<>>
      /\ MessagesOn(call, state[n], call[n].thread)
      /\ StageOK(client, call, shown, state[n], call[n].thread)
      /\ CallOK(call, shown, n, state[n], "running", ran[n], fed[n])
      /\ Message(n) \in DOMAIN call /\ status[n] = "running"
  BY <1>1, AtNode
<1>4. [by |-> "agent", leaks |-> l] \in Response
  BY AgentsLeakMatches DEF Response
<1>5. new \in State
  BY <1>3, <1>4 DEF State, Nodes
<1>6. /\ new.msgs = state[n].msgs /\ new.node = "respond" /\ new.verdict = state[n].verdict
      /\ new.approval = state[n].approval
  BY <1>3 DEF State
<1>7. /\ Advance(n, new) /\ UNCHANGED <<traceVars, status, shown, fed>>
      /\ ran' = [ran EXCEPT ![n] = Message(n)]
  BY <1>2 DEF new, ExecuteAgent
<1>8. TypeOK
  BY DEF GoodInv
<1> HIDE DEF new
<1>9. Moves(n, new, "running", Message(n), fed[n])
  <2>1. status = [status EXCEPT ![n] = "running"]
    BY <1>3, <1>8, SameUpdate DEF TypeOK
  <2>2. fed = [fed EXCEPT ![n] = fed[n]]
    BY <1>8, SameUpdate DEF TypeOK
  <2> QED
    BY <1>7, <2>1, <2>2 DEF Moves
<1>10. Reviewed(call, shown, new, call[n].thread)
  BY <1>3, <1>6 DEF StageOK, Reviewed
<1>11. StageOK(client, call, shown', new, call[n].thread)
  BY <1>3, <1>6, <1>7 DEF StageOK, WindowClean
<1>12. CallOK(call, shown', n, new, "running", Message(n), fed[n])
  BY <1>3, <1>6, <1>7, <1>10 DEF CallOK, Message
<1>13. MessagesOn(call, new, call[n].thread)
  BY <1>3, <1>6, MessagesStay
<1>14. \A m \in shown' : m \in DOMAIN call /\ call[m].kind = "message"
  BY <1>7, <1>8 DEF GoodInv, TypeOK
<1>15. Message(n) \in {0} \cup DOMAIN call /\ fed[n] \in SUBSET DOMAIN call
  BY <1>3, <1>8 DEF TypeOK
<1> QED
  BY <1>5, <1>9, <1>11, <1>12, <1>13, <1>14, <1>15, AdvanceKeeps

\* The turns of the window are turns of the history.
LEMMA WindowIsHistory ==
  ASSUME NEW S, NEW q \in Seq(S), q # <<>>, NEW w \in Nat
  PROVE  /\ Len(q) \in Nat /\ DOMAIN q = 1..Len(q) /\ DOMAIN Front(q) = 1..(Len(q) - 1)
         /\ \A i \in 1..(Len(q) - 1) : Front(q)[i] = q[i]
         /\ \A m \in LastOf(Front(q), w) : \E i \in DOMAIN q : i < Len(q) /\ m = q[i]
<1> DEFINE L == Len(q)
<1>1. L \in Nat /\ L # 0 /\ DOMAIN q = 1..L
  BY LenProperties, EmptySeq
<1>2. Front(q) = [i \in 1..(L - 1) |-> q[i]]
  <2>1. Front(q) = SubSeq(q, 1, L - 1)
    BY DEF Front
  <2> QED
    BY <1>1, <2>1, SMT
<1>3. DOMAIN Front(q) = 1..(L - 1) /\ \A i \in 1..(L - 1) : Front(q)[i] = q[i]
  BY <1>2
<1>4. ASSUME NEW m \in LastOf(Front(q), w)
      PROVE  \E i \in DOMAIN q : i < L /\ m = q[i]
  <2>1. PICK i \in DOMAIN Front(q) : m = Front(q)[i]
    BY DEF LastOf
  <2> QED
    BY <2>1, <1>1, <1>3
<1> QED
  BY <1>1, <1>3, <1>4

LEMMA CorefKeeps ==
  ASSUME GoodInv, NEW n \in DOMAIN call, CorefResolver(n)
  PROVE  GoodInv'
<1> DEFINE new == [state[n] EXCEPT !.node = "execute"]
           f == IF NeedsCoref(TextOf(Message(n)), Len(History(n)))
                THEN LastOf(History(n), CorefTurns) ELSE fed[n]
<1>1. At(n, "coref") /\ "coref" \in Nodes \ {"end"}
  BY DEF CorefResolver, Nodes
<1>2. /\ state[n] \in State /\ state[n].node = "coref" /\ state[n].msgs # <<>>
      /\ MessagesOn(call, state[n], call[n].thread)
      /\ StageOK(client, call, shown, state[n], call[n].thread)
      /\ status[n] = "running" /\ state[n].msgs \in Seq(1..MaxCalls)
  BY <1>1, AtNode
<1>3. ran[n] = 0 /\ fed[n] = {}
  BY <1>1, NothingYet
<1>4. new \in State
  BY <1>2 DEF State, Nodes
<1>5. /\ new.msgs = state[n].msgs /\ new.node = "execute" /\ new.verdict = state[n].verdict
      /\ new.approval = state[n].approval /\ new.response = state[n].response
  BY <1>2 DEF State
<1>6. TypeOK
  BY DEF GoodInv
<1>7. \A m \in f : \E i \in DOMAIN state[n].msgs :
        i < Len(state[n].msgs) /\ m = state[n].msgs[i]
  <2>1. \A m \in LastOf(Front(state[n].msgs), CorefTurns) :
          \E i \in DOMAIN state[n].msgs : i < Len(state[n].msgs) /\ m = state[n].msgs[i]
    BY <1>2, Bounds, WindowIsHistory
  <2> QED
    BY <2>1, <1>3 DEF History
<1>8. f \in SUBSET DOMAIN call
  BY <1>2, <1>7 DEF MessagesOn
<1>9. /\ Advance(n, new) /\ UNCHANGED <<traceVars, status, shown, ran>>
      /\ fed' = [fed EXCEPT ![n] = f]
  <2>1. fed = [fed EXCEPT ![n] = fed[n]]
    BY <1>6, SameUpdate DEF TypeOK
  <2> QED
    BY <2>1 DEF CorefResolver
<1> HIDE DEF new, f
<1>10. Moves(n, new, "running", ran[n], f)
  <2>1. status = [status EXCEPT ![n] = "running"]
    BY <1>2, <1>6, SameUpdate DEF TypeOK
  <2>2. ran = [ran EXCEPT ![n] = ran[n]]
    BY <1>6, SameUpdate DEF TypeOK
  <2> QED
    BY <1>9, <2>1, <2>2 DEF Moves
<1>11. Reviewed(call, shown, new, call[n].thread)
  BY <1>2, <1>5 DEF StageOK, Reviewed
<1>12. StageOK(client, call, shown', new, call[n].thread)
  BY <1>2, <1>5, <1>9, <1>11 DEF StageOK, WindowClean
<1>13. CallOK(call, shown', n, new, "running", ran[n], f)
  BY <1>3, <1>5, <1>7, <1>9, <1>11 DEF CallOK
<1>14. MessagesOn(call, new, call[n].thread)
  BY <1>2, <1>5, MessagesStay
<1>15. \A m \in shown' : m \in DOMAIN call /\ call[m].kind = "message"
  BY <1>6, <1>9 DEF GoodInv, TypeOK
<1>16. ran[n] \in {0} \cup DOMAIN call
  BY <1>6 DEF TypeOK
<1> QED
  BY <1>4, <1>8, <1>10, <1>12, <1>13, <1>14, <1>15, <1>16, AdvanceKeeps

\* A verdict allow is about the whole window of the call's messages.
LEMMA AllowedWindow ==
  ASSUME GoodInv, NEW n \in DOMAIN call, At(n, "outer"), NEW role, NEW intent,
         "allow" \in OuterSafetyCheck(client, role, intent, TextOf(Message(n)), HistoryTexts(n))
  PROVE  WindowClean(client, call, state[n])
<1> DEFINE q == state[n].msgs
           h == HistoryTexts(n)
<1>1. q \in Seq(1..MaxCalls) /\ q # <<>>
  BY AtNode DEF Nodes
<1>2. /\ Len(q) \in Nat /\ DOMAIN q = 1..Len(q) /\ DOMAIN Front(q) = 1..(Len(q) - 1)
      /\ \A i \in 1..(Len(q) - 1) : Front(q)[i] = q[i]
  <2> HIDE DEF q
  <2> QED
    BY <1>1, Bounds, WindowIsHistory
<1>3. Len(q) - 1 \in Nat
  <2>1. Len(q) # 0
    BY <1>1, EmptySeq
  <2> QED
    BY <2>1, <1>2, SMT
<1>4. /\ h = [i \in 1..(Len(q) - 1) |-> TextOf(Front(q)[i])]
      /\ DOMAIN h = 1..(Len(q) - 1) /\ Len(h) = Len(q) - 1
  <2>1. h = [i \in 1..(Len(q) - 1) |-> TextOf(Front(q)[i])]
    BY <1>2 DEF HistoryTexts, History
  <2> HIDE DEF h, q
  <2> QED
    BY <2>1, <1>3, SMT
<1>5. CASE client = "heuristic"
  <2>1. \A x \in LastOf(h, HistoryTurns) : Discounted(Score(x)) < 500
    BY <1>5, AllowedIsClean
  <2>2. ASSUME NEW i \in DOMAIN q, i < Len(q), i + HistoryTurns >= Len(q)
        PROVE  Discounted(Score(call[q[i]].input.text)) < 500
    <3>1. i \in 1..(Len(q) - 1) /\ i + HistoryTurns > Len(q) - 1
      BY <2>2, <1>2, Bounds, SMT
    <3>2. i \in DOMAIN h /\ i + HistoryTurns > Len(h) /\ h[i] = TextOf(q[i])
      BY <3>1, <1>2, <1>4
    <3> HIDE DEF h
    <3>3. h[i] \in LastOf(h, HistoryTurns)
      BY <3>2 DEF LastOf
    <3> QED
      BY <3>2, <3>3, <2>1 DEF TextOf
  <2> QED
    BY <2>2 DEF WindowClean
<1> QED
  BY <1>5 DEF WindowClean

LEMMA OuterKeeps ==
  ASSUME GoodInv, NEW n \in DOMAIN call, OuterSafetyNode(n)
  PROVE  GoodInv'
<1>1. At(n, "outer") /\ "outer" \in Nodes \ {"end"}
  BY DEF OuterSafetyNode, Nodes
<1>2. PICK v \in OuterSafetyCheck(client, call[Message(n)].input.role, state[n].intent,
                                  TextOf(Message(n)), HistoryTexts(n)) :
        /\ Advance(n, [state[n] EXCEPT !.verdict = v, !.node = Branch(v)])
        /\ IF Branch(v) = "hitl"
           THEN status' = [status EXCEPT ![n] = "paused"] /\ shown' = shown \cup {Message(n)}
           ELSE UNCHANGED <<status, shown>>
  BY DEF OuterSafetyNode
<1> DEFINE new == [state[n] EXCEPT !.verdict = v, !.node = Branch(v)]
           st == IF v = "flag" THEN "paused" ELSE "running"
<1>3. /\ state[n] \in State /\ state[n].node = "outer" /\ state[n].msgs # <<>>
      /\ MessagesOn(call, state[n], call[n].thread)
      /\ StageOK(client, call, shown, state[n], call[n].thread)
      /\ status[n] = "running"
      /\ Message(n) \in DOMAIN call /\ call[Message(n)].kind = "message"
  BY <1>1, AtNode
<1>4. ran[n] = 0 /\ fed[n] = {}
  BY <1>1, NothingYet
<1>5. v \in {"allow", "deny", "flag"}
  BY GateDecides DEF Decisions
<1>6. Branch(v) = (IF v = "allow" THEN "coref" ELSE IF v = "deny" THEN "reject" ELSE "hitl")
  BY DEF Branch
<1>7. v = "allow" => WindowClean(client, call, state[n])
  BY <1>1, AllowedWindow
<1>8. new \in State
  BY <1>3, <1>5, <1>6 DEF State, Nodes, Decisions
<1>9. /\ new.msgs = state[n].msgs /\ new.node = Branch(v) /\ new.verdict = v
      /\ new.approval = "none" /\ new.response = NoResponse
  BY <1>3 DEF State, StageOK
<1>10. TypeOK
  BY DEF GoodInv
<1>11. /\ Advance(n, new) /\ UNCHANGED traceVars /\ ran' = ran /\ fed' = fed
       /\ status' = [status EXCEPT ![n] = st]
       /\ shown' = (IF v = "flag" THEN shown \cup {Message(n)} ELSE shown)
  <2>1. status = [status EXCEPT ![n] = "running"]
    BY <1>3, <1>10, SameUpdate DEF TypeOK
  <2>2. UNCHANGED traceVars /\ ran' = ran /\ fed' = fed
    BY DEF OuterSafetyNode
  <2>3. CASE v = "flag"
    BY <2>2, <2>3, <1>2, <1>6
  <2>4. CASE v # "flag"
    BY <2>1, <2>2, <2>4, <1>2, <1>5, <1>6
  <2> QED
    BY <2>3, <2>4
<1> HIDE DEF new
<1>12. Moves(n, new, st, ran[n], fed[n])
  <2>1. ran = [ran EXCEPT ![n] = ran[n]] /\ fed = [fed EXCEPT ![n] = fed[n]]
    BY <1>10, SameUpdate DEF TypeOK
  <2> QED
    BY <1>11, <2>1 DEF Moves
<1>13. StageOK(client, call, shown', new, call[n].thread)
  <2>1. CASE v = "allow"
    <3>1. WindowClean(client, call, new)
      BY <2>1, <1>7, <1>9 DEF WindowClean
    <3> QED
      BY <3>1, <2>1, <1>6, <1>9 DEF StageOK, Reviewed
  <2>2. CASE v = "deny"
    BY <2>2, <1>6, <1>9 DEF StageOK
  <2>3. CASE v = "flag"
    BY <2>3, <1>6, <1>9, <1>11 DEF StageOK, Message
  <2> QED
    BY <2>1, <2>2, <2>3, <1>5
<1>14. CallOK(call, shown', n, new, st, ran[n], fed[n])
  BY <1>4, <1>5, <1>6, <1>9 DEF CallOK
<1>15. MessagesOn(call, new, call[n].thread)
  BY <1>3, <1>9, MessagesStay
<1>16. \A m \in shown' : m \in DOMAIN call /\ call[m].kind = "message"
  BY <1>3, <1>10, <1>11 DEF GoodInv, TypeOK
<1>17. ran[n] \in {0} \cup DOMAIN call /\ fed[n] \in SUBSET DOMAIN call
  BY <1>10 DEF TypeOK
<1> QED
  BY <1>8, <1>12, <1>13, <1>14, <1>15, <1>16, <1>17, AdvanceKeeps

LEMMA FailKeeps ==
  ASSUME GoodInv, NEW n \in DOMAIN call, Fail(n)
  PROVE  GoodInv'
<1>1. /\ TypeOK /\ status[n] = "running" /\ UNCHANGED <<client, call, during>>
      /\ UNCHANGED <<state, ckpt, shown, fed>>
      /\ status' = [status EXCEPT ![n] = "failed"]
  BY DEF Fail, GoodInv, traceVars, graphVars
<1>2. ran' = ran \/ (state[n].node = "execute" /\ ran' = [ran EXCEPT ![n] = Message(n)])
  BY DEF Fail
<1>3. state[n].node = "execute" =>
        /\ Message(n) \in DOMAIN call /\ state[n].msgs # <<>>
        /\ Reviewed(call, shown, state[n], call[n].thread)
  <2> SUFFICES ASSUME state[n].node = "execute"
               PROVE  /\ Message(n) \in DOMAIN call /\ state[n].msgs # <<>>
                      /\ Reviewed(call, shown, state[n], call[n].thread)
    OBVIOUS
  <2>1. At(n, "execute") /\ "execute" \in Nodes \ {"end"}
    BY <1>1 DEF At, Nodes
  <2> QED
    BY <2>1, AtNode DEF StageOK
<1>4. TypeOK'
  <2>1. ran' \in [DOMAIN call -> {0} \cup DOMAIN call]
    BY <1>1, <1>2, <1>3 DEF TypeOK
  <2>2. status' \in [DOMAIN call -> {"running", "paused", "done", "failed"}]
    BY <1>1 DEF TypeOK
  <2> QED
    BY <1>1, <2>1, <2>2 DEF TypeOK
<1>5. ASSUME NEW k \in DOMAIN call
      PROVE  CallOK(call, shown, k, state[k], status'[k], ran'[k], fed[k])
  <2>1. CallOK(call, shown, k, state[k], status[k], ran[k], fed[k])
    BY DEF GoodInv
  <2>2. CASE k # n
    <3>1. status'[k] = status[k] /\ ran'[k] = ran[k]
      BY <2>2, <1>1, <1>2 DEF TypeOK
    <3> QED
      BY <2>1, <3>1
  <2>3. CASE k = n
    <3>1. /\ status'[k] = "failed"
          /\ ran'[k] = ran[k] \/ (state[k].node = "execute" /\ ran'[k] = Message(k))
      BY <2>3, <1>1, <1>2 DEF TypeOK
    <3> QED
      BY <2>1, <2>3, <3>1, <1>3 DEF CallOK, Message
  <2> QED
    BY <2>2, <2>3
<1>6. \A m \in shown : call[m].kind = "message"
  BY DEF GoodInv
<1>7. \A t \in Threads : /\ MessagesOn(call, ckpt[t], t)
                        /\ StageOK(client, call, shown, ckpt[t], t)
  BY DEF GoodInv
<1>8. \A k \in DOMAIN call : /\ MessagesOn(call, state[k], call[k].thread)
                            /\ StageOK(client, call, shown, state[k], call[k].thread)
  BY DEF GoodInv
<1> QED
  BY <1>1, <1>4, <1>5, <1>6, <1>7, <1>8 DEF GoodInv

\* Appending the newest call keeps a thread's messages in order.
LEMMA SentState ==
  ASSUME GoodInv, NEW t \in Threads, Len(call) < MaxCalls
  PROVE  /\ Append(ckpt[t].msgs, Len(call) + 1) \in Seq(1..MaxCalls)
         /\ Append(ckpt[t].msgs, Len(call) + 1) # <<>>
         /\ Len(Append(ckpt[t].msgs, Len(call) + 1)) = Len(ckpt[t].msgs) + 1
         /\ Len(ckpt[t].msgs) \in Nat /\ DOMAIN ckpt[t].msgs = 1..Len(ckpt[t].msgs)
         /\ DOMAIN Append(ckpt[t].msgs, Len(call) + 1) = 1..(Len(ckpt[t].msgs) + 1)
         /\ \A i \in 1..Len(ckpt[t].msgs) :
              Append(ckpt[t].msgs, Len(call) + 1)[i] = ckpt[t].msgs[i]
         /\ Append(ckpt[t].msgs, Len(call) + 1)[Len(ckpt[t].msgs) + 1] = Len(call) + 1
<1> DEFINE q == ckpt[t].msgs
           N == Len(call) + 1
           S == 1..MaxCalls
<1>1. q \in Seq(S) /\ N \in S
  <2>1. ckpt[t] \in State /\ call \in Seq(Call)
    BY DEF GoodInv, TypeOK
  <2>2. q \in Seq(S)
    BY <2>1 DEF State
  <2>3. Len(call) \in Nat
    BY <2>1, LenProperties
  <2> QED
    BY <2>2, <2>3, Bounds, SMT
<1> HIDE DEF q, N, S
<1>2. /\ Append(q, N) \in Seq(S) /\ Len(Append(q, N)) = Len(q) + 1 /\ Len(q) \in Nat
      /\ \A i \in 1..Len(q) : Append(q, N)[i] = q[i]
      /\ Append(q, N)[Len(q) + 1] = N
  BY <1>1, SMT
<1>3. DOMAIN q = 1..Len(q) /\ DOMAIN Append(q, N) = 1..(Len(q) + 1)
  BY <1>1, <1>2, LenProperties
<1>4. Append(q, N) # <<>>
  <2>1. Len(Append(q, N)) # 0
    BY <1>2, SMT
  <2> QED
    BY <2>1, EmptySeq
<1> QED
  BY <1>2, <1>3, <1>4 DEF q, N, S

LEMMA SendKeeps ==
  ASSUME GoodInv, NEW t \in Threads, NEW x \in Inputs, SendMessage(t, x)
  PROVE  GoodInv'
<1> DEFINE N == Len(call) + 1
           q == Append(ckpt[t].msgs, N)
           c == [kind |-> "message", thread |-> t, input |-> x]
           s == [NewThread EXCEPT !.msgs = q, !.node = "classify"]
<1>1. Begin(c, s) /\ ckpt' = [ckpt EXCEPT ![t] = s] /\ Len(call) < MaxCalls
  BY DEF SendMessage, Begin
<1>2. c \in Call /\ c.thread = t /\ c.kind = "message"
  BY DEF Call
<1>3. /\ q \in Seq(1..MaxCalls) /\ q # <<>> /\ Len(ckpt[t].msgs) \in Nat
      /\ DOMAIN ckpt[t].msgs = 1..Len(ckpt[t].msgs)
      /\ DOMAIN q = 1..(Len(ckpt[t].msgs) + 1)
      /\ \A i \in 1..Len(ckpt[t].msgs) : q[i] = ckpt[t].msgs[i]
      /\ q[Len(ckpt[t].msgs) + 1] = N
  BY <1>1, SentState
<1>4. /\ s.msgs = q /\ s.node = "classify" /\ s.verdict = "" /\ s.approval = "none"
      /\ s.response = NoResponse
  BY DEF NewThread
<1>5. s \in State
  BY <1>3 DEF NewThread, NoResponse, State, Response, Nodes
<1>6. TypeOK /\ MessagesOn(call, ckpt[t], t)
  BY DEF GoodInv
<1> HIDE DEF s, c, q
<1>7. /\ Extends(call, call') /\ Longer(call, call', c) /\ N \in Nat
      /\ DOMAIN call = 1..Len(call) /\ DOMAIN call' = DOMAIN call \cup {N}
  <2>1. Extends(call, call') /\ Longer(call, call', c)
    BY <1>1, <1>2, <1>5, <1>6, BeginFacts
  <2>2. DOMAIN call = 1..Len(call) /\ DOMAIN call' = DOMAIN call \cup {N}
    BY <1>1, <1>2, <1>5, <1>6, BeginFacts
  <2>3. Len(call) \in Nat
    BY <1>1, <1>2, <1>5, <1>6, BeginFacts
  <2> QED
    BY <2>1, <2>2, <2>3
<1>8. MessagesOn(call', s, t)
  <2>1. ASSUME NEW i \in DOMAIN q
        PROVE  q[i] \in DOMAIN call' /\ call'[q[i]].kind = "message" /\ call'[q[i]].thread = t
    <3>1. CASE i \in 1..Len(ckpt[t].msgs)
      BY <3>1, <1>3, <1>6, <1>7 DEF MessagesOn, Extends
    <3>2. CASE i = Len(ckpt[t].msgs) + 1
      BY <3>2, <1>2, <1>3, <1>7 DEF Longer
    <3> QED
      BY <3>1, <3>2, <1>3, SMT
  <2>2. ASSUME NEW i \in DOMAIN q, NEW j \in DOMAIN q, i < j
        PROVE  q[i] < q[j]
    <3>1. i \in 1..Len(ckpt[t].msgs)
      BY <2>2, <1>3, SMT
    <3>2. q[i] = ckpt[t].msgs[i] /\ q[i] \in 1..Len(call)
      BY <3>1, <1>3, <1>6, <1>7 DEF MessagesOn
    <3>3. CASE j \in 1..Len(ckpt[t].msgs)
      BY <3>1, <3>3, <2>2, <1>3, <1>6 DEF MessagesOn
    <3>4. CASE j = Len(ckpt[t].msgs) + 1
      BY <3>2, <3>4, <1>3, <1>7, SMT
    <3> QED
      BY <3>3, <3>4, <1>3, SMT
  <2> QED
    BY <2>1, <2>2, <1>3, <1>4 DEF MessagesOn
<1>9. StageOK(client, call', shown, s, t)
  BY <1>4 DEF StageOK
<1>10. /\ ckpt' \in [Threads -> State]
       /\ \A u \in Threads : ckpt'[u] = ckpt[u] \/ (u = c.thread /\ ckpt'[u] = s)
  BY <1>1, <1>2, <1>5, <1>6 DEF TypeOK, s
<1> QED
  BY <1>1, <1>2, <1>4, <1>5, <1>8, <1>9, <1>10, BeginKeeps

LEMMA ResumeKeeps ==
  ASSUME GoodInv, NEW t \in Threads, NEW approved \in BOOLEAN, NEW card \in DOMAIN call,
         Resume(t, approved, card)
  PROVE  GoodInv'
<1> DEFINE c == [kind |-> "resume", thread |-> t, approved |-> approved, card |-> card]
           s == ckpt[t]
<1>1. Begin(c, s) /\ ckpt' = ckpt
  BY DEF Resume
<1>2. TypeOK /\ MessagesOn(call, s, t) /\ StageOK(client, call, shown, s, t)
  BY DEF GoodInv
<1>3. c \in Call /\ c.thread = t /\ c.kind = "resume"
  <2>1. card \in 1..MaxCalls
    <3>1. call \in Seq(Call) /\ Len(call) <= MaxCalls
      BY <1>2 DEF TypeOK
    <3>2. Len(call) \in Nat /\ DOMAIN call = 1..Len(call)
      BY <3>1, LenProperties
    <3> QED
      BY <3>1, <3>2, Bounds, SMT
  <2> QED
    BY <2>1 DEF Call
<1>4. s \in State /\ ckpt \in [Threads -> State]
  BY <1>2 DEF TypeOK
<1> HIDE DEF c, s
<1>5. Extends(call, call')
  BY <1>1, <1>2, <1>3, <1>4, BeginFacts
<1>6. MessagesOn(call', s, c.thread) /\ StageOK(client, call', shown, s, c.thread)
  BY <1>2, <1>3, <1>5, MessagesGrow, StageGrows
<1> QED
  BY <1>1, <1>3, <1>4, <1>6, BeginKeeps

LEMMA InitGood == Init => GoodInv
<1> SUFFICES ASSUME Init PROVE GoodInv
  OBVIOUS
<1>1. DOMAIN call = {} /\ call \in Seq(Call) /\ Len(call) = 0
  BY DEF Init
<1>2. NewThread \in State
  <2>1. <<>> \in Seq(1..MaxCalls)
    OBVIOUS
  <2> QED
    BY <2>1 DEF NewThread, NoResponse, State, Response, Nodes
<1>3. \A t \in Threads : ckpt[t] = NewThread
  BY DEF Init
<1>4. TypeOK
  <2>1. \A S : <<>> \in [DOMAIN call -> S]
    BY <1>1
  <2> QED
    BY <2>1, <1>1, <1>2, Bounds DEF Init, TypeOK
<1>5. ASSUME NEW t \in Threads
      PROVE  MessagesOn(call, ckpt[t], t) /\ StageOK(client, call, shown, ckpt[t], t)
  <2>1. ckpt[t].msgs = <<>> /\ ckpt[t].node = "end" /\ ckpt[t].verdict = ""
        /\ ckpt[t].response.leaks = {}
    <3>1. ckpt[t] = NewThread
      BY <1>3
    <3>2. /\ NewThread.msgs = <<>> /\ NewThread.node = "end" /\ NewThread.verdict = ""
          /\ NewThread.response.leaks = {}
      BY DEF NewThread, NoResponse
    <3> QED
      BY <3>1, <3>2
  <2>2. DOMAIN ckpt[t].msgs = {}
    <3>1. DOMAIN <<>> = {}
      OBVIOUS
    <3> QED
      BY <2>1, <3>1
  <2> QED
    BY <2>1, <2>2 DEF MessagesOn, StageOK
<1> QED
  BY <1>1, <1>4, <1>5 DEF GoodInv, Init

LEMMA NextGood == GoodInv /\ [Next]_vars => GoodInv'
<1> SUFFICES ASSUME GoodInv, [Next]_vars PROVE GoodInv'
  OBVIOUS
<1>1. ASSUME NEW t \in Threads, NEW x \in Inputs, SendMessage(t, x) PROVE GoodInv'
  BY <1>1, SendKeeps
<1>2. ASSUME NEW t \in Threads, NEW approved \in BOOLEAN, NEW card \in DOMAIN call,
             Resume(t, approved, card)
      PROVE  GoodInv'
  BY <1>2, ResumeKeeps
<1>3. ASSUME NEW n \in DOMAIN call, Node(n) PROVE GoodInv'
  BY <1>3, ClassifyKeeps, RouteKeeps, OuterKeeps, HitlKeeps, CorefKeeps, ExecuteKeeps,
     RejectKeeps, RespondKeeps, FilterKeeps DEF Node
<1>4. ASSUME NEW n \in DOMAIN call, Fail(n) PROVE GoodInv'
  BY <1>4, FailKeeps
<1>5. CASE UNCHANGED vars
  BY <1>5 DEF vars, GoodInv, TypeOK
<1> QED
  BY <1>1, <1>2, <1>3, <1>4, <1>5 DEF Next

\* Every reachable state satisfies the rules.
THEOREM GoodAlways == Spec => []GoodInv
<1> QED
  BY InitGood, NextGood, PTL DEF Spec

\* Every call, thread and checkpoint keeps to its domain; in particular only
\* messages that were sent are executed, fed and shown.
THEOREM TypeCorrect == Spec => []TypeOK
<1>1. GoodInv => TypeOK
  BY DEF GoodInv
<1> QED
  BY <1>1, GoodAlways, PTL

\* Whichever calls overlap, resume or die, no agent works on a message that
\* the gate did not allow and no reviewer approved on this thread.
THEOREM NothingRunsUnreviewed == Spec => []NoUnreviewedExecution
<1>1. GoodInv => NoUnreviewedExecution
  <2> SUFFICES ASSUME GoodInv, NEW n \in DOMAIN call, ran[n] # 0
               PROVE  /\ call[ran[n]].thread = call[n].thread
                      /\ \/ state[n].verdict = "allow"
                         \/ /\ state[n].verdict = "flag" /\ state[n].approval = "approved"
                            /\ ran[n] \in shown /\ ApprovedOn(call[n].thread)
    BY DEF NoUnreviewedExecution
  <2>1. /\ CallOK(call, shown, n, state[n], status[n], ran[n], fed[n])
        /\ MessagesOn(call, state[n], call[n].thread) /\ state[n] \in State
    BY DEF GoodInv, TypeOK
  <2>2. /\ state[n].msgs # <<>> /\ ran[n] = Last(state[n].msgs)
        /\ Reviewed(call, shown, state[n], call[n].thread)
    BY <2>1 DEF CallOK
  <2>3. Len(state[n].msgs) \in DOMAIN state[n].msgs
    <3> DEFINE q == state[n].msgs
    <3>1. q \in Seq(1..MaxCalls) /\ q # <<>>
      BY <2>1, <2>2 DEF State
    <3> HIDE DEF q
    <3>2. Len(q) \in Nat /\ Len(q) # 0 /\ DOMAIN q = 1..Len(q)
      BY <3>1, LenProperties, EmptySeq
    <3>3. Len(q) \in DOMAIN q
      BY <3>2, SMT
    <3> QED
      BY <3>3 DEF q
  <2>4. call[ran[n]].thread = call[n].thread
    BY <2>1, <2>2, <2>3 DEF MessagesOn, Last
  <2> QED
    BY <2>2, <2>4 DEF Reviewed, ApprovedOn
<1> QED
  BY <1>1, GoodAlways, PTL

\* Whatever path a call took, what it returns was filtered.
THEOREM WhatReturnsIsFiltered == Spec => []NothingLeaks
<1>1. GoodInv => NothingLeaks
  <2> SUFFICES ASSUME GoodInv, NEW n \in DOMAIN call
               PROVE  /\ status[n] = "done" => state[n].response.leaks = {}
                      /\ status[n] = "paused" => state[n].response = NoResponse
    BY DEF NothingLeaks
  <2>1. /\ CallOK(call, shown, n, state[n], status[n], ran[n], fed[n])
        /\ StageOK(client, call, shown, state[n], call[n].thread)
    BY DEF GoodInv
  <2> QED
    BY <2>1 DEF CallOK, StageOK
<1> QED
  BY <1>1, GoodAlways, PTL

\* An injection the guard could still see is fed to the resolver only after
\* a reviewer approved the new message.
THEOREM NoInjectionInTheWindow == Spec => []OldInjectionsAreReviewed
<1>1. GoodInv => OldInjectionsAreReviewed
  <2> SUFFICES ASSUME GoodInv, NEW n \in DOMAIN call, NEW m \in fed[n],
                      client = "heuristic", Discounted(Score(TextOf(m))) >= 500,
                      state[n].approval # "approved"
               PROVE  Place(n, m) + HistoryTurns < Len(state[n].msgs)
    BY DEF OldInjectionsAreReviewed
  <2> DEFINE q == state[n].msgs
  <2>1. /\ CallOK(call, shown, n, state[n], status[n], ran[n], fed[n])
        /\ StageOK(client, call, shown, state[n], call[n].thread)
        /\ MessagesOn(call, state[n], call[n].thread) /\ q \in Seq(1..MaxCalls)
    BY DEF GoodInv, TypeOK, State
  <2>2. Len(q) \in Nat /\ DOMAIN q = 1..Len(q)
    BY <2>1, LenProperties
  <2>3. PICK i \in DOMAIN q : i < Len(q) /\ m = q[i]
    BY <2>1 DEF CallOK
  <2>4. WindowClean(client, call, state[n])
    BY <2>1 DEF CallOK, Reviewed, StageOK
  <2>5. \A j \in DOMAIN q : q[j] = m => j = i
    <3>1. \A j, k \in DOMAIN q : j < k => q[j] < q[k]
      BY <2>1 DEF MessagesOn
    <3>2. \A j \in DOMAIN q : q[j] \in Nat
      <4>1. q \in [1..Len(q) -> 1..MaxCalls]
        BY <2>1, LenProperties
      <4> HIDE DEF q
      <4> QED
        BY <4>1, Bounds, SMT
    <3> HIDE DEF q
    <3> QED
      BY <3>1, <3>2, <2>2, <2>3, SMT
  <2>6. Place(n, m) = i
    BY <2>3, <2>5 DEF Place
  <2>7. ~(i + HistoryTurns >= Len(q))
    <3>1. Discounted(Score(TextOf(m))) \in 0..1000
      BY ScoresAreThousandths
    <3>2. i + HistoryTurns >= Len(q) => Discounted(Score(TextOf(m))) < 500
      BY <2>3, <2>4 DEF WindowClean, TextOf
    <3>3. ~(Discounted(Score(TextOf(m))) < 500)
      BY <3>1
    <3> QED
      BY <3>2, <3>3
  <2> QED
    BY <2>2, <2>6, <2>7, Bounds
<1> QED
  BY <1>1, GoodAlways, PTL

-----------------------------------------------------------------------------
(* The order of the calls.  Messages never come from later calls, and a    *)
(* call that is still running when another starts on its thread is counted *)
(* there, so that the newest call of a quiet thread is the only one that   *)
(* may be running.                                                         *)

OnThread(calls, t) == {n \in DOMAIN calls : calls[n].thread = t}

Topic(s, n) == Last(s[n].msgs)

Ordered(calls, s, st, du, n) ==
  /\ s[n].msgs # <<>>
  /\ \A i \in DOMAIN s[n].msgs : s[n].msgs[i] <= n
  /\ calls[n].kind = "message" => Topic(s, n) = n
  /\ calls[n].kind = "resume" =>
       /\ calls[n].card \in DOMAIN calls /\ calls[n].card < n
       /\ calls[calls[n].card].thread = calls[n].thread
  /\ \A k \in OnThread(calls, calls[n].thread) :
       k < n /\ st[k] = "running" => k \in du[n]

OrderInv ==
  /\ \A n \in DOMAIN call : Ordered(call, state, status, during, n)
  /\ \A t \in Threads : OnThread(call, t) # {} => ckpt[t].msgs # <<>>

\* What a node of the graph may change; a call that fails changes less.
Shape(n) ==
  /\ status[n] = "running" /\ UNCHANGED <<client, call, during>> /\ shown \subseteq shown'
  /\ \A k \in DOMAIN call : k # n =>
       state'[k] = state[k] /\ status'[k] = status[k] /\ ran'[k] = ran[k]
  /\ \A t \in Threads : t # call[n].thread => ckpt'[t] = ckpt[t]
  /\ state'[n].msgs = state[n].msgs

Early == {"classify", "route", "outer"}

NodeShape(n) ==
  /\ Shape(n)
  /\ ckpt'[call[n].thread] = state'[n]
  /\ status'[n] # "failed"
  /\ status'[n] = "paused" => state[n].node \in Early
  /\ state'[n].node \in Early => state[n].node \in Early
  /\ ran'[n] = ran[n] \/ (state[n].node = "execute" /\ ran'[n] = Message(n))
  /\ state'[n].approval = state[n].approval \/ state[n].node = "hitl"

LEMMA AdvanceShape ==
  ASSUME TypeOK, NEW n \in DOMAIN call, NEW s, Advance(n, s)
  PROVE  /\ state'[n] = s /\ ckpt'[call[n].thread] = s
         /\ \A k \in DOMAIN call : k # n => state'[k] = state[k]
         /\ \A t \in Threads : t # call[n].thread => ckpt'[t] = ckpt[t]
<1>1. call[n].thread \in Threads
  BY CallFacts DEF TypeOK
<1> QED
  BY <1>1 DEF TypeOK, Advance

LEMMA AdvanceNode ==
  ASSUME TypeOK, NEW n \in DOMAIN call, NEW s, Advance(n, s), status[n] = "running",
         UNCHANGED <<client, call, during>>, shown \subseteq shown',
         \A k \in DOMAIN call : k # n => status'[k] = status[k] /\ ran'[k] = ran[k],
         s.msgs = state[n].msgs, status'[n] # "failed",
         status'[n] = "paused" => state[n].node \in Early,
         s.node \in Early => state[n].node \in Early,
         ran'[n] = ran[n] \/ (state[n].node = "execute" /\ ran'[n] = Message(n)),
         s.approval = state[n].approval \/ state[n].node = "hitl"
  PROVE  NodeShape(n)
<1>1. /\ state'[n] = s /\ ckpt'[call[n].thread] = s
      /\ \A k \in DOMAIN call : k # n => state'[k] = state[k]
      /\ \A t \in Threads : t # call[n].thread => ckpt'[t] = ckpt[t]
  BY AdvanceShape
<1>2. Shape(n)
  BY <1>1 DEF Shape
<1> QED
  BY <1>1, <1>2 DEF NodeShape

LEMMA NodesShape ==
  ASSUME GoodInv, NEW n \in DOMAIN call, Node(n)
  PROVE  NodeShape(n)
<1>1. TypeOK
  BY DEF GoodInv
<1>2. state[n] \in State
  BY <1>1 DEF TypeOK
<1>3. CASE ClassifyIntent(n)
  <2>1. PICK i : Advance(n, [state[n] EXCEPT !.intent = i, !.node = "route"])
    BY <1>3 DEF ClassifyIntent
  <2> DEFINE new == [state[n] EXCEPT !.intent = i, !.node = "route"]
  <2>2. new.msgs = state[n].msgs /\ new.node = "route" /\ new.approval = state[n].approval
    BY <1>2 DEF State
  <2>3. Advance(n, new)
    BY <2>1
  <2>5. /\ status[n] = "running" /\ state[n].node = "classify"
        /\ UNCHANGED <<client, call, during>>
    BY <1>3 DEF ClassifyIntent, At, traceVars
  <2>6. UNCHANGED <<status, shown, ran>>
    BY <1>3 DEF ClassifyIntent
  <2> HIDE DEF new
  <2> QED
    BY <1>1, <2>2, <2>3, <2>5, <2>6, AdvanceNode DEF Early
<1>4. CASE RouteToAgent(n)
  <2> DEFINE new == [state[n] EXCEPT !.agent = AgentOf(state[n].intent), !.node = "outer"]
  <2>2. new.msgs = state[n].msgs /\ new.node = "outer" /\ new.approval = state[n].approval
    BY <1>2 DEF State
  <2>3. Advance(n, new)
    BY <1>4 DEF RouteToAgent
  <2>5. /\ status[n] = "running" /\ state[n].node = "route"
        /\ UNCHANGED <<client, call, during>>
    BY <1>4 DEF RouteToAgent, At, traceVars
  <2>6. UNCHANGED <<status, shown, ran>>
    BY <1>4 DEF RouteToAgent
  <2> HIDE DEF new
  <2> QED
    BY <1>1, <2>2, <2>3, <2>5, <2>6, AdvanceNode DEF Early
<1>5. CASE OuterSafetyNode(n)
  <2>1. PICK v : /\ Advance(n, [state[n] EXCEPT !.verdict = v, !.node = Branch(v)])
                 /\ IF Branch(v) = "hitl"
                    THEN /\ status' = [status EXCEPT ![n] = "paused"]
                         /\ shown' = shown \cup {Message(n)}
                    ELSE UNCHANGED <<status, shown>>
    BY <1>5 DEF OuterSafetyNode
  <2> DEFINE new == [state[n] EXCEPT !.verdict = v, !.node = Branch(v)]
  <2>2. new.msgs = state[n].msgs /\ new.node \notin Early /\ new.approval = state[n].approval
    BY <1>2 DEF State, Branch, Early
  <2>3. Advance(n, new)
    BY <2>1
  <2>4. /\ status'[n] # "failed" /\ shown \subseteq shown'
        /\ \A k \in DOMAIN call : k # n => status'[k] = status[k]
    <3>1. status[n] = "running"
      BY <1>5 DEF OuterSafetyNode, At
    <3>2. CASE Branch(v) = "hitl"
      BY <1>1, <2>1, <3>2 DEF TypeOK
    <3>3. CASE Branch(v) # "hitl"
      BY <2>1, <3>1, <3>3
    <3> QED
      BY <3>2, <3>3
  <2>5. /\ status[n] = "running" /\ state[n].node = "outer"
        /\ UNCHANGED <<client, call, during>>
    BY <1>5 DEF OuterSafetyNode, At, traceVars
  <2>6. UNCHANGED ran
    BY <1>5 DEF OuterSafetyNode
  <2> HIDE DEF new
  <2> QED
    BY <1>1, <2>2, <2>3, <2>4, <2>5, <2>6, AdvanceNode DEF Early
<1>6. CASE HitlApproval(n)
  <2> DEFINE yes == [state[n] EXCEPT !.approval = "approved", !.node = "coref"]
             no == [state[n] EXCEPT !.approval = "rejected", !.node = "respond",
                                    !.response.by = "reviewer"]
             new == IF call[n].approved THEN yes ELSE no
  <2>1. yes.msgs = state[n].msgs /\ yes.node \notin Early
    BY <1>2 DEF State, Early
  <2>2. no.msgs = state[n].msgs /\ no.node \notin Early
    BY <1>2 DEF State, Early
  <2>3. new.msgs = state[n].msgs /\ new.node \notin Early
    BY <2>1, <2>2
  <2>4. Advance(n, new)
    BY <1>6 DEF HitlApproval
  <2>5. /\ status[n] = "running" /\ state[n].node = "hitl"
        /\ UNCHANGED <<client, call, during>>
    BY <1>6 DEF HitlApproval, At, traceVars
  <2>6. UNCHANGED <<status, shown, ran>>
    BY <1>6 DEF HitlApproval
  <2> HIDE DEF new
  <2> QED
    BY <1>1, <2>3, <2>4, <2>5, <2>6, AdvanceNode DEF Early
<1>7. CASE CorefResolver(n)
  <2> DEFINE new == [state[n] EXCEPT !.node = "execute"]
  <2>2. new.msgs = state[n].msgs /\ new.node = "execute" /\ new.approval = state[n].approval
    BY <1>2 DEF State
  <2>3. Advance(n, new)
    BY <1>7 DEF CorefResolver
  <2>5. /\ status[n] = "running" /\ state[n].node = "coref"
        /\ UNCHANGED <<client, call, during>>
    BY <1>7 DEF CorefResolver, At, traceVars
  <2>6. UNCHANGED <<status, shown, ran>>
    BY <1>7 DEF CorefResolver
  <2> HIDE DEF new
  <2> QED
    BY <1>1, <2>2, <2>3, <2>5, <2>6, AdvanceNode DEF Early
<1>8. CASE ExecuteAgent(n)
  <2>1. PICK l : Advance(n, [state[n] EXCEPT !.response = [by |-> "agent", leaks |-> l],
                                             !.node = "respond"])
    BY <1>8 DEF ExecuteAgent
  <2> DEFINE new == [state[n] EXCEPT !.response = [by |-> "agent", leaks |-> l],
                                     !.node = "respond"]
  <2>2. new.msgs = state[n].msgs /\ new.node = "respond" /\ new.approval = state[n].approval
    BY <1>2 DEF State
  <2>3. Advance(n, new)
    BY <2>1
  <2>4. ran'[n] = Message(n) /\ \A k \in DOMAIN call : k # n => ran'[k] = ran[k]
    BY <1>1, <1>8 DEF TypeOK, ExecuteAgent
  <2>5. /\ status[n] = "running" /\ state[n].node = "execute"
        /\ UNCHANGED <<client, call, during>>
    BY <1>8 DEF ExecuteAgent, At, traceVars
  <2>6. UNCHANGED <<status, shown>>
    BY <1>8 DEF ExecuteAgent
  <2> HIDE DEF new
  <2> QED
    BY <1>1, <2>2, <2>3, <2>4, <2>5, <2>6, AdvanceNode DEF Early
<1>9. CASE RejectNode(n)
  <2> DEFINE new == [state[n] EXCEPT !.response.by = "gate", !.node = "respond"]
  <2>2. new.msgs = state[n].msgs /\ new.node = "respond" /\ new.approval = state[n].approval
    BY <1>2 DEF State
  <2>3. Advance(n, new)
    BY <1>9 DEF RejectNode
  <2>5. /\ status[n] = "running" /\ state[n].node = "reject"
        /\ UNCHANGED <<client, call, during>>
    BY <1>9 DEF RejectNode, At, traceVars
  <2>6. UNCHANGED <<status, shown, ran>>
    BY <1>9 DEF RejectNode
  <2> HIDE DEF new
  <2> QED
    BY <1>1, <2>2, <2>3, <2>5, <2>6, AdvanceNode DEF Early
<1>10. CASE GenerateResponse(n)
  <2> DEFINE new == [state[n] EXCEPT !.node = "filter"]
  <2>2. new.msgs = state[n].msgs /\ new.node = "filter" /\ new.approval = state[n].approval
    BY <1>2 DEF State
  <2>3. Advance(n, new)
    BY <1>10 DEF GenerateResponse
  <2>5. /\ status[n] = "running" /\ state[n].node = "respond"
        /\ UNCHANGED <<client, call, during>>
    BY <1>10 DEF GenerateResponse, At, traceVars
  <2>6. UNCHANGED <<status, shown, ran>>
    BY <1>10 DEF GenerateResponse
  <2> HIDE DEF new
  <2> QED
    BY <1>1, <2>2, <2>3, <2>5, <2>6, AdvanceNode DEF Early
<1>11. CASE OutputFilter(n)
  <2> DEFINE new == [state[n] EXCEPT !.response.leaks = FilterResponse(@), !.node = "end"]
  <2>2. new.msgs = state[n].msgs /\ new.node = "end" /\ new.approval = state[n].approval
    BY <1>2 DEF State
  <2>3. Advance(n, new)
    BY <1>11 DEF OutputFilter
  <2>4. status'[n] = "done" /\ \A k \in DOMAIN call : k # n => status'[k] = status[k]
    BY <1>1, <1>11 DEF TypeOK, OutputFilter
  <2>5. /\ status[n] = "running" /\ state[n].node = "filter"
        /\ UNCHANGED <<client, call, during>>
    BY <1>11 DEF OutputFilter, At, traceVars
  <2>6. UNCHANGED <<ran, shown>>
    BY <1>11 DEF OutputFilter
  <2> HIDE DEF new
  <2> QED
    BY <1>1, <2>2, <2>3, <2>4, <2>5, <2>6, AdvanceNode DEF Early
<1> QED
  BY <1>3, <1>4, <1>5, <1>6, <1>7, <1>8, <1>9, <1>10, <1>11 DEF Node

LEMMA FailShape ==
  ASSUME GoodInv, NEW n \in DOMAIN call, Fail(n)
  PROVE  Shape(n) /\ status'[n] = "failed" /\ UNCHANGED <<state, ckpt, shown>>
BY DEF Fail, Shape, GoodInv, TypeOK, traceVars, graphVars

LEMMA CallsAreNumbers ==
  ASSUME TypeOK
  PROVE  DOMAIN call = 1..Len(call) /\ Len(call) \in Nat /\ DOMAIN call \subseteq Nat
BY LenProperties DEF TypeOK

\* A step of the graph leaves the order alone.
LEMMA ShapeKeepsOrder ==
  ASSUME GoodInv, OrderInv, NEW n \in DOMAIN call, Shape(n),
         \A t \in Threads : ckpt'[t] = ckpt[t] \/ ckpt'[t] = state'[n]
  PROVE  OrderInv'
<1>1. /\ status[n] = "running" /\ call' = call /\ during' = during
      /\ \A k \in DOMAIN call : k # n => state'[k] = state[k] /\ status'[k] = status[k]
      /\ state'[n].msgs = state[n].msgs
  BY DEF Shape
<1>2. ASSUME NEW k \in DOMAIN call PROVE Ordered(call, state', status', during, k)
  <2>1. Ordered(call, state, status, during, k)
    BY DEF OrderInv
  <2>2. state'[k].msgs = state[k].msgs
    BY <1>1
  <2>3. \A j \in OnThread(call, call[k].thread) :
          j < k /\ status'[j] = "running" => j \in during[k]
    BY <1>1, <2>1 DEF Ordered, OnThread
  <2> QED
    BY <2>1, <2>2, <2>3 DEF Ordered, Topic
<1>3. ASSUME NEW t \in Threads, OnThread(call, t) # {} PROVE ckpt'[t].msgs # <<>>
  <2>1. Ordered(call, state, status, during, n)
    BY DEF OrderInv
  <2>2. ckpt[t].msgs # <<>> /\ state'[n].msgs # <<>>
    BY <1>1, <1>3, <2>1 DEF OrderInv, Ordered
  <2> QED
    BY <2>2
<1> QED
  BY <1>1, <1>2, <1>3 DEF OrderInv

\* A new call takes its place behind the others.
LEMMA BeginKeepsOrder ==
  ASSUME GoodInv, OrderInv, NEW c \in Call, NEW s \in State, Begin(c, s),
         s.msgs # <<>>, \A i \in DOMAIN s.msgs : s.msgs[i] \in 1..(Len(call) + 1),
         c.kind = "message" => Last(s.msgs) = Len(call) + 1,
         c.kind = "resume" => c.card \in DOMAIN call /\ call[c.card].thread = c.thread,
         \A t \in Threads : ckpt'[t] = ckpt[t] \/ ckpt'[t] = s,
         ckpt'[c.thread].msgs # <<>>
  PROVE  OrderInv'
<1> DEFINE N == Len(call) + 1
           D == {k \in DOMAIN call : call[k].thread = c.thread /\ status[k] = "running"}
<1>1. TypeOK
  BY DEF GoodInv
<1>2. /\ DOMAIN call' = DOMAIN call \cup {N} /\ DOMAIN call = 1..Len(call) /\ Len(call) \in Nat
      /\ N \notin DOMAIN call
  <2>1. DOMAIN call' = DOMAIN call \cup {N} /\ N \notin DOMAIN call
    BY <1>1, BeginFacts
  <2>2. DOMAIN call = 1..Len(call) /\ Len(call) \in Nat
    BY <1>1, CallsAreNumbers
  <2> QED
    BY <2>1, <2>2
<1>3. \A k \in DOMAIN call : /\ call'[k] = call[k] /\ state'[k] = state[k]
                            /\ status'[k] = status[k] /\ during'[k] = during[k]
  BY <1>1, BeginFacts DEF Longer
<1>4. call'[N] = c /\ state'[N] = s
  BY <1>1, BeginFacts DEF Longer
<1>5. during'[N] = D
  BY <1>1, BeginFacts DEF Longer
<1>6. ASSUME NEW k \in DOMAIN call PROVE Ordered(call', state', status', during', k)
  <2>1. Ordered(call, state, status, during, k)
    BY DEF OrderInv
  <2>2. /\ call'[k] = call[k] /\ state'[k] = state[k] /\ during'[k] = during[k]
    BY <1>3
  <2>3. \A j \in OnThread(call', call'[k].thread) :
          j < k /\ status'[j] = "running" => j \in during'[k]
    <3>1. \A j \in DOMAIN call' : j < k => j \in DOMAIN call
      BY <1>2, SMT
    <3> QED
      BY <1>3, <2>1, <2>2, <3>1 DEF Ordered, OnThread
  <2>4. call[k].kind = "resume" =>
          /\ call[k].card \in DOMAIN call' /\ call[k].card < k
          /\ call'[call[k].card].thread = call[k].thread
    BY <1>2, <1>3, <2>1 DEF Ordered
  <2> QED
    BY <2>1, <2>2, <2>3, <2>4 DEF Ordered, Topic
<1>7. Ordered(call', state', status', during', N)
  <2>1. \A i \in DOMAIN state'[N].msgs : state'[N].msgs[i] <= N
    BY <1>2, <1>4, SMT
  <2>2. c.kind = "resume" =>
          c.card \in DOMAIN call' /\ c.card < N /\ call'[c.card].thread = c.thread
    BY <1>2, <1>3, SMT
  <2>3. \A j \in OnThread(call', c.thread) : j < N /\ status'[j] = "running" => j \in D
    <3>1. \A j \in DOMAIN call' : j < N => j \in DOMAIN call
      BY <1>2, SMT
    <3> QED
      BY <1>3, <3>1 DEF OnThread
  <2> HIDE DEF N, D
  <2> QED
    BY <1>4, <1>5, <2>1, <2>2, <2>3 DEF Ordered, Topic, N
<1>8. ASSUME NEW t \in Threads, OnThread(call', t) # {} PROVE ckpt'[t].msgs # <<>>
  <2>1. CASE t = c.thread
    BY <2>1
  <2>2. CASE t # c.thread
    <3>1. OnThread(call, t) # {}
      BY <1>2, <1>3, <1>4, <1>8, <2>2 DEF OnThread
    <3> QED
      BY <3>1 DEF OrderInv
  <2> QED
    BY <2>1, <2>2
<1> QED
  BY <1>2, <1>6, <1>7, <1>8 DEF OrderInv

LEMMA SendKeepsOrder ==
  ASSUME GoodInv, OrderInv, NEW t \in Threads, NEW x \in Inputs, SendMessage(t, x)
  PROVE  OrderInv'
<1> DEFINE N == Len(call) + 1
           q == Append(ckpt[t].msgs, N)
           c == [kind |-> "message", thread |-> t, input |-> x]
           s == [NewThread EXCEPT !.msgs = q, !.node = "classify"]
<1>1. Begin(c, s) /\ ckpt' = [ckpt EXCEPT ![t] = s] /\ Len(call) < MaxCalls
  BY DEF SendMessage, Begin
<1>2. c \in Call /\ c.thread = t /\ c.kind = "message"
  BY DEF Call
<1>3. /\ q \in Seq(1..MaxCalls) /\ q # <<>> /\ Len(ckpt[t].msgs) \in Nat
      /\ DOMAIN ckpt[t].msgs = 1..Len(ckpt[t].msgs)
      /\ DOMAIN q = 1..(Len(ckpt[t].msgs) + 1) /\ Len(q) = Len(ckpt[t].msgs) + 1
      /\ \A i \in 1..Len(ckpt[t].msgs) : q[i] = ckpt[t].msgs[i]
      /\ q[Len(ckpt[t].msgs) + 1] = N
  BY <1>1, SentState
<1>4. s.msgs = q /\ s \in State
  BY <1>3 DEF NewThread, NoResponse, State, Response, Nodes
<1>5. TypeOK /\ MessagesOn(call, ckpt[t], t)
  BY DEF GoodInv
<1>6. ckpt'[t] = s /\ \A u \in Threads : ckpt'[u] = ckpt[u] \/ ckpt'[u] = s
  BY <1>1, <1>5 DEF TypeOK
<1>7. \A i \in DOMAIN q : q[i] \in 1..N
  <2>1. \A i \in 1..Len(ckpt[t].msgs) : ckpt[t].msgs[i] \in 1..Len(call)
    BY <1>3, <1>5, CallsAreNumbers DEF MessagesOn
  <2>2. Len(call) \in Nat
    BY <1>5, CallsAreNumbers
  <2>3. \A i \in DOMAIN q : i \in 1..Len(ckpt[t].msgs) \/ i = Len(ckpt[t].msgs) + 1
    BY <1>3, SMT
  <2>4. \A i \in DOMAIN q : q[i] \in 1..Len(call) \/ q[i] = N
    BY <2>1, <2>3, <1>3
  <2> HIDE DEF q
  <2> QED
    BY <2>2, <2>4, SMT
<1>8. Last(q) = N
  BY <1>3 DEF Last
<1> HIDE DEF s, c, q
<1> QED
  BY <1>1, <1>2, <1>3, <1>4, <1>6, <1>7, <1>8, BeginKeepsOrder, SMTT(30)

LEMMA ResumeKeepsOrder ==
  ASSUME GoodInv, OrderInv, NEW t \in Threads, NEW approved \in BOOLEAN,
         NEW card \in DOMAIN call, Resume(t, approved, card)
  PROVE  OrderInv'
<1> DEFINE c == [kind |-> "resume", thread |-> t, approved |-> approved, card |-> card]
           s == ckpt[t]
<1>1. Begin(c, s) /\ ckpt' = ckpt /\ call[card].thread = t
  BY DEF Resume
<1>2. TypeOK /\ MessagesOn(call, s, t)
  BY DEF GoodInv
<1>3. DOMAIN call = 1..Len(call) /\ Len(call) \in Nat
  BY <1>2, CallsAreNumbers
<1>4. c \in Call /\ c.thread = t /\ c.kind = "resume" /\ c.card = card
  <2>1. card \in 1..MaxCalls
    BY <1>2, <1>3, Bounds, SMT DEF TypeOK
  <2> QED
    BY <2>1 DEF Call
<1>5. s \in State /\ s.msgs # <<>>
  <2>1. OnThread(call, t) # {}
    BY <1>1 DEF OnThread
  <2> QED
    BY <1>2, <2>1 DEF TypeOK, OrderInv
<1>6. \A i \in DOMAIN s.msgs : s.msgs[i] \in 1..(Len(call) + 1)
  <2>1. \A i \in DOMAIN s.msgs : s.msgs[i] \in 1..Len(call)
    BY <1>2, <1>3 DEF MessagesOn
  <2> HIDE DEF s
  <2> QED
    BY <2>1, <1>3, SMT
<1>7. ckpt'[t].msgs # <<>> /\ \A u \in Threads : ckpt'[u] = ckpt[u]
  BY <1>1, <1>5
<1> HIDE DEF c, s
<1> QED
  BY <1>1, <1>4, <1>5, <1>6, <1>7, BeginKeepsOrder

LEMMA NextOrder == GoodInv /\ OrderInv /\ [Next]_vars => OrderInv'
<1> SUFFICES ASSUME GoodInv, OrderInv, [Next]_vars PROVE OrderInv'
  OBVIOUS
<1>1. ASSUME NEW t \in Threads, NEW x \in Inputs, SendMessage(t, x) PROVE OrderInv'
  BY <1>1, SendKeepsOrder
<1>2. ASSUME NEW t \in Threads, NEW approved \in BOOLEAN, NEW card \in DOMAIN call,
             Resume(t, approved, card)
      PROVE  OrderInv'
  BY <1>2, ResumeKeepsOrder
<1>3. ASSUME NEW n \in DOMAIN call, Node(n) PROVE OrderInv'
  <2>1. NodeShape(n)
    BY <1>3, NodesShape
  <2>2. Shape(n) /\ \A t \in Threads : ckpt'[t] = ckpt[t] \/ ckpt'[t] = state'[n]
    BY <2>1 DEF NodeShape, Shape
  <2> QED
    BY <2>2, ShapeKeepsOrder
<1>4. ASSUME NEW n \in DOMAIN call, Fail(n) PROVE OrderInv'
  BY <1>4, FailShape, ShapeKeepsOrder
<1>5. CASE UNCHANGED vars
  BY <1>5 DEF vars, OrderInv
<1> QED
  BY <1>1, <1>2, <1>3, <1>4, <1>5 DEF Next

-----------------------------------------------------------------------------
(* Quiet threads.  As long as no call on a thread died or met another one, *)
(* its calls take turns: the checkpoint is the state of the latest one,    *)
(* nothing is missing from its messages, and a resume either found nothing *)
(* to do or answers the call that paused just before it.                   *)

Calm(calls, st, du, t) == \A n \in OnThread(calls, t) : st[n] # "failed" /\ du[n] = {}

Latest(calls, s, cp, t) ==
  /\ OnThread(calls, t) = {} => cp[t] = NewThread
  /\ OnThread(calls, t) # {} =>
       \E g \in OnThread(calls, t) : cp[t] = s[g] /\ \A n \in OnThread(calls, t) : n <= g

Complete(calls, s, t) ==
  \A n, m \in OnThread(calls, t) : m <= n /\ calls[m].kind = "message" =>
    \E i \in DOMAIN s[n].msgs : s[n].msgs[i] = m

\* Call n carries on what paused before it.
CarriesOn(calls, s, st, cards, t, n) ==
  /\ Topic(s, n) \in cards /\ Topic(s, n) \in OnThread(calls, t) /\ Topic(s, n) < n
  /\ st[Topic(s, n)] = "paused" /\ st[n] # "paused" /\ s[n].node \notin Early
  /\ \A k \in OnThread(calls, t) : k <= Topic(s, n) \/ k >= n

Turns(calls, s, st, r, cards, t) ==
  \A n \in OnThread(calls, t) : calls[n].kind = "resume" =>
    (st[n] = "done" /\ r[n] = 0) \/ CarriesOn(calls, s, st, cards, t, n)

Once(calls, s, r, t) ==
  \A n, k \in OnThread(calls, t) : n # k /\ r[n] # 0 /\ Topic(s, k) = r[n] =>
    r[k] = 0 /\ s[k].approval # "rejected"

Settled(calls, s, st, r, cards, cp, t) ==
  /\ Latest(calls, s, cp, t)
  /\ Complete(calls, s, t)
  /\ Turns(calls, s, st, r, cards, t)
  /\ Once(calls, s, r, t)

QuietInv ==
  \A t \in Threads : Calm(call, status, during, t) =>
    Settled(call, state, status, ran, shown, ckpt, t)

\* Other threads do not matter.
LEMMA ElsewhereStays ==
  ASSUME NEW calls, NEW more, NEW s, NEW s2, NEW st, NEW st2, NEW r, NEW r2,
         NEW du, NEW du2, NEW cards, NEW cards2, NEW cp, NEW cp2, NEW t,
         OnThread(more, t) = OnThread(calls, t),
         \A k \in OnThread(calls, t) : /\ more[k] = calls[k] /\ s2[k] = s[k] /\ st2[k] = st[k]
                                       /\ r2[k] = r[k] /\ du2[k] = du[k],
         cp2[t] = cp[t], cards \subseteq cards2
  PROVE  /\ Calm(more, st2, du2, t) => Calm(calls, st, du, t)
         /\ Settled(calls, s, st, r, cards, cp, t) => Settled(more, s2, st2, r2, cards2, cp2, t)
<1>1. Calm(more, st2, du2, t) => Calm(calls, st, du, t)
  BY DEF Calm
<1>2. ASSUME Settled(calls, s, st, r, cards, cp, t)
      PROVE  Settled(more, s2, st2, r2, cards2, cp2, t)
  <2>1. Latest(more, s2, cp2, t)
    BY <1>2 DEF Settled, Latest
  <2>2. Complete(more, s2, t)
    BY <1>2 DEF Settled, Complete
  <2>3. Turns(more, s2, st2, r2, cards2, t)
    <3> SUFFICES ASSUME NEW n \in OnThread(more, t), more[n].kind = "resume",
                        ~(st2[n] = "done" /\ r2[n] = 0)
                 PROVE  CarriesOn(more, s2, st2, cards2, t, n)
      BY DEF Turns
    <3>1. CarriesOn(calls, s, st, cards, t, n)
      BY <1>2 DEF Settled, Turns
    <3>2. Topic(s2, n) = Topic(s, n)
      BY DEF Topic
    <3> QED
      BY <3>1, <3>2 DEF CarriesOn
  <2>4. Once(more, s2, r2, t)
    BY <1>2 DEF Settled, Once, Topic
  <2> QED
    BY <2>1, <2>2, <2>3, <2>4 DEF Settled
<1> QED
  BY <1>1, <1>2

\* The topic of a call is one of its messages.
LEMMA TopicFacts ==
  ASSUME GoodInv, OrderInv, NEW n \in DOMAIN call
  PROVE  /\ Topic(state, n) \in OnThread(call, call[n].thread) /\ Topic(state, n) <= n
         /\ Topic(state, n) = Message(n)
         /\ call[n].kind = "message" => Topic(state, n) = n
         /\ call[Topic(state, n)].kind = "message"
<1> DEFINE q == state[n].msgs
<1>1. /\ q \in Seq(1..MaxCalls) /\ MessagesOn(call, state[n], call[n].thread)
      /\ Ordered(call, state, status, during, n)
  BY DEF GoodInv, TypeOK, State, OrderInv
<1>2. q # <<>>
  BY <1>1 DEF Ordered
<1>3. Len(q) \in DOMAIN q
  <2> HIDE DEF q
  <2>1. Len(q) \in Nat /\ Len(q) # 0 /\ DOMAIN q = 1..Len(q)
    BY <1>1, <1>2, LenProperties, EmptySeq
  <2> QED
    BY <2>1, SMT
<1>4. Topic(state, n) = q[Len(q)] /\ Topic(state, n) = Message(n)
  BY DEF Topic, Message, Last
<1> QED
  BY <1>1, <1>3, <1>4 DEF MessagesOn, Ordered, OnThread

\* The call that runs on a quiet thread is the latest, and what else there
\* is about its message is a call that paused.
LEMMA RunsAlone ==
  ASSUME GoodInv, OrderInv, NEW t, Calm(call, status, during, t),
         Settled(call, state, status, ran, shown, ckpt, t),
         NEW n \in OnThread(call, t), status[n] = "running"
  PROVE  /\ \A k \in OnThread(call, t) : k <= n
         /\ \A k \in OnThread(call, t) : k # n /\ Topic(state, k) = Topic(state, n) =>
              ran[k] = 0 /\ state[k].approval # "rejected"
<1>1. OnThread(call, t) \subseteq DOMAIN call /\ DOMAIN call \subseteq Nat
      /\ \A k \in OnThread(call, t) : call[k].thread = t
  BY CallsAreNumbers DEF OnThread, GoodInv
<1>2. ASSUME NEW k \in OnThread(call, t) PROVE k <= n
  <2>1. Ordered(call, state, status, during, k) /\ during[k] = {}
    BY <1>1 DEF OrderInv, Calm
  <2>2. ~(n < k)
    BY <2>1, <1>1 DEF Ordered
  <2>3. n \in Nat /\ k \in Nat
    BY <1>1
  <2> QED
    BY <2>2, <2>3, SMT
<1>3. ASSUME NEW k \in OnThread(call, t), k # n, Topic(state, k) = Topic(state, n)
      PROVE  ran[k] = 0 /\ state[k].approval # "rejected"
  <2>1. k \in Nat /\ n \in Nat /\ k <= n /\ Topic(state, k) <= k
        /\ Topic(state, k) \in Nat /\ k < n
    <3>1. k \in DOMAIN call /\ k \in Nat /\ n \in Nat /\ k <= n
      BY <1>1, <1>2
    <3>2. Topic(state, k) <= k /\ Topic(state, k) \in OnThread(call, call[k].thread)
      BY <3>1, TopicFacts
    <3>3. Topic(state, k) \in Nat
      BY <3>2, <1>1 DEF OnThread
    <3> QED
      BY <3>1, <3>2, <3>3, <1>3, SMT
  <2>2. call[n].kind # "message"
    <3> SUFFICES ASSUME call[n].kind = "message" PROVE FALSE
      OBVIOUS
    <3>1. Topic(state, n) = n
      BY <1>1, TopicFacts
    <3> QED
      BY <3>1, <2>1, <1>3, SMT
  <2>3. call[n].kind = "resume"
    BY <2>2, <1>1, CallFacts DEF GoodInv, TypeOK
  <2>4. CarriesOn(call, state, status, shown, t, n)
    BY <2>3 DEF Settled, Turns
  <2>5. k = Topic(state, n)
    <3>1. k <= Topic(state, n) \/ k >= n
      BY <2>4 DEF CarriesOn
    <3> QED
      BY <3>1, <2>1, <1>3, SMT
  <2>6. status[k] = "paused"
    BY <2>4, <2>5 DEF CarriesOn
  <2>7. /\ CallOK(call, shown, k, state[k], status[k], ran[k], fed[k])
        /\ StageOK(client, call, shown, state[k], call[k].thread)
    BY <1>1 DEF GoodInv
  <2> QED
    BY <2>6, <2>7 DEF CallOK, StageOK
<1> QED
  BY <1>2, <1>3

LEMMA NodeKeepsQuiet ==
  ASSUME GoodInv, OrderInv, QuietInv, NEW n \in DOMAIN call, NodeShape(n)
  PROVE  QuietInv'
<1>1. /\ status[n] = "running" /\ call' = call /\ during' = during /\ shown \subseteq shown'
      /\ \A k \in DOMAIN call : k # n =>
           state'[k] = state[k] /\ status'[k] = status[k] /\ ran'[k] = ran[k]
      /\ \A t \in Threads : t # call[n].thread => ckpt'[t] = ckpt[t]
      /\ state'[n].msgs = state[n].msgs
  BY DEF NodeShape, Shape
<1>2. \A k \in DOMAIN call : Topic(state', k) = Topic(state, k)
  BY <1>1 DEF Topic
<1>3. /\ ckpt'[call[n].thread] = state'[n] /\ status'[n] # "failed"
      /\ status'[n] = "paused" => state[n].node \in Early
      /\ state'[n].node \in Early => state[n].node \in Early
      /\ ran'[n] = ran[n] \/ (state[n].node = "execute" /\ ran'[n] = Message(n))
  BY DEF NodeShape
<1> SUFFICES ASSUME NEW t \in Threads, Calm(call, status', during, t)
             PROVE  Settled(call, state', status', ran', shown', ckpt', t)
  BY <1>1 DEF QuietInv
<1>4. CASE t # call[n].thread
  <2>1. \A k \in OnThread(call, t) : k \in DOMAIN call /\ k # n
    BY <1>4 DEF OnThread
  <2>2. /\ \A k \in OnThread(call, t) : /\ call[k] = call[k] /\ state'[k] = state[k]
           /\ status'[k] = status[k] /\ ran'[k] = ran[k] /\ during[k] = during[k]
        /\ ckpt'[t] = ckpt[t]
    BY <2>1, <1>1, <1>4
  <2>3. Calm(call, status, during, t)
    BY <2>2 DEF Calm
  <2>4. Settled(call, state, status, ran, shown, ckpt, t)
    BY <2>3 DEF QuietInv
  <2> QED
    BY <2>2, <2>4, <1>1, ElsewhereStays
<1>5. CASE t = call[n].thread
  <2>1. n \in OnThread(call, t) /\ \A k \in OnThread(call, t) : k \in DOMAIN call
    BY <1>5 DEF OnThread
  <2>2. Calm(call, status, during, t)
    BY <1>1, <2>1 DEF Calm
  <2>3. Settled(call, state, status, ran, shown, ckpt, t)
    BY <2>2 DEF QuietInv
  <2>4. /\ \A k \in OnThread(call, t) : k <= n
        /\ \A k \in OnThread(call, t) : k # n /\ Topic(state, k) = Topic(state, n) =>
             ran[k] = 0 /\ state[k].approval # "rejected"
    BY <1>1, <2>1, <2>2, <2>3, RunsAlone
  <2>5. Latest(call, state', ckpt', t)
    BY <1>3, <1>5, <2>1, <2>4 DEF Latest
  <2>6. Complete(call, state', t)
    <3>1. \A k \in DOMAIN call : state'[k].msgs = state[k].msgs
      BY <1>1
    <3> QED
      BY <2>1, <2>3, <3>1 DEF Settled, Complete
  <2>7. Turns(call, state', status', ran', shown', t)
    <3> SUFFICES ASSUME NEW k \in OnThread(call, t), call[k].kind = "resume",
                        ~(status'[k] = "done" /\ ran'[k] = 0)
                 PROVE  CarriesOn(call, state', status', shown', t, k)
      BY DEF Turns
    <3>1. CASE k # n
      <4>1. k \in DOMAIN call /\ state'[k] = state[k] /\ status'[k] = status[k]
            /\ ran'[k] = ran[k]
        BY <3>1, <2>1, <1>1
      <4>2. CarriesOn(call, state, status, shown, t, k)
        BY <4>1, <2>3 DEF Settled, Turns
      <4>3. Topic(state, k) # n /\ Topic(state, k) \in DOMAIN call
        BY <4>2, <1>1, <2>1 DEF CarriesOn
      <4>4. status'[Topic(state, k)] = status[Topic(state, k)]
        BY <4>3, <1>1
      <4>5. Topic(state', k) = Topic(state, k)
        BY <4>1, <1>2
      <4> QED
        BY <4>1, <4>2, <4>4, <4>5, <1>1 DEF CarriesOn
    <3>2. CASE k = n
      <4>1. CarriesOn(call, state, status, shown, t, n)
        BY <3>2, <1>1, <2>3 DEF Settled, Turns
      <4>2. Topic(state, n) # n /\ Topic(state, n) \in DOMAIN call
        BY <4>1, <1>1, <2>1 DEF CarriesOn
      <4>3. status'[Topic(state, n)] = status[Topic(state, n)]
        BY <4>2, <1>1
      <4>4. status'[n] # "paused" /\ state'[n].node \notin Early
        BY <4>1, <1>3 DEF CarriesOn
      <4>5. Topic(state', n) = Topic(state, n)
        BY <1>2
      <4> QED
        BY <3>2, <4>1, <4>3, <4>4, <4>5, <1>1 DEF CarriesOn
    <3> QED
      BY <3>1, <3>2
  <2>8. Once(call, state', ran', t)
    <3> SUFFICES ASSUME NEW a \in OnThread(call, t), NEW k \in OnThread(call, t), a # k,
                        ran'[a] # 0, Topic(state', k) = ran'[a]
                 PROVE  ran'[k] = 0 /\ state'[k].approval # "rejected"
      BY DEF Once
    <3>1. a \in DOMAIN call /\ k \in DOMAIN call /\ Topic(state, k) = ran'[a]
      BY <2>1, <1>2
    <3>2. CASE a = n
      <4>1. ran'[k] = ran[k] /\ state'[k] = state[k]
        BY <3>1, <3>2, <1>1
      <4>2. CASE ran'[n] = ran[n]
        BY <4>1, <4>2, <3>1, <3>2, <2>3 DEF Settled, Once
      <4>3. CASE ran'[n] = Message(n)
        <5>1. Topic(state, k) = Topic(state, n)
          BY <4>3, <3>1, <3>2, TopicFacts
        <5> QED
          BY <5>1, <4>1, <3>2, <2>4
      <4> QED
        BY <4>2, <4>3, <1>3
    <3>3. CASE k = n
      <4>1. ran[a] # 0 /\ ran[a] = Topic(state, n)
        BY <3>1, <3>3, <1>1
      <4>2. ran[a] = Topic(state, a)
        <5>1. CallOK(call, shown, a, state[a], status[a], ran[a], fed[a])
          BY <3>1 DEF GoodInv
        <5> QED
          BY <4>1, <5>1 DEF CallOK, Topic
      <4>3. ran[a] = 0
        BY <4>1, <4>2, <3>3, <2>4
      <4> QED
        BY <4>1, <4>3
    <3>4. CASE a # n /\ k # n
      BY <3>1, <3>4, <1>1, <2>3 DEF Settled, Once
    <3> QED
      BY <3>2, <3>3, <3>4
  <2> QED
    BY <2>5, <2>6, <2>7, <2>8 DEF Settled
<1> QED
  BY <1>4, <1>5

LEMMA FailKeepsQuiet ==
  ASSUME GoodInv, OrderInv, QuietInv, NEW n \in DOMAIN call, Fail(n)
  PROVE  QuietInv'
<1>1. Shape(n) /\ status'[n] = "failed" /\ UNCHANGED <<state, ckpt, shown>>
  BY FailShape
<1>2. /\ call' = call /\ during' = during
      /\ \A k \in DOMAIN call : k # n => status'[k] = status[k] /\ ran'[k] = ran[k]
  BY <1>1 DEF Shape
<1> SUFFICES ASSUME NEW t \in Threads, Calm(call, status', during, t)
             PROVE  Settled(call, state, status', ran', shown, ckpt, t)
  BY <1>1, <1>2 DEF QuietInv
<1>3. t # call[n].thread
  BY <1>1 DEF Calm, OnThread
<1>4. \A k \in OnThread(call, t) : k \in DOMAIN call /\ k # n
  BY <1>3 DEF OnThread
<1>5. \A k \in OnThread(call, t) : /\ call[k] = call[k] /\ state[k] = state[k]
        /\ status'[k] = status[k] /\ ran'[k] = ran[k] /\ during[k] = during[k]
  BY <1>2, <1>4
<1>6. Calm(call, status, during, t)
  BY <1>5 DEF Calm
<1>7. Settled(call, state, status, ran, shown, ckpt, t)
  BY <1>6 DEF QuietInv
<1> QED
  BY <1>5, <1>7, ElsewhereStays

\* A call that starts on another thread does not matter, and on its own
\* thread a quiet one finds nothing running.
LEMMA BeginThreads ==
  ASSUME GoodInv, NEW c \in Call, NEW s \in State, Begin(c, s), NEW t
  PROVE  /\ t # c.thread => OnThread(call', t) = OnThread(call, t)
         /\ OnThread(call', c.thread) = OnThread(call, c.thread) \cup {Len(call) + 1}
         /\ \A k \in OnThread(call, t) :
              /\ call'[k] = call[k] /\ state'[k] = state[k] /\ status'[k] = status[k]
              /\ ran'[k] = ran[k] /\ during'[k] = during[k]
              /\ k \in DOMAIN call /\ k \in Nat /\ k < Len(call) + 1
         /\ Calm(call', status', during', c.thread) =>
              /\ Calm(call, status, during, c.thread)
              /\ \A k \in OnThread(call, c.thread) : status[k] # "running"
         /\ call'[Len(call) + 1] = c /\ state'[Len(call) + 1] = s /\ ran'[Len(call) + 1] = 0
         /\ status'[Len(call) + 1] = (IF s.node = "end" THEN "done" ELSE "running")
         /\ Len(call) + 1 \in Nat /\ shown' = shown
<1> DEFINE N == Len(call) + 1
           D == {k \in DOMAIN call : call[k].thread = c.thread /\ status[k] = "running"}
<1>1. TypeOK
  BY DEF GoodInv
<1>2. DOMAIN call' = DOMAIN call \cup {N} /\ N \notin DOMAIN call
  BY <1>1, BeginFacts
<1>3. DOMAIN call = 1..Len(call) /\ Len(call) \in Nat
  BY <1>1, CallsAreNumbers
<1>4. \A k \in DOMAIN call : /\ call'[k] = call[k] /\ state'[k] = state[k]
        /\ status'[k] = status[k] /\ ran'[k] = ran[k] /\ during'[k] = during[k]
  BY <1>1, BeginFacts DEF Longer
<1>5. call'[N] = c /\ state'[N] = s /\ ran'[N] = 0
  BY <1>1, BeginFacts DEF Longer
<1>6. status'[N] = (IF s.node = "end" THEN "done" ELSE "running")
  BY <1>1, BeginFacts DEF Longer
<1>7. during'[N] = D
  BY <1>1, BeginFacts DEF Longer
<1>8. t # c.thread => OnThread(call', t) = OnThread(call, t)
  BY <1>2, <1>4, <1>5 DEF OnThread
<1>9. OnThread(call', c.thread) = OnThread(call, c.thread) \cup {N}
  BY <1>2, <1>4, <1>5 DEF OnThread
<1>10. \A k \in DOMAIN call : k \in Nat /\ k < N
  BY <1>3, SMT
<1>11. ASSUME Calm(call', status', during', c.thread)
       PROVE  /\ Calm(call, status, during, c.thread)
              /\ \A k \in OnThread(call, c.thread) : status[k] # "running"
  <2>1. D = {}
    BY <1>7, <1>9, <1>11 DEF Calm
  <2>2. \A k \in OnThread(call, c.thread) : k \in DOMAIN call
    BY DEF OnThread
  <2>3. Calm(call, status, during, c.thread)
    BY <1>4, <1>9, <1>11, <2>2 DEF Calm
  <2>4. \A k \in OnThread(call, c.thread) : status[k] # "running"
    BY <2>1 DEF OnThread
  <2> QED
    BY <2>3, <2>4
<1>12. \A k \in OnThread(call, t) : k \in DOMAIN call
  BY DEF OnThread
<1>13. N \in Nat /\ shown' = shown
  BY <1>3 DEF Begin
<1> QED
  BY <1>4, <1>5, <1>6, <1>8, <1>9, <1>10, <1>11, <1>12, <1>13

LEMMA BeginElsewhere ==
  ASSUME GoodInv, QuietInv, NEW c \in Call, NEW s \in State, Begin(c, s),
         NEW t \in Threads, t # c.thread, ckpt'[t] = ckpt[t],
         Calm(call', status', during', t)
  PROVE  Settled(call', state', status', ran', shown', ckpt', t)
<1>1. OnThread(call', t) = OnThread(call, t)
  BY BeginThreads
<1>2. \A k \in OnThread(call, t) :
        /\ call'[k] = call[k] /\ state'[k] = state[k] /\ status'[k] = status[k]
        /\ ran'[k] = ran[k] /\ during'[k] = during[k]
  BY BeginThreads
<1>3. shown \subseteq shown'
  BY DEF Begin
<1>4. Calm(call, status, during, t)
  BY <1>1, <1>2 DEF Calm
<1>5. Settled(call, state, status, ran, shown, ckpt, t)
  BY <1>4 DEF QuietInv
<1> QED
  BY <1>1, <1>2, <1>3, <1>4, <1>5, ElsewhereStays

\* Calls that took their turns before a new one started still have.
LEMMA TurnsStay ==
  ASSUME GoodInv, OrderInv, NEW c \in Call, NEW s \in State, Begin(c, s),
         Turns(call, state, status, ran, shown, c.thread),
         NEW n \in OnThread(call, c.thread), call'[n].kind = "resume"
  PROVE  \/ status'[n] = "done" /\ ran'[n] = 0
         \/ CarriesOn(call', state', status', shown', c.thread, n)
<1> DEFINE N == Len(call) + 1
<1>1. OnThread(call', c.thread) = OnThread(call, c.thread) \cup {N} /\ shown' = shown /\ N \in Nat
  BY BeginThreads
<1>2. \A k \in OnThread(call, c.thread) :
        /\ call'[k] = call[k] /\ state'[k] = state[k] /\ status'[k] = status[k]
        /\ ran'[k] = ran[k] /\ k \in Nat /\ k < N
  BY BeginThreads
<1>3. CASE status[n] = "done" /\ ran[n] = 0
  BY <1>2, <1>3
<1>4. CASE CarriesOn(call, state, status, shown, c.thread, n)
  <2>1. Topic(state', n) = Topic(state, n)
    BY <1>2 DEF Topic
  <2>2. Topic(state, n) \in OnThread(call, c.thread)
    BY <1>4 DEF CarriesOn
  <2>3. status'[Topic(state, n)] = status[Topic(state, n)]
    BY <1>2, <2>2
  <2>4. \A k \in OnThread(call', c.thread) : k <= Topic(state, n) \/ k >= n
    <3>1. N >= n
      BY <1>1, <1>2, SMT
    <3> QED
      BY <3>1, <1>1, <1>4 DEF CarriesOn
  <2>5. state'[n] = state[n] /\ status'[n] = status[n]
    BY <1>2
  <2>6. Topic(state, n) \in OnThread(call', c.thread)
    BY <1>1, <2>2
  <2>7. CarriesOn(call', state', status', shown', c.thread, n)
    BY <1>1, <1>4, <2>1, <2>3, <2>4, <2>5, <2>6 DEF CarriesOn
  <2> QED
    BY <2>7
<1> QED
  BY <1>2, <1>3, <1>4 DEF Turns

LEMMA SendKeepsQuiet ==
  ASSUME GoodInv, OrderInv, QuietInv, NEW t \in Threads, NEW x \in Inputs, SendMessage(t, x)
  PROVE  QuietInv'
<1> DEFINE N == Len(call) + 1
           q == Append(ckpt[t].msgs, N)
           c == [kind |-> "message", thread |-> t, input |-> x]
           s == [NewThread EXCEPT !.msgs = q, !.node = "classify"]
<1>1. Begin(c, s) /\ ckpt' = [ckpt EXCEPT ![t] = s] /\ Len(call) < MaxCalls
  BY DEF SendMessage, Begin
<1>2. c \in Call /\ c.thread = t /\ c.kind = "message"
  BY DEF Call
<1>3. /\ q \in Seq(1..MaxCalls) /\ Len(ckpt[t].msgs) \in Nat
      /\ DOMAIN ckpt[t].msgs = 1..Len(ckpt[t].msgs)
      /\ DOMAIN q = 1..(Len(ckpt[t].msgs) + 1) /\ Len(q) = Len(ckpt[t].msgs) + 1
      /\ \A i \in 1..Len(ckpt[t].msgs) : q[i] = ckpt[t].msgs[i]
      /\ q[Len(ckpt[t].msgs) + 1] = N
  BY <1>1, SentState
<1>4. s.msgs = q /\ s \in State /\ s.approval = "none"
  BY <1>3 DEF NewThread, NoResponse, State, Response, Nodes
<1>5. ckpt'[t] = s /\ \A u \in Threads : u # t => ckpt'[u] = ckpt[u]
  BY <1>1 DEF GoodInv, TypeOK
<1>6. \A m \in DOMAIN ckpt[t].msgs : \E i \in DOMAIN q : q[i] = ckpt[t].msgs[m]
  <2>1. \A m \in 1..Len(ckpt[t].msgs) : m \in 1..(Len(ckpt[t].msgs) + 1)
    BY <1>3, SMT
  <2> QED
    BY <2>1, <1>3
<1>7. Last(q) = N /\ \E i \in DOMAIN q : q[i] = N
  <2>1. Len(ckpt[t].msgs) + 1 \in 1..(Len(ckpt[t].msgs) + 1)
    BY <1>3, SMT
  <2> QED
    BY <2>1, <1>3 DEF Last
<1> HIDE DEF s, c, q
<1> SUFFICES ASSUME NEW u \in Threads, Calm(call', status', during', u)
             PROVE  Settled(call', state', status', ran', shown', ckpt', u)
  BY DEF QuietInv
<1>8. CASE u # t
  BY <1>1, <1>2, <1>4, <1>5, <1>8, BeginElsewhere
<1>9. CASE u = t
  <2>1. /\ OnThread(call', t) = OnThread(call, t) \cup {N}
        /\ call'[N] = c /\ state'[N] = s /\ ran'[N] = 0 /\ N \in Nat
    BY <1>1, <1>2, <1>4, BeginThreads
  <2>2. \A k \in OnThread(call, t) :
          /\ call'[k] = call[k] /\ state'[k] = state[k] /\ ran'[k] = ran[k]
          /\ k \in DOMAIN call /\ k \in Nat /\ k < N
    BY <1>1, <1>2, <1>4, BeginThreads
  <2>3. Calm(call, status, during, t)
    BY <1>1, <1>2, <1>4, <1>9, BeginThreads
  <2>4. Settled(call, state, status, ran, shown, ckpt, t)
    BY <2>3 DEF QuietInv
  <2>5. Latest(call', state', ckpt', t)
    <3>1. \A k \in OnThread(call', t) : k <= N
      BY <2>1, <2>2, SMT
    <3> QED
      BY <3>1, <2>1, <1>5 DEF Latest
  <2>6. Complete(call', state', t)
    <3> SUFFICES ASSUME NEW n \in OnThread(call', t), NEW m \in OnThread(call', t),
                        m <= n, call'[m].kind = "message"
                 PROVE  \E i \in DOMAIN state'[n].msgs : state'[n].msgs[i] = m
      BY DEF Complete
    <3>1. CASE n # N
      <4>1. n \in OnThread(call, t) /\ m # N
        BY <3>1, <2>1, <2>2, SMT
      <4> QED
        BY <4>1, <2>1, <2>2, <2>4 DEF Settled, Complete
    <3>2. CASE n = N /\ m = N
      BY <3>2, <2>1, <1>4, <1>7
    <3>3. CASE n = N /\ m # N
      <4>1. m \in OnThread(call, t) /\ call[m].kind = "message"
        BY <3>3, <2>1, <2>2
      <4>2. PICK g \in OnThread(call, t) : ckpt[t] = state[g] /\ m <= g
        BY <4>1, <2>4 DEF Settled, Latest
      <4>3. \E i \in DOMAIN ckpt[t].msgs : ckpt[t].msgs[i] = m
        BY <4>1, <4>2, <2>4 DEF Settled, Complete
      <4> QED
        BY <4>3, <3>3, <2>1, <1>4, <1>6
    <3> QED
      BY <3>1, <3>2, <3>3
  <2>7. Turns(call', state', status', ran', shown', t)
    <3> SUFFICES ASSUME NEW n \in OnThread(call', t), call'[n].kind = "resume"
                 PROVE  \/ status'[n] = "done" /\ ran'[n] = 0
                        \/ CarriesOn(call', state', status', shown', t, n)
      BY DEF Turns
    <3>1. n \in OnThread(call, t)
      BY <2>1, <1>2
    <3> QED
      BY <3>1, <2>4, <1>1, <1>2, <1>4, TurnsStay DEF Settled
  <2>8. Once(call', state', ran', t)
    <3> SUFFICES ASSUME NEW a \in OnThread(call', t), NEW k \in OnThread(call', t), a # k,
                        ran'[a] # 0, Topic(state', k) = ran'[a]
                 PROVE  ran'[k] = 0 /\ state'[k].approval # "rejected"
      BY DEF Once
    <3>1. a \in OnThread(call, t) /\ ran'[a] = ran[a]
      BY <2>1, <2>2
    <3>2. CASE k = N
      <4>1. CallOK(call, shown, a, state[a], status[a], ran[a], fed[a])
        BY <3>1, <2>2 DEF GoodInv
      <4>2. ran[a] = Topic(state, a)
        BY <3>1, <4>1 DEF CallOK, Topic
      <4>3. Topic(state, a) <= a /\ Topic(state, a) \in OnThread(call, call[a].thread)
        BY <3>1, <2>2, TopicFacts
      <4>4. Topic(state, a) \in Nat
        BY <4>3, CallsAreNumbers DEF OnThread, GoodInv
      <4>5. Topic(state', k) = N
        BY <3>2, <2>1, <1>4, <1>7 DEF Topic
      <4>6. a \in Nat /\ a < N
        BY <3>1, <2>2
      <4> QED
        BY <3>1, <4>2, <4>3, <4>4, <4>5, <4>6, <2>1, SMT
    <3>3. CASE k # N
      <4>1. k \in OnThread(call, t) /\ ran'[k] = ran[k] /\ state'[k] = state[k]
        BY <3>3, <2>1, <2>2
      <4>2. Topic(state, k) = ran[a]
        BY <4>1, <3>1 DEF Topic
      <4> QED
        BY <3>1, <4>1, <4>2, <2>4 DEF Settled, Once
    <3> QED
      BY <3>2, <3>3
  <2> QED
    BY <2>5, <2>6, <2>7, <2>8, <1>9 DEF Settled
<1> QED
  BY <1>8, <1>9

LEMMA ResumeKeepsQuiet ==
  ASSUME GoodInv, OrderInv, QuietInv, NEW t \in Threads, NEW approved \in BOOLEAN,
         NEW card \in DOMAIN call, Resume(t, approved, card)
  PROVE  QuietInv'
<1> DEFINE N == Len(call) + 1
           c == [kind |-> "resume", thread |-> t, approved |-> approved, card |-> card]
           s == ckpt[t]
<1>1. Begin(c, s) /\ ckpt' = ckpt /\ call[card].thread = t
  BY DEF Resume
<1>2. TypeOK /\ StageOK(client, call, shown, s, t)
  BY DEF GoodInv
<1>3. c \in Call /\ c.thread = t /\ c.kind = "resume"
  <2>1. card \in 1..MaxCalls
    BY <1>2, CallsAreNumbers, Bounds, SMT DEF TypeOK
  <2> QED
    BY <2>1 DEF Call
<1>4. s \in State
  BY <1>2 DEF TypeOK
<1> HIDE DEF s, c
<1> SUFFICES ASSUME NEW u \in Threads, Calm(call', status', during', u)
             PROVE  Settled(call', state', status', ran', shown', ckpt', u)
  BY DEF QuietInv
<1>5. CASE u # t
  BY <1>1, <1>3, <1>4, <1>5, BeginElsewhere
<1>6. CASE u = t
  <2>1. /\ OnThread(call', t) = OnThread(call, t) \cup {N}
        /\ call'[N] = c /\ state'[N] = s /\ ran'[N] = 0 /\ N \in Nat /\ shown' = shown
        /\ status'[N] = (IF s.node = "end" THEN "done" ELSE "running")
    BY <1>1, <1>3, <1>4, BeginThreads
  <2>2. \A k \in OnThread(call, t) :
          /\ call'[k] = call[k] /\ state'[k] = state[k] /\ ran'[k] = ran[k]
          /\ status'[k] = status[k]
          /\ k \in DOMAIN call /\ k \in Nat /\ k < N
    BY <1>1, <1>3, <1>4, BeginThreads
  <2>3. /\ Calm(call, status, during, t)
        /\ \A k \in OnThread(call, t) : status[k] # "running"
    BY <1>1, <1>3, <1>4, <1>6, BeginThreads
  <2>4. Settled(call, state, status, ran, shown, ckpt, t)
    BY <2>3 DEF QuietInv
  <2>5. PICK g \in OnThread(call, t) : s = state[g] /\ \A n \in OnThread(call, t) : n <= g
    <3>1. card \in OnThread(call, t)
      BY <1>1 DEF OnThread
    <3> QED
      BY <3>1, <2>4 DEF Settled, Latest, s
  <2>6. g \in DOMAIN call /\ g < N /\ g \in Nat /\ call[g].thread = t
    BY <2>2, <2>5 DEF OnThread
  <2>7. /\ CallOK(call, shown, g, state[g], status[g], ran[g], fed[g])
        /\ StageOK(client, call, shown, state[g], call[g].thread)
    BY <2>6 DEF GoodInv
  <2>8. Topic(state', N) = Topic(state, g)
    BY <2>1, <2>5 DEF Topic
  <2>9. Latest(call', state', ckpt', t)
    <3>1. \A k \in OnThread(call', t) : k <= N
      BY <2>1, <2>2, SMT
    <3> QED
      BY <3>1, <2>1, <1>1 DEF Latest, s
  <2>10. Complete(call', state', t)
    <3> SUFFICES ASSUME NEW n \in OnThread(call', t), NEW m \in OnThread(call', t),
                        m <= n, call'[m].kind = "message"
                 PROVE  \E i \in DOMAIN state'[n].msgs : state'[n].msgs[i] = m
      BY DEF Complete
    <3>1. m \in OnThread(call, t) /\ call[m].kind = "message"
      BY <2>1, <2>2, <1>3
    <3>2. CASE n # N
      BY <3>1, <3>2, <2>1, <2>2, <2>4 DEF Settled, Complete
    <3>3. CASE n = N
      <4>1. m <= g
        BY <3>1, <2>5
      <4>2. \E i \in DOMAIN state[g].msgs : state[g].msgs[i] = m
        BY <3>1, <4>1, <2>4, <2>5 DEF Settled, Complete
      <4> QED
        BY <4>2, <3>3, <2>1, <2>5
    <3> QED
      BY <3>2, <3>3
  <2>11. Turns(call', state', status', ran', shown', t)
    <3> SUFFICES ASSUME NEW n \in OnThread(call', t), call'[n].kind = "resume"
                 PROVE  \/ status'[n] = "done" /\ ran'[n] = 0
                        \/ CarriesOn(call', state', status', shown', t, n)
      BY DEF Turns
    <3>1. CASE n \in OnThread(call, t)
      BY <3>1, <2>4, <1>1, <1>3, <1>4, TurnsStay DEF Settled
    <3>2. CASE n = N /\ s.node = "end"
      BY <3>2, <2>1
    <3>3. CASE n = N /\ s.node # "end"
      <4>1. status[g] = "paused"
        <5>1. status[g] \in {"running", "paused", "done", "failed"}
          BY <2>6, <1>2 DEF TypeOK
        <5>2. status[g] # "running" /\ status[g] # "failed"
          BY <2>3, <2>5 DEF Calm
        <5>3. status[g] # "done"
          BY <2>7, <2>5, <3>3 DEF CallOK
        <5> QED
          BY <5>1, <5>2, <5>3
      <4>2. call[g].kind = "message"
        <5>1. call[g].kind # "resume"
          BY <4>1, <2>4, <2>5 DEF Settled, Turns, CarriesOn
        <5> QED
          BY <5>1, <2>6, <1>2, CallFacts DEF TypeOK
      <4>3. Topic(state, g) = g
        BY <4>2, <2>6, TopicFacts
      <4>4. s.node = "hitl" /\ g \in shown
        BY <4>1, <4>3, <2>5, <2>7 DEF CallOK, StageOK, Topic
      <4>5. \A k \in OnThread(call', t) : k <= g \/ k >= N
        BY <2>1, <2>5, SMT
      <4>6. status'[N] = "running" /\ status'[g] = "paused"
        BY <2>1, <2>2, <2>5, <3>3, <4>1
      <4>7. g \in OnThread(call', t)
        BY <2>1, <2>5
      <4>8. CarriesOn(call', state', status', shown', t, N)
        BY <2>1, <2>6, <2>8, <4>3, <4>4, <4>5, <4>6, <4>7 DEF CarriesOn, Early
      <4> QED
        BY <4>8, <3>3
    <3> QED
      BY <3>1, <3>2, <3>3, <2>1
  <2>12. Once(call', state', ran', t)
    <3> SUFFICES ASSUME NEW a \in OnThread(call', t), NEW k \in OnThread(call', t), a # k,
                        ran'[a] # 0, Topic(state', k) = ran'[a]
                 PROVE  ran'[k] = 0 /\ state'[k].approval # "rejected"
      BY DEF Once
    <3>1. a \in OnThread(call, t) /\ ran'[a] = ran[a]
      BY <2>1, <2>2
    <3>2. CASE k = N
      <4>1. Topic(state, g) = ran[a]
        BY <3>1, <3>2, <2>8
      <4>2. CASE a = g
        BY <4>2, <3>1, <3>2, <2>1, <2>5, <2>7 DEF CallOK, Reviewed
      <4>3. CASE a # g
        BY <4>1, <4>3, <3>1, <3>2, <2>1, <2>4, <2>5 DEF Settled, Once
      <4> QED
        BY <4>2, <4>3
    <3>3. CASE k # N
      <4>1. k \in OnThread(call, t) /\ ran'[k] = ran[k] /\ state'[k] = state[k]
        BY <3>3, <2>1, <2>2
      <4>2. Topic(state, k) = ran[a]
        BY <4>1, <3>1 DEF Topic
      <4> QED
        BY <3>1, <4>1, <4>2, <2>4 DEF Settled, Once
    <3> QED
      BY <3>2, <3>3
  <2> QED
    BY <2>9, <2>10, <2>11, <2>12, <1>6 DEF Settled
<1> QED
  BY <1>5, <1>6

-----------------------------------------------------------------------------
(* All together. *)

IInv == GoodInv /\ OrderInv /\ QuietInv

LEMMA InitIInv == Init => IInv
<1> SUFFICES ASSUME Init PROVE IInv
  OBVIOUS
<1>1. DOMAIN call = {}
  BY DEF Init
<1>2. \A t \in Threads : OnThread(call, t) = {} /\ ckpt[t] = NewThread
  BY <1>1 DEF Init, OnThread
<1>3. OrderInv
  BY <1>1, <1>2 DEF OrderInv
<1>4. QuietInv
  BY <1>2 DEF QuietInv, Settled, Latest, Complete, Turns, Once
<1> QED
  BY <1>3, <1>4, InitGood DEF IInv

LEMMA NextIInv == IInv /\ [Next]_vars => IInv'
<1> SUFFICES ASSUME IInv, [Next]_vars PROVE IInv'
  OBVIOUS
<1>1. GoodInv /\ OrderInv /\ QuietInv
  BY DEF IInv
<1>2. GoodInv' /\ OrderInv'
  BY <1>1, NextGood, NextOrder
<1>3. ASSUME NEW t \in Threads, NEW x \in Inputs, SendMessage(t, x) PROVE QuietInv'
  BY <1>1, <1>3, SendKeepsQuiet
<1>4. ASSUME NEW t \in Threads, NEW approved \in BOOLEAN, NEW card \in DOMAIN call,
             Resume(t, approved, card)
      PROVE  QuietInv'
  BY <1>1, <1>4, ResumeKeepsQuiet
<1>5. ASSUME NEW n \in DOMAIN call, Node(n) PROVE QuietInv'
  BY <1>1, <1>5, NodesShape, NodeKeepsQuiet
<1>6. ASSUME NEW n \in DOMAIN call, Fail(n) PROVE QuietInv'
  BY <1>1, <1>6, FailKeepsQuiet
<1>7. ASSUME UNCHANGED vars PROVE QuietInv'
  <2>1. /\ call' = call /\ state' = state /\ status' = status /\ ckpt' = ckpt
        /\ shown' = shown /\ ran' = ran /\ during' = during
    BY <1>7 DEF vars
  <2> QED
    BY <1>1, <2>1 DEF QuietInv
<1>8. QuietInv'
  BY <1>3, <1>4, <1>5, <1>6, <1>7 DEF Next
<1> QED
  BY <1>2, <1>8 DEF IInv

LEMMA IInvHolds == Spec => []IInv
<1> QED
  BY InitIInv, NextIInv, PTL DEF Spec

LEMMA QuietIsCalm ==
  ASSUME NEW t, Quiet(t)
  PROVE  Calm(call, status, during, t)
BY DEF Quiet, CallsOn, Calm, OnThread

\* On a quiet thread no message that was sent is missing from the history
\* the gate and the resolver read.
THEOREM HistoryIsComplete == Spec => []QuietThreadsKeepHistory
<1>1. IInv => QuietThreadsKeepHistory
  <2> SUFFICES ASSUME IInv, NEW t \in Threads, Quiet(t)
               PROVE  ToSet(ckpt[t].msgs) = {n \in CallsOn(t) : call[n].kind = "message"}
    BY DEF QuietThreadsKeepHistory
  <2>1. /\ GoodInv /\ MessagesOn(call, ckpt[t], t)
        /\ Settled(call, state, status, ran, shown, ckpt, t)
    BY QuietIsCalm DEF IInv, QuietInv, GoodInv
  <2>2. CallsOn(t) = OnThread(call, t)
    BY DEF CallsOn, OnThread
  <2>3. ASSUME NEW m \in ToSet(ckpt[t].msgs)
        PROVE  m \in CallsOn(t) /\ call[m].kind = "message"
    BY <2>1, <2>2 DEF ToSet, MessagesOn, OnThread
  <2>4. ASSUME NEW m \in CallsOn(t), call[m].kind = "message"
        PROVE  m \in ToSet(ckpt[t].msgs)
    <3>1. PICK g \in OnThread(call, t) : ckpt[t] = state[g] /\ m <= g
      BY <2>1, <2>2 DEF Settled, Latest
    <3>2. \E i \in DOMAIN ckpt[t].msgs : ckpt[t].msgs[i] = m
      BY <2>1, <2>2, <2>4, <3>1 DEF Settled, Complete
    <3> QED
      BY <3>2 DEF ToSet
  <2> QED
    BY <2>3, <2>4
<1> QED
  BY <1>1, IInvHolds, PTL

\* On a quiet thread a decision executes the message its card showed, or one
\* that was sent after it and shown as well.
THEOREM DecisionsAreAboutCards == Spec => []ApprovesWhatWasShownOrNewer
<1>1. IInv => ApprovesWhatWasShownOrNewer
  <2> SUFFICES ASSUME IInv, NEW n \in DOMAIN call, call[n].kind = "resume", ran[n] # 0,
                      Quiet(call[n].thread)
               PROVE  ran[n] = call[n].card \/ (ran[n] > call[n].card /\ ran[n] \in shown)
    BY DEF ApprovesWhatWasShownOrNewer
  <2> DEFINE t == call[n].thread
  <2>1. GoodInv /\ OrderInv /\ TypeOK /\ t \in Threads
    BY CallFacts DEF IInv, GoodInv, TypeOK
  <2>2. Settled(call, state, status, ran, shown, ckpt, t)
    BY <2>1, QuietIsCalm DEF IInv, QuietInv
  <2>3. CarriesOn(call, state, status, shown, t, n)
    BY <2>2 DEF Settled, Turns, OnThread
  <2>4. ran[n] = Topic(state, n)
    BY <2>1 DEF GoodInv, CallOK, Topic
  <2>5. call[n].card \in OnThread(call, t) /\ call[n].card < n
    BY <2>1 DEF OrderInv, Ordered, OnThread
  <2>6. call[n].card <= Topic(state, n) \/ call[n].card >= n
    BY <2>3, <2>5 DEF CarriesOn
  <2>7. call[n].card \in Nat /\ Topic(state, n) \in Nat /\ n \in Nat
    BY <2>1, <2>3, <2>5, CallsAreNumbers DEF CarriesOn, OnThread
  <2>8. Topic(state, n) \in shown
    BY <2>3 DEF CarriesOn
  <2> QED
    BY <2>4, <2>5, <2>6, <2>7, <2>8, SMT
<1> QED
  BY <1>1, IInvHolds, PTL

\* A message of a quiet thread is decided once: one call at most executes
\* it, and none if a reviewer rejected it.
THEOREM MessagesAreDecidedOnce == Spec => []QuietThreadsDecideOnce
<1>1. IInv => QuietThreadsDecideOnce
  <2> SUFFICES ASSUME IInv, NEW n \in DOMAIN call, ran[n] # 0, Quiet(call[n].thread)
               PROVE  /\ ~Rejected(ran[n])
                      /\ \A k \in DOMAIN call : k # n => ran[k] # ran[n]
    BY DEF QuietThreadsDecideOnce
  <2> DEFINE t == call[n].thread
  <2>1. GoodInv /\ OrderInv /\ TypeOK /\ t \in Threads
    BY CallFacts DEF IInv, GoodInv, TypeOK
  <2>2. Once(call, state, ran, t)
    BY <2>1, QuietIsCalm DEF IInv, QuietInv, Settled
  <2>3. CallOK(call, shown, n, state[n], status[n], ran[n], fed[n])
    BY <2>1 DEF GoodInv
  <2>4. ran[n] = Topic(state, n) /\ state[n].approval # "rejected"
    BY <2>3 DEF CallOK, Reviewed, Topic
  <2>5. ASSUME NEW k \in DOMAIN call, k # n, Topic(state, k) = ran[n]
        PROVE  ran[k] = 0 /\ state[k].approval # "rejected"
    <3>1. call[k].thread = t
      <4>1. Topic(state, k) \in OnThread(call, call[k].thread)
        BY <2>1, TopicFacts
      <4>2. Topic(state, n) \in OnThread(call, t)
        BY <2>1, TopicFacts
      <4> QED
        BY <4>1, <4>2, <2>4, <2>5 DEF OnThread
    <3> QED
      BY <3>1, <2>2, <2>5 DEF Once, OnThread
  <2>6. ASSUME NEW k \in DOMAIN call, k # n PROVE ran[k] # ran[n]
    <3>1. ran[k] # 0 => ran[k] = Topic(state, k)
      BY <2>1 DEF GoodInv, CallOK, Topic
    <3> QED
      BY <3>1, <2>5, <2>6
  <2>7. ~Rejected(ran[n])
    <3> SUFFICES ASSUME NEW k \in DOMAIN call, state[k].approval = "rejected",
                        Message(k) = ran[n]
                 PROVE  FALSE
      BY DEF Rejected
    <3>1. Topic(state, k) = ran[n]
      BY DEF Message, Topic
    <3> QED
      BY <3>1, <2>4, <2>5
  <2> QED
    BY <2>6, <2>7
<1> QED
  BY <1>1, IInvHolds, PTL
=============================================================================
