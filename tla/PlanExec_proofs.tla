-------------------------- MODULE PlanExec_proofs --------------------------
(***************************************************************************)
(* The executor implements the abstract plan, for every set of plans and   *)
(* every recursion limit.                                                  *)
(***************************************************************************)
EXTENDS PlanExec, NatInduction, FiniteSetTheorems

USE PlanAssumption

LEMMA InitTypeOK == Init => TypeOK
  BY DEF Init, TypeOK, Results

LEMMA ReturnsType == ASSUME NEW s \in Steps PROVE Returns(s) \subseteq Results
  BY DEF Returns, Results

LEMMA NextTypeOK == TypeOK /\ [Next]_vars => TypeOK'
<1> SUFFICES ASSUME TypeOK, [Next]_vars PROVE TypeOK'
  OBVIOUS
<1>1. CASE MakePlan
  BY <1>1 DEF MakePlan, Roots, TypeOK
<1>2. CASE EndSuperstep
  <2>1. /\ outputs' \in [Steps -> Results]
        /\ toolCalls' \in [Steps -> Nat]
        /\ ranAt' \in [Steps -> Nat]
        /\ heard' \in [Steps -> SUBSET Steps]
        /\ writes' \in [Steps -> Results]
    BY <1>2 DEF EndSuperstep, MergeStepOutputs, ResetHeard, HeardBy, TypeOK,
                Results, PlanType
  <2>2. status' \in {"running", "finished", "exhausted"}
    BY <1>2 DEF EndSuperstep
  <2>3. superstep' \in 0..StepLimit
    BY <1>2 DEF EndSuperstep, OutOfSteps, TypeOK
  <2>4. tasks' \subseteq plan'.ids /\ plan' \in PlanType
    BY <1>2 DEF EndSuperstep, Triggered, TypeOK
  <2>5. QED
    BY <2>1, <2>2, <2>3, <2>4 DEF TypeOK
<1>3. ASSUME NEW s \in Steps, RunNode(s) PROVE TypeOK'
  BY <1>3, ReturnsType DEF RunNode, TypeOK
<1>4. CASE UNCHANGED vars
  BY <1>4 DEF vars, TypeOK
<1>5. QED
  BY <1>1, <1>2, <1>3, <1>4 DEF Next

\* Every variable keeps its type; in particular the superstep counter never
\* passes the recursion limit.
THEOREM TypeCorrect == Spec => []TypeOK
  BY InitTypeOK, NextTypeOK, PTL DEF Spec

-----------------------------------------------------------------------------
(* The invariant: what a join has heard is exactly which of its parents     *)
(* have run, until it fires, and then nothing, so it never fires again.     *)

Done == {s \in Steps : ranAt[s] # 0}

ExecInv ==
  /\ TypeOK
  /\ status # "running" => tasks = {}
  /\ status = "received" => /\ Done = {}
                            /\ \A s \in Steps : heard[s] = {}
  /\ status = "running" => superstep # 0
  /\ tasks \cap Done = {}
  /\ \A s \in Done \cup tasks : plan.deps[s] \subseteq Done /\ heard[s] = {}
  /\ status = "running" =>
       \A s \in plan.ids \ (Done \cup tasks) :
         /\ heard[s] = plan.deps[s] \cap Done
         /\ heard[s] # plan.deps[s]
  /\ \A s \in Steps : toolCalls[s] = IF s \in Done THEN 1 ELSE 0

LEMMA InitExecInv == Init => ExecInv
  BY InitTypeOK DEF Init, ExecInv, Done

\* The nodes a barrier triggers have not run, and their parents have.
LEMMA TriggeredAreNew ==
  ASSUME ExecInv, status = "running", NEW s \in Triggered
  PROVE  /\ s \in plan.ids \ (Done \cup tasks)
         /\ plan.deps[s] \subseteq Done \cup tasks
<1>1. s \in plan.ids /\ plan.deps[s] # {} /\ HeardBy(s) = plan.deps[s]
  BY DEF Triggered
<1>2. s \notin Done \cup tasks
  <2>1. SUFFICES ASSUME s \in Done \cup tasks PROVE FALSE
    OBVIOUS
  <2>2. plan.deps[s] \subseteq Done /\ heard[s] = {} /\ tasks \cap Done = {}
    BY <2>1 DEF ExecInv
  <2>3. HeardBy(s) = {}
    BY <2>2 DEF HeardBy
  <2>4. QED
    BY <1>1, <2>3
<1>3. heard[s] = plan.deps[s] \cap Done
  BY <1>1, <1>2 DEF ExecInv
<1>4. QED
  BY <1>1, <1>2, <1>3 DEF HeardBy

\* A barrier adds the tasks of its superstep to what has run.
LEMMA BarrierAddsTasks ==
  ASSUME ExecInv, EndSuperstep
  PROVE  Done' = Done \cup tasks /\ tasks \subseteq Steps /\ status = "running"
<1>1. status = "running" /\ superstep \in Nat /\ superstep # 0
  BY DEF EndSuperstep, ExecInv, TypeOK
<1>2. tasks \subseteq Steps
  BY DEF ExecInv, TypeOK, PlanType
<1>3. QED
  BY <1>1, <1>2 DEF EndSuperstep, Done

LEMMA NextExecInv == ExecInv /\ [Next]_vars => ExecInv'
<1> SUFFICES ASSUME ExecInv, [Next]_vars PROVE ExecInv'
  OBVIOUS
<1>0. TypeOK /\ TypeOK'
  BY NextTypeOK DEF ExecInv
<1>1. CASE MakePlan
  <2>1. /\ status = "received" /\ Done' = Done /\ Done = {}
        /\ UNCHANGED <<plan, heard, toolCalls>>
        /\ \A s \in Steps : heard[s] = {}
    BY <1>1 DEF MakePlan, Done, ExecInv
  <2>2. CASE ~Valid(plan)
    BY <1>0, <1>1, <2>1, <2>2 DEF MakePlan, ExecInv
  <2>3. CASE Valid(plan)
    <3>1. tasks' = Roots /\ status' = "running" /\ superstep' = 1
      BY <1>1, <2>3 DEF MakePlan
    <3>2. \A s \in plan.ids : s \in Steps
      BY <1>0 DEF TypeOK, PlanType
    <3>3. \A s \in Roots : s \in plan.ids /\ plan.deps[s] = {}
      BY DEF Roots
    <3>4. \A s \in plan.ids \ Roots : plan.deps[s] # {}
      BY DEF Roots
    <3>5. \A s \in Done' \cup tasks' : plan'.deps[s] \subseteq Done' /\ heard'[s] = {}
      BY <2>1, <3>1, <3>2, <3>3
    <3>6. \A s \in plan'.ids \ (Done' \cup tasks') :
            heard'[s] = plan'.deps[s] \cap Done' /\ heard'[s] # plan'.deps[s]
      BY <2>1, <3>1, <3>2, <3>4
    <3>7. \A s \in Steps : toolCalls'[s] = IF s \in Done' THEN 1 ELSE 0
      BY <2>1 DEF ExecInv
    <3>8. status' = "running" /\ superstep' # 0 /\ tasks' \cap Done' = {}
      BY <2>1, <3>1
    <3>9. QED
      BY <1>0, <3>5, <3>6, <3>7, <3>8 DEF ExecInv
  <2>4. QED
    BY <2>2, <2>3
<1>2. CASE EndSuperstep
  <2>1. Done' = Done \cup tasks /\ tasks \subseteq Steps /\ status = "running"
    BY <1>2, BarrierAddsTasks
  <2>2. /\ plan' = plan
        /\ heard' = [s \in Steps |-> IF s \in Triggered THEN {} ELSE HeardBy(s)]
        /\ toolCalls' = [s \in Steps |-> IF s \in tasks THEN toolCalls[s] + 1
                                                        ELSE toolCalls[s]]
    BY <1>2 DEF EndSuperstep, ResetHeard
  <2>3. tasks' = {} \/ tasks' = Triggered
    BY <1>2 DEF EndSuperstep
  <2>4. \A s \in Triggered : /\ s \in plan.ids \ Done'
                             /\ plan.deps[s] \subseteq Done'
    BY <2>1, TriggeredAreNew
  <2>5. status' # "running" => tasks' = {}
    BY <1>2, <2>1 DEF EndSuperstep
  <2>6. status' # "received" /\ (status' = "running" => superstep' # 0)
    BY <1>2, <1>0, <2>1 DEF EndSuperstep, TypeOK
  <2>7. tasks' \cap Done' = {}
    BY <2>3, <2>4
  <2>8. \A s \in Done' : plan.deps[s] \subseteq Done' /\ heard'[s] = {}
    <3> TAKE s \in Done'
    <3>1. s \in Steps /\ plan.deps[s] \subseteq Done /\ heard[s] = {}
      BY <2>1 DEF ExecInv, Done
    <3>2. HeardBy(s) = {}
      BY <3>1 DEF HeardBy, ExecInv
    <3>3. QED
      BY <2>1, <2>2, <3>1, <3>2
  <2>9. \A s \in tasks' : plan.deps[s] \subseteq Done' /\ heard'[s] = {}
    <3>1. \A s \in Triggered : s \in Steps
      BY <1>0, <2>4 DEF TypeOK, PlanType
    <3>2. QED
      BY <2>2, <2>3, <2>4, <3>1
  <2>10. status' = "running" =>
           \A s \in plan.ids \ (Done' \cup tasks') :
             heard'[s] = plan.deps[s] \cap Done' /\ heard'[s] # plan.deps[s]
    <3> SUFFICES ASSUME status' = "running",
                        NEW s \in plan.ids \ (Done' \cup tasks')
                 PROVE  /\ heard'[s] = plan.deps[s] \cap Done'
                        /\ heard'[s] # plan.deps[s]
      OBVIOUS
    <3>1. tasks' = Triggered
      BY <1>2 DEF EndSuperstep
    <3>2. s \in Steps /\ s \notin Triggered /\ s \notin Done \cup tasks
      BY <1>0, <2>1, <3>1 DEF TypeOK, PlanType
    <3>3. heard[s] = plan.deps[s] \cap Done /\ heard[s] # plan.deps[s]
      BY <2>1, <3>2 DEF ExecInv
    <3>4. heard'[s] = HeardBy(s) /\ HeardBy(s) = plan.deps[s] \cap Done'
      BY <2>1, <2>2, <3>2, <3>3 DEF HeardBy
    <3>5. plan.deps[s] # {} /\ HeardBy(s) # plan.deps[s]
      BY <3>2, <3>3 DEF Triggered
    <3>6. QED
      BY <3>4, <3>5
  <2>11. \A s \in Steps : toolCalls'[s] = IF s \in Done' THEN 1 ELSE 0
    <3> TAKE s \in Steps
    <3>1. toolCalls[s] = (IF s \in Done THEN 1 ELSE 0) /\ tasks \cap Done = {}
      BY DEF ExecInv
    <3>2. QED
      BY <2>1, <2>2, <3>1
  <2>12. QED
    BY <1>0, <2>2, <2>5, <2>6, <2>7, <2>8, <2>9, <2>10, <2>11 DEF ExecInv
<1>3. ASSUME NEW s \in Steps, RunNode(s) PROVE ExecInv'
  <2>1. Done' = Done
    BY <1>3 DEF RunNode, Done
  <2>2. QED
    BY <1>0, <1>3, <2>1 DEF RunNode, ExecInv
<1>4. CASE UNCHANGED vars
  <2>1. Done' = Done
    BY <1>4 DEF vars, Done
  <2>2. QED
    BY <1>0, <1>4, <2>1 DEF vars, ExecInv
<1>5. QED
  BY <1>1, <1>2, <1>3, <1>4 DEF Next

LEMMA ExecInvHolds == Spec => []ExecInv
  BY InitExecInv, NextExecInv, PTL DEF Spec

\* Every step's node fires at most once, however many parents it has.
THEOREM StepsRunAtMostOnce == Spec => [](\A s \in Steps : toolCalls[s] <= 1)
<1>1. ExecInv => \A s \in Steps : toolCalls[s] <= 1
  <2>1. ASSUME ExecInv, NEW s \in Steps PROVE toolCalls[s] <= 1
    <3>1. toolCalls[s] = 0 \/ toolCalls[s] = 1
      BY <2>1 DEF ExecInv
    <3> QED BY <3>1
  <2> QED BY <2>1
<1>2. QED
  BY <1>1, ExecInvHolds, PTL

\* The executor implements the abstract plan: the superstep that ends is the
\* abstract step of its tasks, everything else stutters.
THEOREM Implementation == Spec => ImplementsPlanDag
<1>1. Init => Dag!Init
  BY DEF Init, Dag!Init
<1>2. ExecInv /\ [Next]_vars => [Dag!Next]_(Dag!dagVars)
  <2> SUFFICES ASSUME ExecInv, [Next]_vars
               PROVE  Dag!Next \/ UNCHANGED <<plan, Done>>
    BY DEF Dag!dagVars, Done
  <2>1. CASE EndSuperstep
    <3>1. /\ Done' = Done \cup tasks /\ plan' = plan
          /\ tasks \in SUBSET plan.ids /\ tasks \cap Done = {}
          /\ \A s \in tasks : plan.deps[s] \subseteq Done
      BY <2>1, BarrierAddsTasks DEF ExecInv, TypeOK, EndSuperstep
    <3>2. PICK S \in SUBSET plan.ids : S = tasks
      BY <3>1
    <3>3. Dag!RunSteps(S)
      BY <3>1, <3>2 DEF Dag!RunSteps, Done
    <3>4. QED
      BY <3>3 DEF Dag!Next
  <2>2. CASE MakePlan
    BY <2>2 DEF MakePlan, Done
  <2>3. ASSUME NEW s \in Steps, RunNode(s)
        PROVE  UNCHANGED <<plan, Done>>
    BY <2>3 DEF RunNode, Done
  <2>4. CASE UNCHANGED vars
    BY <2>4 DEF vars, Done
  <2>5. QED
    BY <2>1, <2>2, <2>3, <2>4 DEF Next
<1>3. QED
  BY <1>1, <1>2, ExecInvHolds, PTL DEF Spec, ImplementsPlanDag, Dag!Spec


-----------------------------------------------------------------------------
(* Kahn's rounds.                                                          *)

\* The steps of R that wait for another one of R.
Waiting(p, R) == {s \in R : p.deps[s] \cap R # {}}

\* f is the function that the first n rounds define.
IsRounds(f, p, n) ==
  f = [i \in 0..n |-> IF i = 0 THEN p.ids ELSE Waiting(p, f[i - 1])]

LEMMA RoundsExist ==
  ASSUME NEW p, NEW n \in Nat
  PROVE  \E f : IsRounds(f, p, n)
<1> DEFINE g == [R \in SUBSET p.ids |-> Waiting(p, R)]
           S == {i \in Nat : \E f \in [0..i -> SUBSET p.ids] : IsRounds(f, p, i)}
<1>1. 0 \in S
  <2> DEFINE f == [i \in 0..0 |-> p.ids]
  <2>1. \A i \in 0..0 : i = 0
    OBVIOUS
  <2> QED BY <2>1 DEF IsRounds
<1>2. ASSUME NEW i \in Nat, i \in S PROVE i + 1 \in S
  <2>1. PICK f \in [0..i -> SUBSET p.ids] : IsRounds(f, p, i)
    BY <1>2
  <2> DEFINE h == [j \in 0..(i + 1) |-> IF j = i + 1 THEN Waiting(p, f[i]) ELSE f[j]]
  <2>2. Waiting(p, f[i]) \subseteq p.ids
    BY i \in 0..i DEF Waiting
  <2>3. h \in [0..(i + 1) -> SUBSET p.ids]
    BY <2>2
  <2>4. \A j \in 0..i : f[j] = IF j = 0 THEN p.ids ELSE Waiting(p, f[j - 1])
    BY <2>1 DEF IsRounds
  <2>5. ASSUME NEW j \in 0..(i + 1)
        PROVE  h[j] = IF j = 0 THEN p.ids ELSE Waiting(p, h[j - 1])
    <3>1. CASE j = 0
      BY <3>1, <2>4
    <3>2. CASE j \in 1..i
      <4>1. j # 0 /\ j # i + 1 /\ j - 1 # i + 1 /\ j - 1 \in 0..(i + 1) /\ j \in 0..i
        BY <3>2
      <4>2. h[j] = f[j] /\ h[j - 1] = f[j - 1]
        BY <4>1
      <4> HIDE DEF h
      <4> QED BY <4>1, <4>2, <2>4
    <3>3. CASE j = i + 1
      <4>1. j # 0 /\ j - 1 = i /\ i \in 0..(i + 1) /\ i # i + 1
        BY <3>3
      <4>2. h[j] = Waiting(p, f[i]) /\ h[j - 1] = f[i]
        BY <4>1, <3>3
      <4> HIDE DEF h
      <4> QED BY <4>1, <4>2
    <3> QED BY <3>1, <3>2, <3>3
  <2>6. h = [j \in 0..(i + 1) |-> h[j]]
    OBVIOUS
  <2>7. IsRounds(h, p, i + 1)
    <3> HIDE DEF h
    <3> QED BY <2>5, <2>6 DEF IsRounds
  <2> HIDE DEF h
  <2> QED BY <2>3, <2>7
<1>3. Nat \subseteq S
  <2> HIDE DEF S
  <2> QED BY <1>1, <1>2, SetInduction
<1> QED BY <1>3

LEMMA RoundsAgree ==
  ASSUME NEW p, NEW m \in Nat, NEW n \in Nat, NEW f, NEW h,
         IsRounds(f, p, m), IsRounds(h, p, n)
  PROVE  \A i \in Nat : i <= m /\ i <= n => f[i] = h[i]
<1> DEFINE S == {i \in Nat : i <= m /\ i <= n => f[i] = h[i]}
<1>0. /\ \A i \in 0..m : f[i] = IF i = 0 THEN p.ids ELSE Waiting(p, f[i - 1])
      /\ \A i \in 0..n : h[i] = IF i = 0 THEN p.ids ELSE Waiting(p, h[i - 1])
  BY DEF IsRounds
<1>1. 0 \in S
  BY <1>0
<1>2. ASSUME NEW i \in Nat, i \in S PROVE i + 1 \in S
  <2>1. SUFFICES ASSUME i + 1 <= m, i + 1 <= n PROVE f[i + 1] = h[i + 1]
    OBVIOUS
  <2>2. f[i] = h[i]
    BY <1>2, <2>1
  <2>3. i + 1 \in 0..m /\ i + 1 \in 0..n /\ i + 1 # 0 /\ i + 1 - 1 = i
    BY <2>1
  <2> QED BY <2>2, <2>3, <1>0
<1>3. Nat \subseteq S
  <2> HIDE DEF S
  <2> QED BY <1>1, <1>2, SetInduction
<1> QED BY <1>3

LEMMA RemainingIsRounds ==
  ASSUME NEW p, NEW n \in Nat
  PROVE  \E f : IsRounds(f, p, n) /\ Remaining(p, n) = f[n]
<1> DEFINE rem == CHOOSE f : IsRounds(f, p, n)
<1>1. IsRounds(rem, p, n)
  BY RoundsExist
<1>2. Remaining(p, n) = rem[n]
  BY DEF Remaining, IsRounds, Waiting
<1> QED BY <1>1, <1>2

\* A round leaves the steps that still wait for a step of this round.
LEMMA RemainingStep ==
  ASSUME NEW p
  PROVE  /\ Remaining(p, 0) = p.ids
         /\ \A n \in Nat : Remaining(p, n + 1) = Waiting(p, Remaining(p, n))
<1>1. Remaining(p, 0) = p.ids
  BY RemainingIsRounds DEF IsRounds
<1>2. ASSUME NEW n \in Nat
      PROVE  Remaining(p, n + 1) = Waiting(p, Remaining(p, n))
  <2>1. PICK f : IsRounds(f, p, n) /\ Remaining(p, n) = f[n]
    BY RemainingIsRounds
  <2>2. PICK h : IsRounds(h, p, n + 1) /\ Remaining(p, n + 1) = h[n + 1]
    BY RemainingIsRounds
  <2>3. f[n] = h[n]
    BY <2>1, <2>2, RoundsAgree
  <2>4. h[n + 1] = Waiting(p, h[n])
    BY <2>2 DEF IsRounds
  <2> QED BY <2>1, <2>2, <2>3, <2>4
<1> QED BY <1>1, <1>2

\* The rounds only take steps out.
LEMMA RemainingShrinks ==
  ASSUME NEW p, NEW m \in Nat, NEW n \in Nat, m <= n
  PROVE  Remaining(p, n) \subseteq Remaining(p, m)
<1> DEFINE S == {i \in Nat : m <= i => Remaining(p, i) \subseteq Remaining(p, m)}
<1>1. 0 \in S
  OBVIOUS
<1>2. ASSUME NEW i \in Nat, i \in S PROVE i + 1 \in S
  <2>1. Remaining(p, i + 1) \subseteq Remaining(p, i)
    BY RemainingStep DEF Waiting
  <2>2. CASE m <= i
    BY <1>2, <2>1, <2>2
  <2>3. CASE ~(m <= i)
    <3>1. m <= i + 1 => m = i + 1
      BY <2>3
    <3> QED BY <3>1
  <2> QED BY <2>2, <2>3
<1>3. Nat \subseteq S
  <2> HIDE DEF S
  <2> QED BY <1>1, <1>2, SetInduction
<1> QED BY <1>3

\* A round that takes no step out is followed by no other that does.
LEMMA RemainingStays ==
  ASSUME NEW p, NEW m \in Nat, NEW n \in Nat, m <= n,
         Remaining(p, m + 1) = Remaining(p, m)
  PROVE  Remaining(p, n) = Remaining(p, m)
<1> DEFINE S == {i \in Nat : m <= i => Remaining(p, i) = Remaining(p, m)}
<1>1. 0 \in S
  OBVIOUS
<1>2. ASSUME NEW i \in Nat, i \in S PROVE i + 1 \in S
  <2>1. CASE m <= i
    <3>1. Remaining(p, i) = Remaining(p, m)
      BY <1>2, <2>1
    <3>2. /\ Remaining(p, i + 1) = Waiting(p, Remaining(p, i))
          /\ Remaining(p, m + 1) = Waiting(p, Remaining(p, m))
      BY RemainingStep
    <3>3. Remaining(p, i + 1) = Remaining(p, m)
      BY <3>1, <3>2
    <3> QED BY <3>3
  <2>2. CASE ~(m <= i)
    <3>1. m <= i + 1 => m = i + 1
      BY <2>2
    <3> QED BY <3>1
  <2> QED BY <2>1, <2>2
<1>3. Nat \subseteq S
  <2> HIDE DEF S
  <2> QED BY <1>1, <1>2, SetInduction
<1> QED BY <1>3

\* Steps that wait for one another in a circle are never taken out.
LEMMA CircleStays ==
  ASSUME NEW p, NEW C, C \subseteq p.ids, \A s \in C : p.deps[s] \cap C # {},
         NEW n \in Nat
  PROVE  C \subseteq Remaining(p, n)
<1> DEFINE S == {i \in Nat : C \subseteq Remaining(p, i)}
<1>1. 0 \in S
  BY RemainingStep
<1>2. ASSUME NEW i \in Nat, i \in S PROVE i + 1 \in S
  BY <1>2, RemainingStep DEF Waiting
<1>3. Nat \subseteq S
  <2> HIDE DEF S
  <2> QED BY <1>1, <1>2, SetInduction
<1> QED BY <1>3

\* Without such a circle every round takes a step out, so that after as many
\* rounds as there are steps none is left.
LEMMA NoCircleEmpties ==
  ASSUME NEW p, IsFiniteSet(p.ids),
         ~ \E C \in (SUBSET p.ids) \ {{}} : \A s \in C : p.deps[s] \cap C # {}
  PROVE  Remaining(p, Cardinality(p.ids)) = {}
<1> DEFINE N == Cardinality(p.ids)
           S == {i \in Nat : i <= N => /\ IsFiniteSet(Remaining(p, i))
                                       /\ Cardinality(Remaining(p, i)) <= N - i}
<1>0. N \in Nat
  BY FS_CardinalityType
<1>1. 0 \in S
  BY <1>0, RemainingStep
<1>2. ASSUME NEW i \in Nat, i \in S PROVE i + 1 \in S
  <2> DEFINE R == Remaining(p, i)
             Q == Remaining(p, i + 1)
  <2> SUFFICES ASSUME i + 1 <= N
               PROVE  IsFiniteSet(Q) /\ Cardinality(Q) <= N - (i + 1)
    OBVIOUS
  <2>1. IsFiniteSet(R) /\ Cardinality(R) <= N - i
    BY <1>2, <1>0
  <2>2. Q = Waiting(p, R)
    BY RemainingStep
  <2>3. Q \in SUBSET R
    BY <2>2 DEF Waiting
  <2>4. R \in SUBSET p.ids
    <3>1. R \subseteq Remaining(p, 0)
      BY RemainingShrinks
    <3> QED BY <3>1, RemainingStep
  <2> HIDE DEF R, Q, N
  <2>5. /\ IsFiniteSet(Q) /\ Cardinality(Q) \in Nat /\ Cardinality(R) \in Nat
        /\ Cardinality(Q) <= Cardinality(R)
        /\ Cardinality(Q) = Cardinality(R) => Q = R
    BY <2>1, <2>3, FS_Subset, FS_CardinalityType
  <2>6. CASE Q = R
    <3>1. R = {}
      BY <2>6, <2>2, <2>4 DEF Waiting
    <3>2. Cardinality(Q) = 0
      BY <3>1, <2>6, FS_EmptySet
    <3> QED BY <2>5, <3>2, <1>0
  <2>7. CASE Q # R
    BY <2>1, <2>5, <2>7, <1>0
  <2> QED BY <2>6, <2>7
<1>3. Nat \subseteq S
  <2> HIDE DEF S
  <2> QED BY <1>1, <1>2, SetInduction
<1>4. IsFiniteSet(Remaining(p, N)) /\ Cardinality(Remaining(p, N)) <= 0
  <2> HIDE DEF N
  <2> QED BY <1>0, <1>3
<1> QED BY <1>4, FS_EmptySet, FS_CardinalityType

\* The two readings of what a good plan is agree: every step gets visited
\* exactly when no steps wait for one another in a circle.
LEMMA ValidIsAcyclic ==
  ASSUME NEW p, IsFiniteSet(p.ids)
  PROVE  Valid(p) <=>
           /\ p.malformed = {} /\ p.twice = {}
           /\ \A s \in p.ids : p.deps[s] \subseteq p.ids
           /\ ~ \E C \in (SUBSET p.ids) \ {{}} : \A s \in C : p.deps[s] \cap C # {}
<1>1. Cardinality(p.ids) \in Nat
  BY FS_CardinalityType
<1>2. ASSUME Valid(p), NEW C \in (SUBSET p.ids) \ {{}},
             \A s \in C : p.deps[s] \cap C # {}
      PROVE  FALSE
  <2>1. C \subseteq Remaining(p, Cardinality(p.ids))
    BY <1>1, <1>2, CircleStays
  <2>2. Remaining(p, Cardinality(p.ids)) = {} /\ C # {}
    BY <1>2 DEF Valid
  <2> HIDE <1>2
  <2> QED BY <2>1, <2>2
<1> QED BY <1>2, NoCircleEmpties DEF Valid

-----------------------------------------------------------------------------
(* The second invariant: the supersteps are the layers.  It is what makes   *)
(* "a step runs in its layer" inductive: what has run is what the rounds    *)
(* before this superstep took out, the tasks are what this round takes out, *)
(* and a finished run has come to the round that takes out nothing.         *)

\* Step s, run in the n-th superstep, refers to an output that is not there.
Lacks(s, n) ==
  /\ plan.kind[s] = "read"
  /\ \E t \in plan.refs[s] : t \notin plan.ids \ Remaining(plan, n - 1)

LayersInv ==
  /\ plan \in Plans
  /\ status = "received" => \A s \in Steps : writes[s] = "none"
  /\ status \notin {"received", "rejected"} => Valid(plan)
  /\ status = "rejected" => ~Valid(plan)
  /\ Done \subseteq plan.ids
  /\ \A s \in Steps : outputs[s] # "none" <=> ranAt[s] # 0
  /\ \A s \in Done : /\ s \in Layer(plan, ranAt[s])
                     /\ outputs[s] = "missing" <=> Lacks(s, ranAt[s])
  /\ \A s \in tasks :
       writes[s] # "none" => (writes[s] = "missing" <=> Lacks(s, superstep))
  /\ status = "running" =>
       /\ Done = plan.ids \ Remaining(plan, superstep - 1)
       /\ tasks = Layer(plan, superstep) /\ tasks # {}
  /\ status = "finished" => plan.ids \subseteq Done
  /\ status = "exhausted" => Remaining(plan, StepLimit - 1) # {}

LEMMA InitLayersInv == Init => LayersInv
  BY DEF Init, LayersInv, Done

\* The roots are the first layer.
LEMMA RootsAreLayerOne == Valid(plan) => Roots = Layer(plan, 1)
<1>1. Remaining(plan, 0) = plan.ids
  BY RemainingStep
<1>2. Remaining(plan, 1) = Waiting(plan, plan.ids)
  <2>1. 0 \in Nat /\ 0 + 1 = 1
    OBVIOUS
  <2> QED BY <1>1, <2>1, RemainingStep
<1>3. 1 - 1 = 0
  OBVIOUS
<1>4. ASSUME Valid(plan), NEW s \in plan.ids
      PROVE  plan.deps[s] = {} <=> plan.deps[s] \cap plan.ids = {}
  BY <1>4 DEF Valid
<1> QED BY <1>1, <1>2, <1>3, <1>4 DEF Roots, Layer, Waiting

\* At a barrier the nodes triggered are the next layer.
LEMMA TriggeredIsLayer ==
  ASSUME ExecInv, LayersInv, EndSuperstep
  PROVE  /\ superstep \in Nat \ {0}
         /\ Done \cup tasks = plan.ids \ Remaining(plan, superstep)
         /\ Triggered = Layer(plan, superstep + 1)
<1>0. superstep \in Nat \ {0} /\ status = "running" /\ Valid(plan)
  BY DEF EndSuperstep, ExecInv, TypeOK, LayersInv
<1> DEFINE k == superstep
<1>1. /\ Remaining(plan, k) \subseteq Remaining(plan, k - 1)
      /\ Remaining(plan, k - 1) \subseteq plan.ids
  <2>1. k - 1 \in Nat /\ k \in Nat /\ 0 \in Nat /\ k - 1 <= k /\ 0 <= k - 1
    BY <1>0
  <2> HIDE DEF k
  <2> QED BY <2>1, RemainingShrinks, RemainingStep
<1>2. Done \cup tasks = plan.ids \ Remaining(plan, k)
  BY <1>0, <1>1 DEF LayersInv, Layer
<1>3. k + 1 - 1 = k /\ k \in Nat
  BY <1>0
<1>4. Remaining(plan, k + 1) = Waiting(plan, Remaining(plan, k))
  BY <1>3, RemainingStep
<1>5. Layer(plan, k + 1) = {s \in Remaining(plan, k) :
                              plan.deps[s] \cap Remaining(plan, k) = {}}
  BY <1>3, <1>4 DEF Layer, Waiting
<1>6. Remaining(plan, k) = plan.ids \ (Done \cup tasks)
  BY <1>1, <1>2
<1>7. ASSUME NEW s \in plan.ids \ (Done \cup tasks)
      PROVE  s \in Triggered <=> plan.deps[s] \cap Remaining(plan, k) = {}
  <2>1. heard[s] = plan.deps[s] \cap Done /\ heard[s] # plan.deps[s]
    BY <1>0, <1>7 DEF ExecInv
  <2>2. plan.deps[s] \subseteq plan.ids /\ plan.deps[s] # {}
    BY <1>0, <2>1 DEF Valid
  <2>3. HeardBy(s) = plan.deps[s] \cap (Done \cup tasks)
    BY <2>1 DEF HeardBy
  <2> QED BY <2>2, <2>3, <1>6 DEF Triggered
<1>8. \A s \in Triggered : s \in plan.ids \ (Done \cup tasks)
  BY <1>0, TriggeredAreNew
<1>9. Triggered = Layer(plan, k + 1)
  BY <1>5, <1>6, <1>7, <1>8
<1> QED BY <1>0, <1>2, <1>9

\* When a round takes out nothing, nothing is left.
LEMMA EmptyLayerIsLast ==
  ASSUME NEW p, Valid(p), IsFiniteSet(p.ids), NEW n \in Nat,
         Layer(p, n + 1) = {}
  PROVE  Remaining(p, n) = {}
<1> DEFINE N == Cardinality(p.ids)
<1>1. N \in Nat /\ Remaining(p, N) = {}
  BY FS_CardinalityType DEF Valid
<1>2. Remaining(p, n + 1) = Remaining(p, n)
  <2>1. n + 1 - 1 = n
    OBVIOUS
  <2>2. Remaining(p, n + 1) \subseteq Remaining(p, n)
    BY RemainingStep DEF Waiting
  <2>3. Layer(p, n + 1) = Remaining(p, n) \ Remaining(p, n + 1)
    BY <2>1 DEF Layer
  <2> QED BY <2>2, <2>3
<1>3. CASE n <= N
  <2> HIDE DEF N
  <2> QED BY <1>1, <1>2, <1>3, RemainingStays
<1>4. CASE ~(n <= N)
  <2> HIDE DEF N
  <2>1. N <= n
    BY <1>1, <1>4
  <2> QED BY <1>1, <2>1, RemainingShrinks
<1> QED BY <1>3, <1>4

LEMMA NextLayersInv == ExecInv /\ LayersInv /\ [Next]_vars => LayersInv'
<1> SUFFICES ASSUME ExecInv, LayersInv, [Next]_vars PROVE LayersInv'
  OBVIOUS
<1>0. /\ TypeOK /\ TypeOK' /\ plan.ids \subseteq Steps /\ tasks \subseteq Steps
      /\ IsFiniteSet(plan.ids)
  BY NextTypeOK DEF ExecInv, LayersInv, TypeOK, PlanType
<1>1. CASE MakePlan
  <2>1. /\ UNCHANGED <<plan, writes, heard, outputs, toolCalls, ranAt>>
        /\ status = "received" /\ Done = {} /\ Done' = {}
    BY <1>1 DEF MakePlan, ExecInv, Done
  <2>2. \A s \in Steps : writes'[s] = "none"
    BY <2>1 DEF LayersInv
  <2>3. CASE ~Valid(plan)
    <3>1. status' = "rejected" /\ tasks' = tasks /\ tasks = {}
      BY <1>1, <2>1, <2>3 DEF MakePlan, ExecInv
    <3> QED BY <2>1, <2>2, <2>3, <3>1 DEF LayersInv
  <2>4. CASE Valid(plan)
    <3>1. status' = "running" /\ superstep' = 1 /\ tasks' = Layer(plan, 1)
      BY <1>1, <2>4, RootsAreLayerOne DEF MakePlan
    <3>2. Remaining(plan, 1 - 1) = plan.ids
      BY 1 - 1 = 0, RemainingStep
    <3>3. \A s \in tasks' : writes'[s] = "none"
      BY <1>0, <2>1, <2>2 DEF TypeOK, PlanType
    <3>4. tasks' # {}
      <4>1. Remaining(plan, 0) # {}
        BY RemainingStep, PlanAssumption DEF LayersInv
      <4>2. Layer(plan, 0 + 1) # {}
        BY <1>0, <2>4, <4>1, EmptyLayerIsLast
      <4> QED BY <3>1, <4>2
    <3> QED BY <2>1, <2>2, <2>4, <3>1, <3>2, <3>3, <3>4 DEF LayersInv
  <2> QED BY <2>3, <2>4
<1>2. CASE EndSuperstep
  <2>1. /\ Done' = Done \cup tasks /\ plan' = plan /\ status = "running"
        /\ Valid(plan)
    BY <1>2, BarrierAddsTasks DEF EndSuperstep, LayersInv
  <2>2. /\ superstep \in Nat \ {0}
        /\ Done \cup tasks = plan.ids \ Remaining(plan, superstep)
        /\ Triggered = Layer(plan, superstep + 1)
    BY <1>2, TriggeredIsLayer
  <2>3. /\ outputs' = [s \in Steps |-> IF s \in tasks THEN writes[s] ELSE outputs[s]]
        /\ ranAt' = [s \in Steps |-> IF s \in tasks THEN superstep ELSE ranAt[s]]
        /\ writes' = [s \in Steps |-> "none"]
        /\ \A s \in tasks : writes[s] # "none"
    BY <1>2 DEF EndSuperstep, MergeStepOutputs, AllReturned
  <2>4. \A s \in Steps : outputs'[s] # "none" <=> ranAt'[s] # 0
    BY <2>2, <2>3 DEF LayersInv
  <2>5. ASSUME NEW s \in Done'
        PROVE  /\ s \in Layer(plan, ranAt'[s])
               /\ outputs'[s] = "missing" <=> Lacks(s, ranAt'[s])
    <3>1. CASE s \in tasks
      <4>1. ranAt'[s] = superstep /\ outputs'[s] = writes[s] /\ writes[s] # "none"
        BY <1>0, <2>3, <3>1
      <4>2. s \in Layer(plan, superstep)
        BY <2>1, <3>1 DEF LayersInv
      <4> QED BY <3>1, <4>1, <4>2 DEF LayersInv
    <3>2. CASE s \notin tasks
      <4>1. s \in Done /\ s \in Steps
        BY <2>1, <3>2, <1>0 DEF Done
      <4>2. ranAt'[s] = ranAt[s] /\ outputs'[s] = outputs[s]
        BY <2>3, <3>2, <4>1
      <4> QED BY <4>1, <4>2 DEF LayersInv
    <3> QED BY <3>1, <3>2
  <2>6. \A s \in Done' : /\ s \in Layer(plan', ranAt'[s])
                         /\ outputs'[s] = "missing" <=> Lacks(s, ranAt[s])'
    BY <2>1, <2>5 DEF Lacks
  <2>7. tasks' \subseteq Steps
    <3>1. \A s \in Triggered : s \in Steps
      BY <1>0 DEF Triggered
    <3> QED BY <1>2, <3>1 DEF EndSuperstep
  <2>8. \A s \in tasks' : writes'[s] = "none"
    BY <2>3, <2>7
  <2>9. Done' \subseteq plan'.ids
    BY <1>0, <2>1 DEF LayersInv, TypeOK
  <2>10. CASE status' = "finished"
    <3>1. Triggered = {} /\ tasks' = {}
      BY <1>2, <2>1, <2>10 DEF EndSuperstep
    <3>2. Remaining(plan, superstep) = {}
      BY <1>0, <2>1, <2>2, <3>1, EmptyLayerIsLast
    <3>3. plan'.ids \subseteq Done'
      BY <2>1, <2>2, <3>2
    <3> QED BY <2>1, <2>4, <2>6, <2>9, <2>10, <3>1, <3>3 DEF LayersInv
  <2>11. CASE status' = "exhausted"
    <3>1. tasks' = {} /\ superstep = StepLimit
      BY <1>2, <2>1, <2>11 DEF EndSuperstep, OutOfSteps
    <3>2. Remaining(plan, superstep - 1) # {}
      BY <2>1 DEF LayersInv, Layer
    <3> QED BY <2>1, <2>4, <2>6, <2>9, <2>11, <3>1, <3>2 DEF LayersInv
  <2>12. CASE status' = "running"
    <3>1. /\ status' = status /\ tasks' = Triggered /\ superstep' = superstep + 1
          /\ tasks' # {}
      BY <1>2, <2>1, <2>12 DEF EndSuperstep
    <3>2. superstep' - 1 = superstep
      BY <2>2, <3>1
    <3>3. /\ Done' = plan'.ids \ Remaining(plan', superstep' - 1)
          /\ tasks' = Layer(plan', superstep')
      BY <2>1, <2>2, <3>1, <3>2
    <3> QED BY <2>1, <2>4, <2>6, <2>8, <2>9, <3>1, <3>3 DEF LayersInv
  <2>13. status' \in {"finished", "exhausted", "running"}
    BY <1>2, <2>1 DEF EndSuperstep
  <2> QED BY <2>10, <2>11, <2>12, <2>13
<1>3. ASSUME NEW s \in Steps, RunNode(s) PROVE LayersInv'
  <2>1. /\ UNCHANGED <<plan, status, superstep, tasks, heard, outputs, toolCalls, ranAt>>
        /\ Done' = Done /\ s \in tasks /\ status = "running"
    BY <1>3 DEF RunNode, Done, ExecInv
  <2>2. PICK res \in Returns(s) : writes' = [writes EXCEPT ![s] = res]
    BY <1>3 DEF RunNode
  <2>3. Visible = plan.ids \ Remaining(plan, superstep - 1)
    <3>1. Visible = Done
      BY DEF Visible, Done, LayersInv
    <3> QED BY <2>1, <3>1 DEF LayersInv
  <2>4. res = "missing" <=> Lacks(s, superstep)
    <3>1. plan.kind[s] \in Kinds
      BY <1>0 DEF TypeOK, PlanType
    <3> QED BY <2>2, <2>3, <3>1 DEF Returns, Lacks, Kinds
  <2>5. \A t \in tasks : writes'[t] # "none" =>
          (writes'[t] = "missing" <=> Lacks(t, superstep))
    <3> TAKE t \in tasks
    <3>1. CASE t = s
      BY <1>0, <2>2, <2>4, <3>1 DEF TypeOK
    <3>2. CASE t # s
      BY <1>0, <2>2, <3>2 DEF TypeOK, LayersInv
    <3> QED BY <3>1, <3>2
  <2>6. \A t \in Done : outputs[t] = "missing" <=> Lacks(t, ranAt[t])
    BY DEF LayersInv
  <2>7. \A t \in Steps : \A n : Lacks(t, n)' <=> Lacks(t, n)
    BY <2>1 DEF Lacks
  <2> QED BY <1>0, <2>1, <2>5, <2>6, <2>7 DEF LayersInv, Lacks
<1>4. CASE UNCHANGED vars
  BY <1>4 DEF vars, LayersInv, Done, Lacks
<1> QED BY <1>1, <1>2, <1>3, <1>4 DEF Next

LEMMA LayersInvHolds == Spec => [](ExecInv /\ LayersInv)
  BY InitExecInv, InitLayersInv, NextExecInv, NextLayersInv, PTL DEF Spec

\* Whatever order the nodes of a superstep end in, a step runs once, and in
\* the superstep topological_layers gives it.
THEOREM StepsRunInTheirLayers == Spec => []RunsOnceInItsLayer
<1>1. ExecInv /\ LayersInv => RunsOnceInItsLayer
  BY DEF ExecInv, LayersInv, RunsOnceInItsLayer, Done, TypeOK, PlanType
<1> QED BY <1>1, LayersInvHolds, PTL

\* A run that ends with a response has run every step and has an output of
\* each; one that raises had as many layers as the recursion limit.
THEOREM ResponsesAreComplete == Spec => []FinishedIsComplete
<1>1. ExecInv /\ LayersInv => FinishedIsComplete
  BY DEF ExecInv, LayersInv, FinishedIsComplete, Done, TypeOK, PlanType
<1> QED BY <1>1, LayersInvHolds, PTL

\* The layers of the plan decide which step finds what it refers to.
THEOREM InputsFollowTheLayers == Spec => []InputsDecidedByLayers
<1>1. TypeOK /\ LayersInv => InputsDecidedByLayers
  <2> SUFFICES ASSUME TypeOK, LayersInv, NEW s \in plan.ids, ranAt[s] # 0
               PROVE  outputs[s] = "missing" <=> Lacks(s, ranAt[s])
    BY DEF InputsDecidedByLayers, Lacks
  <2>1. s \in Done
    BY DEF TypeOK, PlanType, Done
  <2> QED BY <2>1 DEF LayersInv
<1> QED BY <1>1, LayersInvHolds, PTL DEF ExecInv

\* make_plan refuses exactly the plans with a malformed step, an id that is
\* there twice or a dangling or circular dependency, of any size.
THEOREM RefusesExactlyBadPlans == Spec => []RefusedExactlyWhenBroken
<1>1. LayersInv /\ TypeOK => RefusedExactlyWhenBroken
  <2> SUFFICES ASSUME LayersInv, TypeOK, status # "received"
               PROVE  status = "rejected" <=> ~Valid(plan)
    BY ValidIsAcyclic DEF RefusedExactlyWhenBroken, LayersInv
  <2> QED BY DEF LayersInv
<1> QED BY <1>1, LayersInvHolds, PTL DEF ExecInv
=============================================================================
