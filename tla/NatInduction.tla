---------------------------- MODULE NatInduction ----------------------------
(***************************************************************************)
(* Induction over the naturals, stated with sets where the usual statement *)
(* has a predicate and with functions where it has an operator: a theorem  *)
(* with an operator as its parameter is one the backends cannot use.  The  *)
(* recursive definitions of the models are reasoned about with these.      *)
(***************************************************************************)
EXTENDS Naturals, WellFoundedInduction, TLAPS

\* Every set of naturals that is not empty has a least element.
LEMMA LeastNat ==
  ASSUME NEW T, T \subseteq Nat, T # {}
  PROVE  \E x \in T : \A y \in T : x <= y
<1> DEFINE Less == {ss \in Nat \X Nat : ss[1] < ss[2]}
<1>1. IsWellFoundedOn(Less, Nat)
  BY NatLessThanWellFounded DEF OpToRel
<1>2. PICK x \in T : \A y \in T : ~ (<<y, x>> \in Less)
  <2> HIDE DEF Less
  <2> QED BY <1>1, WFMin
<1>3. ASSUME NEW y \in T, ~(x <= y) PROVE FALSE
  <2>1. x \in Nat /\ y \in Nat
    OBVIOUS
  <2>2. y < x
    BY <1>3, <2>1
  <2>3. <<y, x>> \in Less
    BY <2>1, <2>2
  <2> QED BY <2>3, <1>2
<1>4. QED
  BY <1>3

\* A set of naturals that holds 0 and the successor of all it holds has all.
THEOREM SetInduction ==
  ASSUME NEW S, 0 \in S, \A n \in Nat : n \in S => n + 1 \in S
  PROVE  Nat \subseteq S
<1> SUFFICES ASSUME ~(Nat \subseteq S) PROVE FALSE
  OBVIOUS
<1>1. PICK x \in Nat \ S : \A y \in Nat \ S : x <= y
  <2>1. Nat \ S # {} /\ Nat \ S \subseteq Nat
    OBVIOUS
  <2> QED BY <2>1, LeastNat
<1>2. x # 0 /\ x - 1 \in Nat
  BY <1>1
<1>3. x - 1 \in S
  BY <1>1, <1>2
<1>4. x - 1 + 1 = x
  BY <1>2
<1> QED BY <1>1, <1>2, <1>3, <1>4
=============================================================================
