---------------------------- MODULE NatInduction ----------------------------
(***************************************************************************)
(* Induction on the natural numbers for sets instead of predicates: the    *)
(* induction theorems of the library take an operator, with which none of  *)
(* the provers can do anything, but its WFMin is about a set.              *)
(***************************************************************************)
EXTENDS Integers, WellFoundedInduction, TLAPS

Less == {ss \in Nat \X Nat : ss[1] < ss[2]}

(* Every set of natural numbers has a least element.                       *)
LEMMA Least ==
  ASSUME NEW T, T \subseteq Nat, T # {}
  PROVE  \E n \in T : \A m \in T : n <= m
<1>1. IsWellFoundedOn(Less, Nat)
  BY NatLessThanWellFounded DEF OpToRel, Less
<1>2. PICK n \in T : \A m \in T : ~ (<<m, n>> \in Less)
  BY <1>1, WFMin
<1>3. \A m \in T : m \in Nat /\ n \in Nat /\ (m < n => <<m, n>> \in Less)
  BY DEF Less
<1>4. ASSUME NEW m \in T PROVE n <= m
  <2>1. ~ (<<m, n>> \in Less)
    BY <1>2
  <2>2. m \in Nat /\ n \in Nat /\ (m < n => <<m, n>> \in Less)
    BY <1>3
  <2> QED
    BY <2>1, <2>2
<1> QED
  BY <1>4

(* What holds of 0, and of n + 1 if it does of n, holds of every number.   *)
LEMMA Induct ==
  ASSUME NEW U, 0 \in U, \A n \in Nat : n \in U => n + 1 \in U
  PROVE  Nat \subseteq U
<1> SUFFICES ASSUME Nat \ U # {} PROVE FALSE
  OBVIOUS
<1>1. PICK n \in Nat \ U : \A m \in Nat \ U : n <= m
  BY Least
<1>2. n # 0 /\ n - 1 \in Nat /\ n - 1 \in U
  BY <1>1
<1>3. (n - 1) + 1 = n
  OBVIOUS
<1> QED
  BY <1>2, <1>3
=============================================================================
