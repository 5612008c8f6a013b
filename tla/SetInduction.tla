---------------------------- MODULE SetInduction ----------------------------
(***************************************************************************)
(* Induction over the natural numbers with a set in place of a predicate.  *)
(* The proofs about the recursive functions of StreamingCalls and Chat     *)
(* rest on it.                                                             *)
(***************************************************************************)
EXTENDS Integers, FiniteSetTheorems, TLAPS

(* Each number stands for the interval up to it; of a set of finite sets   *)
(* one is minimal under inclusion.                                         *)
LEMMA LeastNumber ==
    ASSUME NEW T, T \subseteq Nat, T # {}
    PROVE  \E x \in T : \A y \in T : x <= y
    <1> DEFINE U == {0 .. x : x \in T}
    <1>1. U \subseteq FiniteSubsetsOf(Nat)
        <2> SUFFICES ASSUME NEW x \in T PROVE 0 .. x \in FiniteSubsetsOf(Nat)
            OBVIOUS
        <2>1. x \in Nat /\ 0 .. x \in SUBSET Nat
            OBVIOUS
        <2>2. IsFiniteSet(0 .. x)
            BY <2>1, FS_Interval
        <2> QED BY <2>1, <2>2 DEF FiniteSubsetsOf
    <1>2. U # {}
        OBVIOUS
    <1>3. \E u \in U : \A v \in U : ~(<<v, u>> \in StrictSubsetOrdering(Nat))
        <2> HIDE DEF U
        <2> QED BY <1>1, <1>2, FS_StrictSubsetOrderingWellFounded, WFMin
    <1>4. PICK x \in T : \A y \in T : ~(<<0 .. y, 0 .. x>> \in StrictSubsetOrdering(Nat))
        BY <1>3
    <1>5. ASSUME NEW y \in T, ~(x <= y)
          PROVE  FALSE
        <2>1. x \in Nat /\ y \in Nat /\ y < x
            BY <1>5
        <2>2. 0 .. y \in SUBSET Nat /\ 0 .. x \in SUBSET Nat /\ 0 .. y \subseteq 0 .. x
            BY <2>1
        <2>3. x \in 0 .. x /\ x \notin 0 .. y
            BY <2>1
        <2> DEFINE p == 0 .. y
                   q == 0 .. x
        <2> HIDE DEF p, q
        <2>4. p # q /\ p \in SUBSET Nat /\ q \in SUBSET Nat /\ p \subseteq q
            BY <2>2, <2>3 DEF p, q
        <2>5. <<p, q>> \in StrictSubsetOrdering(Nat)
            BY <2>4 DEF StrictSubsetOrdering
        <2> QED BY <1>4, <2>5 DEF p, q
    <1> QED BY <1>5

(* A set that holds 0, and with each number the next, holds them all.      *)
LEMMA HoldsForAll ==
    ASSUME NEW T, 0 \in T, \A n \in Nat : n \in T => n + 1 \in T
    PROVE  Nat \subseteq T
    <1> SUFFICES ASSUME Nat \ T # {} PROVE FALSE
        OBVIOUS
    <1>1. PICK x \in Nat \ T : \A y \in Nat \ T : x <= y
        BY LeastNumber
    <1>2. x # 0 /\ x - 1 \in Nat
        BY <1>1
    <1>3. x - 1 \in T
        BY <1>1, <1>2
    <1>4. (x - 1) + 1 = x
        BY <1>1
    <1> QED BY <1>1, <1>2, <1>3, <1>4
=============================================================================
