---------------------------- MODULE NumberLemmas ----------------------------
(***************************************************************************)
(* A fact about the natural numbers that proofs about several modules need *)
(* and the libraries only state with operators as parameters.              *)
(***************************************************************************)
EXTENDS FiniteSetTheorems, TLAPS

\* A set of natural numbers that is not empty has a least element.  The intervals below
\* its elements are finite sets, and these are well-founded by strict inclusion.
LEMMA SmallestNumber ==
  ASSUME NEW S, S \subseteq Nat, S # {}
  PROVE  \E n \in S : \A m \in S : n <= m
<1> DEFINE below(n) == 0 .. n
           T == {below(n) : n \in S}
<1>1. T \subseteq FiniteSubsetsOf(Nat) /\ T # {}
  <2>1. ASSUME NEW n \in S
        PROVE  IsFiniteSet(below(n)) /\ below(n) \in SUBSET Nat
    <3>1. n \in Int /\ 0 \in Int
      OBVIOUS
    <3>. QED
      BY <3>1, FS_Interval
  <2>. QED
    BY <2>1 DEF FiniteSubsetsOf
<1>2. PICK x \in T : \A y \in T : ~ (<<y, x>> \in StrictSubsetOrdering(Nat))
  BY <1>1, FS_StrictSubsetOrderingWellFounded, WFMin, Zenon
<1>3. PICK n \in S : x = below(n)
  OBVIOUS
<1>4. ASSUME NEW m \in S
      PROVE  n <= m
  <2>1. ~ (<<below(m), x>> \in StrictSubsetOrdering(Nat))
    BY <1>2
  <2>2. below(m) \in SUBSET Nat /\ x \in SUBSET Nat
    BY <1>3
  <2>3. ~ (below(m) \subseteq x /\ below(m) # x)
    BY <2>1, <2>2 DEF StrictSubsetOrdering
  <2>4. n \in Nat /\ m \in Nat
    OBVIOUS
  <2>5. ASSUME m < n
        PROVE  FALSE
    <3>1. below(m) \subseteq x /\ n \in x /\ n \notin below(m)
      BY <1>3, <2>4, <2>5
    <3>. QED
      BY <2>3, <3>1
  <2>. QED
    BY <2>4, <2>5
<1>. QED
  BY <1>4
=============================================================================
