------------------------------ MODULE Induction ------------------------------
(****************************************************************************)
(* Induction over numbers and what it gives for values that are computed    *)
(* step by step: the lemmas that proofs about folds and recursive functions *)
(* begin with.  Induction is stated with sets, since an operator cannot be  *)
(* given to the provers.                                                    *)
(****************************************************************************)
EXTENDS Naturals, SequencesExt, FiniteSetTheorems, WellFoundedInduction, TLAPS

(* Of the numbers in a set one is the least ... *)
LEMMA LeastMember ==
  ASSUME NEW T \in SUBSET Nat, T # {}
  PROVE  \E x \in T : \A y \in T : x <= y
<1>1. PICK x \in T : \A y \in T : ~ (<<y, x>> \in OpToRel(<, Nat))
  BY NatLessThanWellFounded, WFMin
<1>2. \A y \in T : ~(y < x)
  BY <1>1 DEF OpToRel
<1> QED
  BY <1>2

(* ... so that a set which holds 0, and the next of each, holds them all. *)
LEMMA Induct ==
  ASSUME NEW n \in Nat, NEW T, 0 \in T, \A i \in 0 .. n - 1 : i \in T => i + 1 \in T
  PROVE  0 .. n \subseteq T
<1>1. SUFFICES ASSUME (0 .. n) \ T # {}
               PROVE  FALSE
  OBVIOUS
<1>2. PICK x \in (0 .. n) \ T : \A y \in (0 .. n) \ T : x <= y
  <2>1. (0 .. n) \ T \in SUBSET Nat
    OBVIOUS
  <2> QED
    BY <1>1, <2>1, LeastMember
<1>3. x # 0 /\ x - 1 \in 0 .. n - 1 /\ x - 1 \notin (0 .. n) \ T
  BY <1>2
<1> QED
  BY <1>2, <1>3

(* A set of numbers up to n, but not empty, has a greatest. *)
LEMMA GreatestMember ==
  ASSUME NEW n \in Nat, NEW S \in SUBSET (0 .. n), S # {}
  PROVE  Max(S) \in S /\ \A y \in S : Max(S) >= y
<1> DEFINE T == {n - x : x \in S}
<1>1. PICK m \in T : \A y \in T : m <= y
  <2>1. \A x \in S : n - x \in Nat
    OBVIOUS
  <2>2. T \in SUBSET Nat /\ T # {}
    BY <2>1
  <2> HIDE DEF T
  <2> QED
    BY <2>2, LeastMember
<1>2. n - m \in S /\ \A y \in S : n - m >= y
  BY <1>1
<1> QED
  BY <1>2 DEF Max

(* n steps on the values of A; what they come to, one after the other, from  *)
(* base; and the function that a fold of the community modules, from left to *)
(* right, is computed with.                                                  *)
Steps(n, A) == [1 .. n -> [A -> A]]

Along(at, n, A, base, step) ==
  /\ at \in [0 .. n -> A]
  /\ at[0] = base /\ \A i \in 1 .. n : at[i] = step[i][at[i - 1]]

Folding(f, n, A, base, step) ==
  /\ f \in [SUBSET (1 .. n) -> A]
  /\ \A s \in SUBSET (1 .. n) :
       f[s] = IF s = {} THEN base ELSE step[Max(s)][f[s \ {Max(s)}]]

(* The same of a function that need not stay in A, as long as it does. *)
Unfolds(f, n, A, base, step) ==
  /\ f[{}] = base
  /\ \A s \in SUBSET (1 .. n) : s # {} /\ f[s \ {Max(s)}] \in A =>
       f[s] = step[Max(s)][f[s \ {Max(s)}]]

(* There is such a function ... *)
LEMMA FoldExists ==
  ASSUME NEW n \in Nat, NEW A, NEW base \in A, NEW step \in Steps(n, A)
  PROVE  \E f : Folding(f, n, A, base, step)
<1> USE DEF Steps
<1> DEFINE Folds(f, m) ==
      \A s \in SUBSET (1 .. m) :
        f[s] = IF s = {} THEN base ELSE step[Max(s)][f[s \ {Max(s)}]]
           T == {m \in 0 .. n : \E f \in [SUBSET (1 .. m) -> A] : Folds(f, m)}
<1>1. 0 \in T
  <2>1. PICK f : f = [s \in SUBSET (1 .. 0) |-> base]
    OBVIOUS
  <2>2. f \in [SUBSET (1 .. 0) -> A] /\ \A s \in SUBSET (1 .. 0) : s = {} /\ f[s] = base
    BY <2>1
  <2>3. Folds(f, 0)
    BY <2>2
  <2> HIDE DEF Folds
  <2> QED
    BY <2>2, <2>3
<1>2. ASSUME NEW m \in 0 .. n - 1, m \in T
      PROVE  m + 1 \in T
  <2>1. PICK f \in [SUBSET (1 .. m) -> A] : Folds(f, m)
    BY <1>2
  <2>2. PICK g : g = [s \in SUBSET (1 .. m + 1) |->
                        IF m + 1 \in s THEN step[m + 1][f[s \ {m + 1}]] ELSE f[s]]
    OBVIOUS
  <2>3. ASSUME NEW s \in SUBSET (1 .. m + 1)
        PROVE  /\ s \ {m + 1} \in SUBSET (1 .. m)
               /\ m + 1 \in s => Max(s) = m + 1
               /\ m + 1 \notin s /\ s # {} => Max(s) \in s
    <3>1. m + 1 \in Nat /\ s \in SUBSET (0 .. m + 1)
      OBVIOUS
    <3>2. s # {} => Max(s) \in s /\ \A y \in s : Max(s) >= y
      BY <3>1, GreatestMember
    <3>3. \A y \in s : y \in Nat /\ y <= m + 1
      OBVIOUS
    <3>4. ASSUME m + 1 \in s
          PROVE  Max(s) = m + 1
      <4>1. Max(s) \in s /\ Max(s) >= m + 1
        BY <3>2, <3>4
      <4>2. Max(s) \in Nat /\ Max(s) <= m + 1
        BY <3>3, <4>1
      <4>3. \A i, j \in Nat : i <= j /\ i >= j => i = j
        OBVIOUS
      <4> QED
        BY <3>1, <4>1, <4>2, <4>3
    <3>5. s \ {m + 1} \in SUBSET (1 .. m)
      OBVIOUS
    <3> QED
      BY <3>2, <3>4, <3>5
  <2>4. g \in [SUBSET (1 .. m + 1) -> A]
    <3>1. ASSUME NEW s \in SUBSET (1 .. m + 1)
          PROVE  (IF m + 1 \in s THEN step[m + 1][f[s \ {m + 1}]] ELSE f[s]) \in A
      <4>1. CASE m + 1 \in s
        <5>1. f[s \ {m + 1}] \in A
          BY <2>1, <2>3
        <5>2. step[m + 1] \in [A -> A]
          OBVIOUS
        <5> QED
          BY <4>1, <5>1, <5>2
      <4>2. CASE m + 1 \notin s
        <5>1. s \in SUBSET (1 .. m)
          BY <2>3, <4>2
        <5> QED
          BY <2>1, <4>2, <5>1
      <4> QED
        BY <4>1, <4>2
    <3> QED
      BY <2>2, <3>1
  <2>5. ASSUME NEW s \in SUBSET (1 .. m + 1)
        PROVE  g[s] = IF s = {} THEN base ELSE step[Max(s)][g[s \ {Max(s)}]]
    <3>1. CASE m + 1 \in s
      <4>1. Max(s) = m + 1 /\ s \ {m + 1} \in SUBSET (1 .. m + 1) /\ s # {}
        BY <2>3, <3>1
      <4>2. g[s] = step[m + 1][f[s \ {m + 1}]] /\ g[s \ {m + 1}] = f[s \ {m + 1}]
        BY <2>2, <3>1, <4>1
      <4> QED
        BY <4>1, <4>2
    <3>2. CASE m + 1 \notin s
      <4>1. s \in SUBSET (1 .. m) /\ (s # {} => Max(s) \in s)
        BY <2>3, <3>2
      <4>2. f[s] = IF s = {} THEN base ELSE step[Max(s)][f[s \ {Max(s)}]]
        BY <2>1, <4>1
      <4>3. g[s] = f[s] /\ g[s \ {Max(s)}] = f[s \ {Max(s)}]
        BY <2>2, <3>2, <4>1
      <4> QED
        BY <4>2, <4>3
    <3> QED
      BY <3>1, <3>2
  <2>6. Folds(g, m + 1)
    BY <2>5
  <2> HIDE DEF Folds
  <2> QED
    BY <2>4, <2>6
<1>3. n \in T
  <2> HIDE DEF T
  <2>1. \A i \in 0 .. n - 1 : i \in T => i + 1 \in T
    BY <1>2
  <2>2. 0 .. n \subseteq T
    BY <1>1, <2>1, Induct
  <2> QED
    BY <2>2
<1> QED
  BY <1>3 DEF Folding

(* The first i numbers are the i-th, which is the greatest, and those before. *)
LEMMA PrefixesOf ==
  ASSUME NEW n \in Nat
  PROVE  /\ 1 .. 0 = {}
         /\ \A i \in 1 .. n :
              /\ 1 .. i \in SUBSET (1 .. n) /\ 1 .. i # {}
              /\ Max(1 .. i) = i
              /\ (1 .. i) \ {i} = 1 .. i - 1
<1>1. ASSUME NEW i \in 1 .. n
      PROVE  Max(1 .. i) = i
  <2>1. 1 .. i \in SUBSET (0 .. i) /\ 1 .. i # {} /\ i \in Nat /\ i \in 1 .. i
    OBVIOUS
  <2>2. Max(1 .. i) \in 1 .. i /\ Max(1 .. i) >= i
    BY <2>1, GreatestMember
  <2> QED
    BY <2>2
<1> QED
  BY <1>1

(* ... and what it is of all the values is what the steps come to. *)
LEMMA FoldSteps ==
  ASSUME NEW n \in Nat, NEW A, NEW base \in A, NEW step \in Steps(n, A), NEW f,
         Unfolds(f, n, A, base, step)
  PROVE  \E at : Along(at, n, A, base, step) /\ at[n] = f[1 .. n]
<1> USE DEF Steps, Unfolds
<1> DEFINE T == {i \in 0 .. n : f[1 .. i] \in A}
<1>1. ASSUME NEW i \in 1 .. n, f[1 .. i - 1] \in A
      PROVE  f[1 .. i] = step[i][f[1 .. i - 1]]
  BY <1>1, PrefixesOf
<1>2. 0 \in T
  BY PrefixesOf
<1>3. ASSUME NEW i \in 0 .. n - 1, i \in T
      PROVE  i + 1 \in T
  <2>1. i + 1 \in 1 .. n /\ f[1 .. (i + 1) - 1] \in A
    BY <1>3
  <2>2. f[1 .. i + 1] = step[i + 1][f[1 .. (i + 1) - 1]]
    BY <1>1, <2>1
  <2>3. step[i + 1] \in [A -> A]
    BY <2>1
  <2> QED
    BY <2>1, <2>2, <2>3
<1>4. \A i \in 0 .. n : f[1 .. i] \in A
  <2>1. T = {i \in 0 .. n : f[1 .. i] \in A}
    OBVIOUS
  <2> HIDE DEF T
  <2>2. \A i \in 0 .. n - 1 : i \in T => i + 1 \in T
    BY <1>3
  <2>3. 0 .. n \subseteq T
    BY <1>2, <2>2, Induct
  <2> QED
    BY <2>1, <2>3
<1>5. PICK at : at = [i \in 0 .. n |-> f[1 .. i]]
  OBVIOUS
<1>6. at \in [0 .. n -> A] /\ at[0] = base /\ at[n] = f[1 .. n]
  BY <1>4, <1>5, PrefixesOf
<1>7. \A i \in 1 .. n : at[i] = step[i][at[i - 1]]
  BY <1>1, <1>4, <1>5
<1> QED
  BY <1>6, <1>7 DEF Along

(* A set that becomes a list holds the same. *)
LEMMA ListHolds ==
  ASSUME NEW S, IsFiniteSet(S)
  PROVE  SetToSeq(S) \in Seq(S) /\ {SetToSeq(S)[i] : i \in DOMAIN SetToSeq(S)} = S
<1>1. PICK n \in Nat : n = Cardinality(S) /\ ExistsBijection(1 .. n, S)
  BY FS_CardinalityType
<1>2. \E f \in [1 .. n -> S] : IsInjective(f)
  BY <1>1 DEF ExistsBijection, Bijection, Injection
<1>3. SetToSeq(S) \in [1 .. n -> S] /\ IsInjective(SetToSeq(S))
  BY <1>1, <1>2 DEF SetToSeq
<1>4. SetToSeq(S) \in Injection(1 .. n, S)
  BY <1>3 DEF Injection
<1>5. IsFiniteSet(1 .. n) /\ Cardinality(1 .. n) = n
  BY FS_Interval
<1>6. SetToSeq(S) \in Surjection(1 .. n, S)
  BY <1>1, <1>4, <1>5, FS_Injection
<1> QED
  BY <1>3, <1>6 DEF Surjection
==============================================================================
