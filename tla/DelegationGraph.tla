--------------------------- MODULE DelegationGraph ---------------------------
(****************************************************************************)
(* A delegation graph as both the delegation engine and the DelegationChain *)
(* contract keep it: a map from each DID to the record of the delegation    *)
(* to it, which names its parent and says whether it is revoked.            *)
(****************************************************************************)
EXTENDS TLAPS

CONSTANTS
  DID,       \* the agents' identifiers
  NoRecord   \* nobody delegated to the DID

Has(recs, d) == recs[d] # NoRecord
Live(recs, d) == Has(recs, d) /\ ~recs[d].revoked

(* The live delegations below the DIDs of Q: the least set that holds the  *)
(* live children of Q and of its own members.                              *)

LiveChildren(recs, Q) == {d \in DID : Live(recs, d) /\ recs[d].parent \in Q}

BelowClosed(recs, Q, S) == LiveChildren(recs, Q \cup S) \subseteq S

LiveBelow(recs, Q) ==
  {d \in DID : \A S \in SUBSET DID : BelowClosed(recs, Q, S) => d \in S}

RevokeAll(recs, S) ==
  [d \in DID |-> IF d \in S /\ Has(recs, d)
                   THEN [recs[d] EXCEPT !.revoked = TRUE]
                   ELSE recs[d]]

(* The records of the chain that a verification walks from d: d's own, its *)
(* parent's, and so on up to a DID without one.                            *)
Chain(recs, d) ==
  {x \in DID :
     /\ Has(recs, x)
     /\ \A S \in SUBSET DID :
          /\ d \in S
          /\ \A y \in S : Has(recs, y) => recs[y].parent \in S
          => x \in S}

-----------------------------------------------------------------------------
(* Facts on these operators, which the proofs about both use. *)

(* The live delegations below Q hold all their own live children. *)
LEMMA BelowIsClosed ==
  ASSUME NEW recs, NEW Q
  PROVE  BelowClosed(recs, Q, LiveBelow(recs, Q))
<1> SUFFICES ASSUME NEW x \in LiveChildren(recs, Q \cup LiveBelow(recs, Q))
             PROVE  x \in LiveBelow(recs, Q)
  BY DEF BelowClosed
<1>1. x \in DID
  BY DEF LiveChildren
<1>2. ASSUME NEW S \in SUBSET DID, BelowClosed(recs, Q, S)
      PROVE  x \in S
  <2>1. LiveBelow(recs, Q) \subseteq S
    BY <1>2 DEF LiveBelow
  <2>2. x \in LiveChildren(recs, Q \cup S)
    BY <2>1 DEF LiveChildren
  <2> QED
    BY <2>2, <1>2 DEF BelowClosed
<1> QED
  BY <1>1, <1>2 DEF LiveBelow

(* A live delegation below Q is live. *)
LEMMA BelowIsLive ==
  ASSUME NEW recs, NEW Q, NEW x \in LiveBelow(recs, Q)
  PROVE  Live(recs, x)
<1> DEFINE S == {d \in DID : Live(recs, d)}
<1>1. BelowClosed(recs, Q, S)
  BY DEF BelowClosed, LiveChildren
<1>2. S \in SUBSET DID
  OBVIOUS
<1>3. x \in S
  BY <1>1, <1>2 DEF LiveBelow
<1> QED
  BY <1>3

(* The chain of a DID with a record holds the record itself. *)
LEMMA ChainHoldsSelf ==
  ASSUME NEW recs, NEW d \in DID, Has(recs, d)
  PROVE  d \in Chain(recs, d)
BY DEF Chain

(* What is on the chain of a record's parent is on the record's own. *)
LEMMA ChainHoldsParents ==
  ASSUME NEW recs, NEW d \in DID, Has(recs, d), NEW r \in Chain(recs, recs[d].parent)
  PROVE  r \in Chain(recs, d)
BY DEF Chain

(* A live delegation below r has r on its chain. *)
LEMMA BelowHangsUnder ==
  ASSUME NEW recs, NEW r \in DID, Has(recs, r), NEW d \in LiveBelow(recs, {r})
  PROVE  r \in Chain(recs, d)
<1> DEFINE S == {x \in DID : r \in Chain(recs, x)}
<1>1. BelowClosed(recs, {r}, S)
  <2> SUFFICES ASSUME NEW x \in LiveChildren(recs, {r} \cup S)
               PROVE  r \in Chain(recs, x)
    BY DEF BelowClosed, LiveChildren
  <2>1. x \in DID /\ Has(recs, x)
    BY DEF LiveChildren, Live
  <2>2. r \in Chain(recs, recs[x].parent)
    BY ChainHoldsSelf DEF LiveChildren
  <2> QED
    BY <2>1, <2>2, ChainHoldsParents
<1> QED
  BY <1>1 DEF LiveBelow

(* A record's delegation names an agent as its parent. *)
Parented(recs) == \A d \in DID : Has(recs, d) => recs[d].parent \in DID

(* A chain is the record and the chain of its parent; without a record it is *)
(* empty.                                                                    *)
LEMMA ChainOfNone ==
  ASSUME NEW recs, NEW d \in DID, ~Has(recs, d)
  PROVE  Chain(recs, d) = {}
<1>1. ASSUME NEW x \in Chain(recs, d)
      PROVE  FALSE
  <2>1. x \in {d}
    BY DEF Chain
  <2> QED
    BY <2>1 DEF Chain
<1> QED
  BY <1>1

LEMMA ChainSplits ==
  ASSUME NEW recs, Parented(recs), NEW d \in DID, Has(recs, d)
  PROVE  Chain(recs, d) = {d} \cup Chain(recs, recs[d].parent)
<1> DEFINE p == recs[d].parent
           S == {d} \cup Chain(recs, p) \cup {y \in DID : ~Has(recs, y)}
<1>1. p \in DID
  BY DEF Parented
<1>2. d \in Chain(recs, d) /\ Chain(recs, p) \subseteq Chain(recs, d)
  BY ChainHoldsSelf, ChainHoldsParents
<1>3. ASSUME NEW y \in S, Has(recs, y)
      PROVE  recs[y].parent \in S
  <2>1. y \in DID /\ recs[y].parent \in DID
    BY <1>3 DEF Parented, Chain
  <2>2. CASE ~Has(recs, recs[y].parent)
    BY <2>1, <2>2
  <2>3. CASE Has(recs, recs[y].parent) /\ y = d
    BY <2>1, <2>3, ChainHoldsSelf
  <2>4. CASE Has(recs, recs[y].parent) /\ y \in Chain(recs, p)
    BY <2>1, <2>4, <1>3 DEF Chain
  <2> QED
    BY <1>3, <2>2, <2>3, <2>4
<1>4. S \in SUBSET DID /\ d \in S
  BY DEF Chain
<1>5. Chain(recs, d) \subseteq S
  BY <1>3, <1>4 DEF Chain
<1>6. Chain(recs, d) \subseteq {d} \cup Chain(recs, p)
  BY <1>5 DEF Chain
<1> QED
  BY <1>2, <1>6

(* A set that holds d, and with each of its DIDs the parent, holds the chain. *)
LEMMA ChainIsLeast ==
  ASSUME NEW recs, NEW d \in DID, NEW S \in SUBSET DID, d \in S,
         \A y \in S : Has(recs, y) => recs[y].parent \in S
  PROVE  Chain(recs, d) \subseteq S
BY DEF Chain

(* Two graphs with the same parents have the same chains ... *)
LEMMA ChainsAgree ==
  ASSUME NEW recs, NEW other,
         \A x \in DID : /\ Has(recs, x) <=> Has(other, x)
                        /\ Has(recs, x) => recs[x].parent = other[x].parent,
         NEW d \in DID
  PROVE  Chain(recs, d) = Chain(other, d)
<1>1. ASSUME NEW S \in SUBSET DID
      PROVE  (\A y \in S : Has(recs, y) => recs[y].parent \in S)
               <=> (\A y \in S : Has(other, y) => other[y].parent \in S)
  OBVIOUS
<1> QED
  BY <1>1 DEF Chain

(* ... and a record changes no chain that it is not part of. *)
LEMMA ChainWithout ==
  ASSUME NEW recs, NEW other, Parented(recs), Parented(other), NEW c \in DID,
         \A x \in DID \ {c} : recs[x] = other[x],
         Has(other, c), NEW d \in DID, c \notin Chain(other, d)
  PROVE  Chain(recs, d) = Chain(other, d)
<1> DEFINE R == Chain(other, d) \cup {y \in DID : y # c /\ ~Has(other, y)}
<1>1. \A x \in DID \ {c} : Has(recs, x) <=> Has(other, x)
  BY DEF Has
<1>2. d # c
  BY ChainHoldsSelf
<1>3. R \in SUBSET DID /\ c \notin R /\ d \in R
  <2>1. Has(other, d) => d \in Chain(other, d)
    BY ChainHoldsSelf
  <2> QED
    BY <1>2, <2>1 DEF Chain
<1>4. ASSUME NEW y \in R, Has(other, y)
      PROVE  other[y].parent \in R
  <2>1. y \in Chain(other, d) /\ other[y].parent \in DID
    BY <1>4 DEF Parented, Chain
  <2>2. Has(other, other[y].parent) => other[y].parent \in Chain(other, d)
    BY <1>4, <2>1 DEF Chain
  <2> QED
    BY <2>1, <2>2
<1>5. \A y \in R : Has(recs, y) => recs[y].parent \in R
  BY <1>1, <1>3, <1>4
<1>6. Chain(recs, d) \subseteq R
  BY <1>3, <1>5, ChainIsLeast
<1>8. ASSUME NEW x \in Chain(recs, d)
      PROVE  x \in Chain(other, d)
  BY <1>1, <1>3, <1>6, <1>8 DEF Chain
<1>9. ASSUME NEW S \in SUBSET DID, d \in S, \A y \in S : Has(recs, y) => recs[y].parent \in S,
             NEW x \in Chain(other, d)
      PROVE  x \in S
  <2>1. \A y \in S \cap R : Has(other, y) => other[y].parent \in S \cap R
    BY <1>1, <1>3, <1>4, <1>9
  <2>2. S \cap R \in SUBSET DID /\ d \in S \cap R
    BY <1>3, <1>9
  <2>3. Chain(other, d) \subseteq S \cap R
    BY <2>1, <2>2, ChainIsLeast
  <2> QED
    BY <1>9, <2>3
<1>10. ASSUME NEW x \in Chain(other, d)
       PROVE  x \in Chain(recs, d)
  <2>1. x \in DID /\ Has(recs, x)
    BY <1>1, <1>10 DEF Chain
  <2> QED
    BY <2>1, <1>9, <1>10 DEF Chain
<1> QED
  BY <1>8, <1>10

(* A chain that ends passes no DID twice: what is above d does not lead back *)
(* to d.                                                                     *)
LEMMA ChainEnds ==
  ASSUME NEW recs, Parented(recs), NEW d \in DID, Has(recs, d),
         NEW x \in Chain(recs, d), ~Has(recs, recs[x].parent)
  PROVE  d \notin Chain(recs, recs[d].parent)
<1> DEFINE p == recs[d].parent
           S == {y \in DID : d \in Chain(recs, y)}
<1> SUFFICES ASSUME d \in Chain(recs, p)
             PROVE  FALSE
  OBVIOUS
<1>1. p \in DID /\ x \in DID /\ Has(recs, x) /\ recs[x].parent \in DID
  BY DEF Parented, Chain
<1>2. S \in SUBSET DID /\ d \in S /\ p \in S
  BY <1>1, ChainHoldsSelf
<1>3. ASSUME NEW y \in S, Has(recs, y)
      PROVE  recs[y].parent \in S
  <2>1. recs[y].parent \in DID /\ Chain(recs, y) = {y} \cup Chain(recs, recs[y].parent)
    BY <1>3, ChainSplits DEF Parented
  <2> QED
    BY <1>2, <2>1
<1>4. x \in S
  BY <1>2, <1>3, ChainIsLeast
<1>5. d = x
  <2>1. Chain(recs, x) = {x} \cup Chain(recs, recs[x].parent)
    BY <1>1, ChainSplits
  <2>2. Chain(recs, recs[x].parent) = {}
    BY <1>1, ChainOfNone
  <2> QED
    BY <1>4, <2>1, <2>2
<1> QED
  BY <1>1, <1>5, ChainOfNone
=============================================================================
