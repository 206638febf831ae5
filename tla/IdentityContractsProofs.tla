---------------------- MODULE IdentityContractsProofs ----------------------
(***************************************************************************)
(* The two contracts of identities for every set of DIDs, accounts, hashes *)
(* and keys and every bound.  DelegationChain: its types, what its         *)
(* cascades leave live, how far one transaction reaches, what verifyChain  *)
(* answers, and that what it refuses stays refused.  TrustDIDRegistry: its *)
(* types, the families it decommissions, what a nonce stands for, and the  *)
(* order of statuses.                                                      *)
(***************************************************************************)
EXTENDS DelegationChain, TrustDIDRegistry, Induction, FiniteSetTheorems, TLAPS

-----------------------------------------------------------------------------
(* DelegationChain. *)

ChainInv == ChainTypeOK /\ ChainOrphansExplained

(* Revoking changes no field but `revoked`, adds no record and removes none. *)
LEMMA RevokeKeepsRest ==
  ASSUME NEW recs \in [DID -> Delegation \cup {NoRecord}], NEW S, NEW d \in DID
  PROVE  /\ RevokeAll(recs, S) \in [DID -> Delegation \cup {NoRecord}]
         /\ Has(RevokeAll(recs, S), d) <=> Has(recs, d)
         /\ Has(recs, d) =>
              /\ RevokeAll(recs, S)[d].parent = recs[d].parent
              /\ RevokeAll(recs, S)[d].revoked <=> (recs[d].revoked \/ d \in S)
<1> USE NoDelegationAssumption
<1>1. ASSUME NEW e \in DID, Has(recs, e)
      PROVE  [recs[e] EXCEPT !.revoked = TRUE] \in Delegation
  BY <1>1 DEF Has, Delegation
<1>2. RevokeAll(recs, S) \in [DID -> Delegation \cup {NoRecord}]
  BY <1>1 DEF RevokeAll
<1>3. CASE Has(recs, d) /\ d \in S
  <2>1. RevokeAll(recs, S)[d] = [recs[d] EXCEPT !.revoked = TRUE]
    BY <1>3 DEF RevokeAll
  <2>2. RevokeAll(recs, S)[d] # NoRecord
    BY <2>1, <1>1, <1>3
  <2> QED
    BY <1>2, <1>3, <2>1, <2>2 DEF Has, Delegation
<1>4. CASE ~(Has(recs, d) /\ d \in S)
  <2>1. RevokeAll(recs, S)[d] = recs[d]
    BY <1>4 DEF RevokeAll
  <2> QED
    BY <1>2, <1>4, <2>1 DEF Has
<1> QED
  BY <1>3, <1>4

(* The delegations a cascade revokes with d: all live ones below d but d. *)
LEMMA CascadedIsBelow ==
  ASSUME ChainTypeOK, NEW d \in DID, Live(delegations, d)
  PROVE  /\ Cascaded(d) \subseteq LiveBelow(delegations, {d})
         /\ \A x \in DID :
              /\ x # d
              /\ Live(delegations, x)
              /\ delegations[x].parent \in {d} \cup Cascaded(d)
              => x \in Cascaded(d)
<1> DEFINE recs == RevokeAll(delegations, {d})
<1>1. \A x \in DID : /\ Live(recs, x) <=> Live(delegations, x) /\ x # d
                     /\ Live(recs, x) => recs[x].parent = delegations[x].parent
  BY RevokeKeepsRest DEF ChainTypeOK, Live
<1> HIDE DEF recs
<1>2. ASSUME NEW Q PROVE LiveChildren(recs, Q) \subseteq LiveChildren(delegations, Q)
  BY <1>1 DEF LiveChildren
<1>3. Cascaded(d) = LiveBelow(recs, {d})
  BY DEF Cascaded, recs
<1>4. Cascaded(d) \subseteq LiveBelow(delegations, {d})
  <2>1. \A S \in SUBSET DID : BelowClosed(delegations, {d}, S) => BelowClosed(recs, {d}, S)
    BY <1>2 DEF BelowClosed
  <2> QED
    BY <1>3, <2>1 DEF LiveBelow
<1>5. BelowClosed(recs, {d}, Cascaded(d))
  BY <1>3, BelowIsClosed
<1>6. ASSUME NEW x \in DID, x # d, Live(delegations, x),
             delegations[x].parent \in {d} \cup Cascaded(d)
      PROVE  x \in Cascaded(d)
  BY <1>1, <1>5, <1>6 DEF BelowClosed, LiveChildren
<1> QED
  BY <1>4, <1>6

-----------------------------------------------------------------------------
LEMMA ChainInvInit == ChainInit => ChainInv
BY DEF ChainInit, ChainInv, ChainTypeOK, ChainOrphansExplained, Live, Has

(* A new delegation is live: it explains nothing below it that was not so, *)
(* and is itself noted when its parent is revoked.                         *)
LEMMA CreateKeepsInv ==
  ASSUME ChainInv, NEW a \in Sender, NEW p \in DID, NEW c \in DID, NEW depth \in DepthArg,
         CreateDelegation(a, p, c, depth)
  PROVE  ChainInv'
<1> DEFINE new == [parent |-> p, registeredBy |-> a, depth |-> depth, revoked |-> FALSE]
<1>1. new \in Delegation /\ new # NoRecord /\ new.parent = p /\ ~new.revoked
  <2>1. new \in Delegation
    BY DEF Delegation
  <2> QED
    BY <2>1, NoDelegationAssumption
<1>2. delegations' = [delegations EXCEPT ![c] = new] /\ ~Has(delegations, c)
  BY DEF CreateDelegation, Register
<1>3. late' = (IF Revoked(delegations, p) THEN late \cup {c} ELSE late) /\ spared' = spared
  BY DEF CreateDelegation, Register
<1> HIDE DEF new
<1>4. ChainTypeOK'
  BY <1>1, <1>2, <1>3 DEF ChainInv, ChainTypeOK
<1>5. delegations'[c] = new /\ \A x \in DID \ {c} : delegations'[x] = delegations[x]
  BY <1>2 DEF ChainInv, ChainTypeOK
<1>6. \A x \in DID : Revoked(delegations', x) => x # c /\ Revoked(delegations, x)
  BY <1>1, <1>5 DEF Revoked, Has
<1>7. ASSUME NEW x \in DID, Live(delegations', x), Revoked(delegations', delegations'[x].parent)
      PROVE  delegations'[x].parent \in spared' \/ x \in late'
  <2>1. delegations'[x].parent \in DID
    BY <1>4, <1>7 DEF ChainTypeOK, Live, Has, Delegation
  <2>2. CASE x = c
    BY <1>1, <1>3, <1>5, <1>6, <1>7, <2>1, <2>2
  <2>3. CASE x # c
    <3>1. Live(delegations, x) /\ Revoked(delegations, delegations[x].parent)
      BY <1>5, <1>6, <1>7, <2>1, <2>3 DEF Live, Has
    <3> QED
      BY <1>3, <1>5, <2>3, <3>1 DEF ChainInv, ChainOrphansExplained
  <2> QED
    BY <2>2, <2>3
<1> QED
  BY <1>4, <1>7 DEF ChainInv, ChainOrphansExplained

(* With cascade, a delegation left live under one just revoked would itself *)
(* have been reached; without, the target is noted.                         *)
LEMMA RevokeKeepsInv ==
  ASSUME ChainInv, NEW a \in Sender, NEW d \in DID, NEW cascade \in BOOLEAN,
         RevokeDelegation(a, d, cascade)
  PROVE  ChainInv'
<1> DEFINE S == {d} \cup (IF cascade THEN Cascaded(d) ELSE {})
<1>1. delegations' = RevokeAll(delegations, S) /\ late' = late
  BY DEF RevokeDelegation
<1>2. Live(delegations, d) /\ spared' = (IF cascade THEN spared ELSE spared \cup {d})
  BY DEF RevokeDelegation
<1>3. d \in S /\ (cascade => S = {d} \cup Cascaded(d)) /\ (~cascade => S = {d})
  OBVIOUS
<1> HIDE DEF S
<1>4. ChainTypeOK'
  BY <1>1, <1>2, RevokeKeepsRest DEF ChainInv, ChainTypeOK
<1>5. \A x \in DID : /\ Live(delegations', x) <=> Live(delegations, x) /\ x \notin S
                     /\ Revoked(delegations', x) => Revoked(delegations, x) \/ x \in S
                     /\ Live(delegations', x) => delegations'[x].parent = delegations[x].parent
  BY <1>1, RevokeKeepsRest DEF ChainInv, ChainTypeOK, Live, Revoked
<1>6. ASSUME NEW x \in DID, Live(delegations', x), Revoked(delegations', delegations'[x].parent)
      PROVE  delegations'[x].parent \in spared' \/ x \in late'
  <2> DEFINE p == delegations[x].parent
  <2>1. p \in DID /\ delegations'[x].parent = p /\ Live(delegations, x) /\ x \notin S
    BY <1>5, <1>6 DEF ChainInv, ChainTypeOK, Live, Has, Delegation
  <2> HIDE DEF p
  <2>2. CASE Revoked(delegations, p)
    <3>1. p \in spared \/ x \in late
      BY <2>1, <2>2 DEF ChainInv, ChainOrphansExplained, p
    <3> QED
      BY <1>1, <1>2, <2>1, <3>1
  <2>3. CASE p \in S
    <3>1. CASE cascade
      <4>1. x \in Cascaded(d)
        BY <1>2, <1>3, <2>1, <2>3, <3>1, CascadedIsBelow DEF ChainInv, p
      <4> QED
        BY <1>3, <2>1, <3>1, <4>1
    <3>2. CASE ~cascade
      BY <1>2, <1>3, <2>1, <2>3, <3>2
    <3> QED
      BY <3>1, <3>2
  <2> QED
    BY <1>5, <1>6, <2>1, <2>2, <2>3
<1> QED
  BY <1>4, <1>6 DEF ChainInv, ChainOrphansExplained

LEMMA ChainInvNext == ChainInv /\ [ChainNext]_chainVars => ChainInv'
<1> SUFFICES ASSUME ChainInv, [ChainNext]_chainVars
             PROVE  ChainInv'
  OBVIOUS
<1>1. CASE ChainNext
  BY <1>1, CreateKeepsInv, RevokeKeepsInv DEF ChainNext
<1>2. CASE UNCHANGED chainVars
  BY <1>2 DEF chainVars, ChainInv, ChainTypeOK, ChainOrphansExplained, Live, Has, Revoked
<1> QED
  BY <1>1, <1>2

(* The contract's storage keeps its types. *)
THEOREM ChainTypeCorrect == ChainSpec => []ChainTypeOK
<1>1. ChainSpec => []ChainInv
  BY ChainInvInit, ChainInvNext, PTL DEF ChainSpec
<1> QED
  BY <1>1, PTL DEF ChainInv

(* Every live delegation under a revoked one was made afterwards or spared *)
(* by the caller: no cascade of the contract misses one.                   *)
THEOREM OrphansAreExplained == ChainSpec => []ChainOrphansExplained
<1>1. ChainSpec => []ChainInv
  BY ChainInvInit, ChainInvNext, PTL DEF ChainSpec
<1> QED
  BY <1>1, PTL DEF ChainInv

(* A transaction revokes nothing outside the tree below its target. *)
THEOREM ReachIsBelow == ChainSpec => RevocationStaysBelow
<1> DEFINE gone == {d \in DID : Live(delegations, d) /\ ~Live(delegations', d)}
<1>1. ASSUME ChainTypeOK, [ChainNext]_chainVars
      PROVE  RevokedHangTogether
  <2>1. ASSUME NEW a \in Sender, NEW p \in DID, NEW c \in DID, NEW depth \in DepthArg,
               CreateDelegation(a, p, c, depth)
        PROVE  gone = {}
    <3>1. \A x \in DID \ {c} : delegations'[x] = delegations[x]
      BY <1>1, <2>1 DEF CreateDelegation, Register, ChainTypeOK
    <3>2. ~Live(delegations, c)
      BY <2>1 DEF CreateDelegation, Live
    <3> QED
      BY <3>1, <3>2 DEF Live, Has
  <2>2. ASSUME NEW a \in Sender, NEW r \in DID, NEW cascade \in BOOLEAN,
               RevokeDelegation(a, r, cascade)
        PROVE  r \in gone /\ \A d \in gone : r \in Chain(delegations, d)
    <3> DEFINE S == {r} \cup (IF cascade THEN Cascaded(r) ELSE {})
    <3>1. delegations' = RevokeAll(delegations, S) /\ Live(delegations, r)
      BY <2>2 DEF RevokeDelegation
    <3>2. r \in S /\ S \subseteq {r} \cup Cascaded(r)
      OBVIOUS
    <3> HIDE DEF S
    <3>3. \A x \in DID : Live(delegations', x) <=> Live(delegations, x) /\ x \notin S
      BY <1>1, <3>1, RevokeKeepsRest DEF ChainTypeOK, Live
    <3>4. gone \subseteq {r} \cup LiveBelow(delegations, {r})
      BY <1>1, <3>1, <3>2, <3>3, CascadedIsBelow
    <3> QED
      BY <3>1, <3>2, <3>3, <3>4, ChainHoldsSelf, BelowHangsUnder DEF Live
  <2>3. CASE UNCHANGED chainVars
    BY <2>3 DEF chainVars, RevokedHangTogether, Live, Has
  <2> QED
    BY <1>1, <2>1, <2>2, <2>3 DEF ChainNext, RevokedHangTogether
<1> QED
  BY <1>1, ChainTypeCorrect, PTL DEF ChainSpec, RevocationStaysBelow

-----------------------------------------------------------------------------
(* A chain that ends is finite. *)
LEMMA EndingChainIsFinite ==
  ASSUME NEW recs, Parented(recs), NEW d \in DID,
         NEW x \in Chain(recs, d), ~Has(recs, recs[x].parent)
  PROVE  IsFiniteSet(Chain(recs, d))
<1> DEFINE S == {y \in DID : ~IsFiniteSet(Chain(recs, y))}
<1> SUFFICES ASSUME ~IsFiniteSet(Chain(recs, d))
             PROVE  FALSE
  OBVIOUS
<1>1. x \in DID /\ Has(recs, x) /\ recs[x].parent \in DID
  BY DEF Parented, Chain
<1>2. \A y \in DID : Has(recs, y) =>
        /\ recs[y].parent \in DID
        /\ Chain(recs, y) = {y} \cup Chain(recs, recs[y].parent)
  BY ChainSplits DEF Parented
<1>3. ASSUME NEW y \in S, Has(recs, y)
      PROVE  recs[y].parent \in S
  <2>1. IsFiniteSet(Chain(recs, recs[y].parent)) => IsFiniteSet(Chain(recs, y))
    BY <1>2, <1>3, FS_AddElement
  <2> QED
    BY <1>2, <1>3, <2>1
<1>4. x \in S
  BY <1>3, ChainIsLeast
<1>5. Chain(recs, recs[x].parent) = {}
  BY <1>1, ChainOfNone
<1>6. IsFiniteSet(Chain(recs, x))
  <2>1. Chain(recs, x) = {x}
    BY <1>1, <1>2, <1>5
  <2> QED
    BY <2>1, FS_Singleton
<1> QED
  BY <1>4, <1>6
-----------------------------------------------------------------------------
(* What verifyChain answers. *)

Answer == [valid : BOOLEAN, depth : Nat]

(* One turn of its loop at c, with `depth` links behind it; next is what it *)
(* would answer from each DID with one link more.                           *)
Turn(recs, depth, c, next) ==
  CASE ~Has(recs, c) -> [valid |-> TRUE, depth |-> depth]
    [] Revoked(recs, c) -> [valid |-> FALSE, depth |-> depth]
    [] OTHER ->
         IF depth + 1 > MAX_DELEGATION_DEPTH
           THEN [valid |-> FALSE, depth |-> depth + 1]
           ELSE next[recs[c].parent]

Walks(recs, walk) ==
  walk = [depth \in 0 .. MAX_DELEGATION_DEPTH |->
            [c \in DID |-> Turn(recs, depth, c, walk[depth + 1])]]

(* There is such a walk: the last turns ask for no others. *)
LEMMA WalkExists ==
  ASSUME NEW recs
  PROVE  \E walk : Walks(recs, walk)
<1> USE MaxDepthAssumption
<1> DEFINE From(f, m) ==
      \A depth \in MAX_DELEGATION_DEPTH - m .. MAX_DELEGATION_DEPTH :
        f[depth] = [c \in DID |-> Turn(recs, depth, c, f[depth + 1])]
           T == {m \in 0 .. MAX_DELEGATION_DEPTH : \E f : From(f, m)}
<1>1. 0 \in T
  <2>1. PICK f : f = [depth \in {MAX_DELEGATION_DEPTH} |->
                        [c \in DID |-> Turn(recs, depth, c, <<>>)]]
    OBVIOUS
  <2>2. ASSUME NEW c \in DID, NEW g, NEW h
        PROVE  Turn(recs, MAX_DELEGATION_DEPTH, c, g) = Turn(recs, MAX_DELEGATION_DEPTH, c, h)
    BY DEF Turn
  <2>3. \A depth \in MAX_DELEGATION_DEPTH - 0 .. MAX_DELEGATION_DEPTH :
          depth = MAX_DELEGATION_DEPTH
    OBVIOUS
  <2>4. f[MAX_DELEGATION_DEPTH] =
          [c \in DID |-> Turn(recs, MAX_DELEGATION_DEPTH, c, f[MAX_DELEGATION_DEPTH + 1])]
    BY <2>1, <2>2
  <2>5. From(f, 0)
    BY <2>3, <2>4
  <2> HIDE DEF From
  <2> QED
    BY <2>5
<1>2. ASSUME NEW m \in 0 .. MAX_DELEGATION_DEPTH - 1, m \in T
      PROVE  m + 1 \in T
  <2>1. PICK f : From(f, m)
    BY <1>2
  <2> DEFINE at == MAX_DELEGATION_DEPTH - (m + 1)
  <2>2. PICK g : g = [depth \in at .. MAX_DELEGATION_DEPTH + 1 |->
                        IF depth = at THEN [c \in DID |-> Turn(recs, at, c, f[at + 1])]
                                      ELSE f[depth]]
    OBVIOUS
  <2>3. /\ g[at] = [c \in DID |-> Turn(recs, at, c, f[at + 1])]
        /\ \A depth \in at + 1 .. MAX_DELEGATION_DEPTH + 1 : g[depth] = f[depth]
    BY <2>2
  <2>4. ASSUME NEW depth \in at .. MAX_DELEGATION_DEPTH
        PROVE  g[depth] = [c \in DID |-> Turn(recs, depth, c, g[depth + 1])]
    <3>1. g[depth + 1] = f[depth + 1]
      BY <2>3
    <3>2. CASE depth = at
      BY <2>3, <3>1, <3>2
    <3>3. CASE depth # at
      <4>1. depth \in MAX_DELEGATION_DEPTH - m .. MAX_DELEGATION_DEPTH
        BY <3>3
      <4>2. g[depth] = f[depth]
        BY <2>3, <3>3
      <4>3. f[depth] = [c \in DID |-> Turn(recs, depth, c, f[depth + 1])]
        BY <2>1, <4>1
      <4> QED
        BY <3>1, <4>2, <4>3
    <3> QED
      BY <3>2, <3>3
  <2>5. From(g, m + 1)
    BY <2>4
  <2> HIDE DEF From
  <2> QED
    BY <2>5
<1>3. MAX_DELEGATION_DEPTH \in T
  <2> HIDE DEF T
  <2>1. \A i \in 0 .. MAX_DELEGATION_DEPTH - 1 : i \in T => i + 1 \in T
    BY <1>2
  <2>2. 0 .. MAX_DELEGATION_DEPTH \subseteq T
    BY <1>1, <2>1, Induct
  <2> QED
    BY <2>2
<1>4. PICK f : From(f, MAX_DELEGATION_DEPTH)
  BY <1>3
<1>5. PICK walk : walk = [depth \in 0 .. MAX_DELEGATION_DEPTH |-> f[depth]]
  OBVIOUS
<1>6. ASSUME NEW depth \in 0 .. MAX_DELEGATION_DEPTH
      PROVE  walk[depth] = [c \in DID |-> Turn(recs, depth, c, walk[depth + 1])]
  <2>1. walk[depth] = f[depth]
    BY <1>5
  <2>2. depth \in MAX_DELEGATION_DEPTH - MAX_DELEGATION_DEPTH .. MAX_DELEGATION_DEPTH
    OBVIOUS
  <2>3. f[depth] = [c \in DID |-> Turn(recs, depth, c, f[depth + 1])]
    BY <1>4, <2>2
  <2>4. ASSUME NEW c \in DID
        PROVE  Turn(recs, depth, c, walk[depth + 1]) = Turn(recs, depth, c, f[depth + 1])
    <3>1. CASE depth + 1 > MAX_DELEGATION_DEPTH
      BY <3>1 DEF Turn
    <3>2. CASE depth + 1 \in 0 .. MAX_DELEGATION_DEPTH
      BY <1>5, <3>2
    <3> QED
      BY <3>1, <3>2
  <2> QED
    BY <2>1, <2>3, <2>4
<1>7. Walks(recs, walk)
  BY <1>5, <1>6 DEF Walks
<1> QED
  BY <1>7

(* verifyChain is such a walk from no links. *)
LEMMA VerifyWalks ==
  ASSUME NEW recs
  PROVE  \E walk : Walks(recs, walk) /\ \A d \in DID : VerifyChain(recs, d) = walk[0][d]
<1>1. PICK walk : walk = CHOOSE f : Walks(recs, f)
  OBVIOUS
<1>2. Walks(recs, walk)
  BY <1>1, WalkExists
<1>3. ASSUME NEW d \in DID
      PROVE  VerifyChain(recs, d) = walk[0][d]
  <2>1. VerifyChain(recs, d) = (CHOOSE f : Walks(recs, f))[0][d]
    BY DEF VerifyChain, Walks, Turn
  <2> QED
    BY <1>1, <2>1
<1> QED
  BY <1>2, <1>3

(* What is asked of a chain: live to its end, and with an end. *)
LiveToTheEnd(recs, d) ==
  LET links == Chain(recs, d) IN
  /\ \A x \in links : Live(recs, x)
  /\ links = {} \/ \E x \in links : ~Has(recs, recs[x].parent)

(* A chain is so when that of the parent is and the link to it is live; the *)
(* link is one more.                                                        *)
LEMMA OneLinkMore ==
  ASSUME NEW recs, Parented(recs), NEW d \in DID, Live(recs, d)
  PROVE  /\ recs[d].parent \in DID
         /\ LiveToTheEnd(recs, d) <=> LiveToTheEnd(recs, recs[d].parent)
         /\ LiveToTheEnd(recs, d) =>
              /\ IsFiniteSet(Chain(recs, d)) /\ IsFiniteSet(Chain(recs, recs[d].parent))
              /\ Cardinality(Chain(recs, d)) = Cardinality(Chain(recs, recs[d].parent)) + 1
<1>1. PICK p \in DID : p = recs[d].parent
  BY DEF Parented, Live
<1>2. Has(recs, d)
  BY DEF Live
<1>3. Chain(recs, d) = {d} \cup Chain(recs, p)
  BY <1>1, <1>2, ChainSplits
<1>4. d \in Chain(recs, d)
  BY <1>3
<1>5. Chain(recs, p) = {} => ~Has(recs, p)
  BY ChainHoldsSelf
<1>6. ASSUME LiveToTheEnd(recs, p)
      PROVE  LiveToTheEnd(recs, d)
  BY <1>1, <1>3, <1>5, <1>6 DEF LiveToTheEnd
<1>7. ASSUME LiveToTheEnd(recs, d)
      PROVE  /\ LiveToTheEnd(recs, p)
             /\ IsFiniteSet(Chain(recs, d)) /\ IsFiniteSet(Chain(recs, p))
             /\ Cardinality(Chain(recs, d)) = Cardinality(Chain(recs, p)) + 1
  <2>1. PICK x \in Chain(recs, d) : ~Has(recs, recs[x].parent)
    BY <1>4, <1>7 DEF LiveToTheEnd
  <2>2. LiveToTheEnd(recs, p)
    <3>1. CASE x \in Chain(recs, p)
      BY <1>3, <1>7, <2>1, <3>1 DEF LiveToTheEnd
    <3>2. CASE x = d
      <4>1. Chain(recs, p) = {}
        BY <1>1, <2>1, <3>2, ChainOfNone
      <4> QED
        BY <4>1 DEF LiveToTheEnd
    <3> QED
      BY <1>3, <3>1, <3>2
  <2>3. IsFiniteSet(Chain(recs, d))
    BY <2>1, EndingChainIsFinite
  <2>4. IsFiniteSet(Chain(recs, p))
    BY <1>3, <2>3, FS_Subset
  <2>5. d \notin Chain(recs, p)
    BY <1>1, <1>2, <2>1, ChainEnds
  <2> QED
    BY <1>3, <2>2, <2>3, <2>4, <2>5, FS_AddElement
<1> QED
  BY <1>1, <1>6, <1>7

(* A turn of the loop in each of its cases, with the answer's fields. *)
LEMMA Turns ==
  ASSUME NEW recs, NEW depth, NEW c, NEW next
  PROVE  LET answer == Turn(recs, depth, c, next) IN
         /\ ~Has(recs, c) => answer.valid /\ answer.depth = depth
         /\ Revoked(recs, c) => ~answer.valid
         /\ Live(recs, c) /\ depth + 1 > MAX_DELEGATION_DEPTH => ~answer.valid
         /\ Live(recs, c) /\ ~(depth + 1 > MAX_DELEGATION_DEPTH) =>
              answer = next[recs[c].parent]
<1>1. ASSUME NEW n
      PROVE  /\ [valid |-> FALSE, depth |-> n].valid = FALSE
             /\ [valid |-> TRUE, depth |-> n].valid = TRUE
             /\ [valid |-> TRUE, depth |-> n].depth = n
  OBVIOUS
<1>2. ~Has(recs, c) => Turn(recs, depth, c, next) = [valid |-> TRUE, depth |-> depth]
  BY DEF Turn, Revoked
<1>3. Revoked(recs, c) => Turn(recs, depth, c, next) = [valid |-> FALSE, depth |-> depth]
  BY DEF Turn, Revoked
<1>4. Live(recs, c) =>
        Turn(recs, depth, c, next) =
          IF depth + 1 > MAX_DELEGATION_DEPTH
            THEN [valid |-> FALSE, depth |-> depth + 1]
            ELSE next[recs[c].parent]
  BY DEF Turn, Revoked, Live
<1> QED
  BY <1>1, <1>2, <1>3, <1>4

(* verifyChain says "valid" of the chains that are live to their end and   *)
(* within the bound, and of no others, and counts their links.             *)
LEMMA VerifyIsExact ==
  ASSUME NEW recs, Parented(recs), NEW d \in DID
  PROVE  LET links == Chain(recs, d)
             answer == VerifyChain(recs, d) IN
         /\ answer.valid <=>
              LiveToTheEnd(recs, d) /\ Cardinality(links) <= MAX_DELEGATION_DEPTH
         /\ answer.valid => answer.depth = Cardinality(links)
<1> USE MaxDepthAssumption
<1>1. PICK walk : Walks(recs, walk) /\ \A c \in DID : VerifyChain(recs, c) = walk[0][c]
  BY VerifyWalks
<1> DEFINE Exact(depth, c) ==
      /\ walk[depth][c].valid <=>
           /\ LiveToTheEnd(recs, c)
           /\ depth + Cardinality(Chain(recs, c)) <= MAX_DELEGATION_DEPTH
      /\ walk[depth][c].valid => walk[depth][c].depth = depth + Cardinality(Chain(recs, c))
           T == {m \in 0 .. MAX_DELEGATION_DEPTH :
                   \A c \in DID : Exact(MAX_DELEGATION_DEPTH - m, c)}
<1>2. ASSUME NEW depth \in 0 .. MAX_DELEGATION_DEPTH, NEW c \in DID
      PROVE  walk[depth][c] = Turn(recs, depth, c, walk[depth + 1])
  BY <1>1 DEF Walks
<1>3. ASSUME NEW depth \in 0 .. MAX_DELEGATION_DEPTH, NEW c \in DID,
             depth < MAX_DELEGATION_DEPTH => \A e \in DID : Exact(depth + 1, e)
      PROVE  Exact(depth, c)
  <2>1. CASE ~Has(recs, c)
    <3>1. Chain(recs, c) = {} /\ Cardinality(Chain(recs, c)) = 0
      BY <2>1, ChainOfNone, FS_EmptySet
    <3>2. walk[depth][c].valid /\ walk[depth][c].depth = depth
      BY <1>2, <2>1, Turns
    <3>3. LiveToTheEnd(recs, c)
      BY <3>1 DEF LiveToTheEnd
    <3> QED
      BY <3>1, <3>2, <3>3
  <2>2. CASE Revoked(recs, c)
    <3>1. ~walk[depth][c].valid
      BY <1>2, <2>2, Turns
    <3>2. ~LiveToTheEnd(recs, c)
      BY <2>2, ChainHoldsSelf DEF LiveToTheEnd, Revoked, Live
    <3> QED
      BY <3>1, <3>2
  <2>3. CASE Live(recs, c)
    <3>1. PICK p \in DID : p = recs[c].parent
      BY <2>3, OneLinkMore
    <3>2. LiveToTheEnd(recs, c) <=> LiveToTheEnd(recs, p)
      BY <2>3, <3>1, OneLinkMore
    <3>3. LiveToTheEnd(recs, c) =>
            /\ Cardinality(Chain(recs, p)) \in Nat
            /\ Cardinality(Chain(recs, c)) = Cardinality(Chain(recs, p)) + 1
      BY <2>3, <3>1, OneLinkMore, FS_CardinalityType
    <3>4. CASE depth = MAX_DELEGATION_DEPTH
      <4>1. ~walk[depth][c].valid
        BY <1>2, <2>3, <3>4, Turns
      <4> QED
        BY <3>3, <3>4, <4>1
    <3>5. CASE depth < MAX_DELEGATION_DEPTH
      <4>1. walk[depth][c] = walk[depth + 1][p]
        BY <1>2, <2>3, <3>1, <3>5, Turns
      <4>2. Exact(depth + 1, p)
        BY <1>3, <3>5
      <4> QED
        BY <3>2, <3>3, <4>1, <4>2
    <3> QED
      BY <3>4, <3>5
  <2> QED
    BY <2>1, <2>2, <2>3 DEF Live, Revoked
<1> HIDE DEF Exact
<1>4. 0 \in T
  <2>1. \A c \in DID : Exact(MAX_DELEGATION_DEPTH, c)
    BY <1>3
  <2> QED
    BY <2>1
<1>5. ASSUME NEW m \in 0 .. MAX_DELEGATION_DEPTH - 1, m \in T
      PROVE  m + 1 \in T
  <2>1. PICK depth \in 0 .. MAX_DELEGATION_DEPTH :
          depth = MAX_DELEGATION_DEPTH - (m + 1) /\ depth + 1 = MAX_DELEGATION_DEPTH - m
    OBVIOUS
  <2>2. \A e \in DID : Exact(depth + 1, e)
    BY <1>5, <2>1
  <2>3. \A c \in DID : Exact(depth, c)
    BY <1>3, <2>2
  <2> QED
    BY <2>1, <2>3
<1>6. MAX_DELEGATION_DEPTH \in T
  <2> HIDE DEF T
  <2>1. \A i \in 0 .. MAX_DELEGATION_DEPTH - 1 : i \in T => i + 1 \in T
    BY <1>5
  <2>2. 0 .. MAX_DELEGATION_DEPTH \subseteq T
    BY <1>4, <2>1, Induct
  <2> QED
    BY <2>2
<1>7. Exact(0, d)
  BY <1>6
<1>8. LiveToTheEnd(recs, d) => Cardinality(Chain(recs, d)) \in Nat
  <2>1. CASE ~Has(recs, d)
    BY <2>1, ChainOfNone, FS_EmptySet
  <2>2. CASE Has(recs, d)
    BY <2>2, ChainHoldsSelf, EndingChainIsFinite, FS_CardinalityType DEF LiveToTheEnd
  <2> QED
    BY <2>1, <2>2
<1> QED
  BY <1>1, <1>7, <1>8 DEF Exact

(* A delegation to a DID that had none makes no chain one that is live to  *)
(* its end and was not.                                                    *)
LEMMA NewRecordMendsNothing ==
  ASSUME NEW recs, NEW other, Parented(recs), Parented(other), NEW c \in DID,
         ~Has(recs, c), Has(other, c), \A x \in DID \ {c} : other[x] = recs[x],
         NEW d \in DID, LiveToTheEnd(other, d)
  PROVE  LiveToTheEnd(recs, d) /\ Chain(recs, d) \subseteq Chain(other, d)
<1>1. \A x \in DID : Has(recs, x) =>
        Has(other, x) /\ x # c /\ other[x] = recs[x]
  BY DEF Has
<1>2. Chain(recs, d) \subseteq Chain(other, d)
  BY <1>1 DEF Chain
<1>3. \A x \in Chain(recs, d) : Has(recs, x) /\ x \in DID
  BY DEF Chain
<1>4. \A x \in Chain(recs, d) : Live(recs, x)
  BY <1>1, <1>2, <1>3 DEF LiveToTheEnd, Live
<1>5. ASSUME Has(recs, d), \A x \in Chain(recs, d) : Has(recs, recs[x].parent)
      PROVE  FALSE
  <2>1. \A x \in Chain(recs, d) : recs[x].parent \in Chain(recs, d)
    BY <1>3, <1>5 DEF Chain, Parented
  <2>2. \A x \in Chain(recs, d) : other[x].parent \in Chain(recs, d)
    BY <1>1, <1>3, <2>1
  <2>3. Chain(other, d) \subseteq Chain(recs, d)
    BY <1>3, <1>5, <2>2, ChainIsLeast, ChainHoldsSelf
  <2>4. \E x \in Chain(other, d) : ~Has(other, other[x].parent)
    BY <1>2, <1>5, ChainHoldsSelf DEF LiveToTheEnd
  <2> QED
    BY <1>1, <1>3, <2>2, <2>3, <2>4
<1>6. Chain(recs, d) = {} \/ \E x \in Chain(recs, d) : ~Has(recs, recs[x].parent)
  BY <1>5, ChainOfNone
<1> QED
  BY <1>2, <1>4, <1>6 DEF LiveToTheEnd

-----------------------------------------------------------------------------
(* The storage names agents as parents. *)
LEMMA StorageIsParented == ASSUME NEW recs \in [DID -> Delegation \cup {NoRecord}]
                           PROVE  Parented(recs)
BY DEF Parented, Has, Delegation

(* In every state verifyChain answers exactly for the chains that are live, *)
(* end, and are within the bound, however long or cyclic the others are.    *)
THEOREM VerifyChainIsExact == ChainSpec => []VerifyChainExact
<1>1. ChainTypeOK => VerifyChainExact
  <2> SUFFICES ASSUME ChainTypeOK, NEW d \in DID
               PROVE  LET links == Chain(delegations, d)
                          answer == VerifyChain(delegations, d) IN
                      /\ answer.valid <=>
                           /\ \A x \in links : Live(delegations, x)
                           /\ links = {} \/ \E x \in links : ~Has(delegations, delegations[x].parent)
                           /\ Cardinality(links) <= MAX_DELEGATION_DEPTH
                      /\ answer.valid => answer.depth = Cardinality(links)
    BY DEF VerifyChainExact
  <2>1. Parented(delegations)
    BY StorageIsParented DEF ChainTypeOK
  <2> QED
    BY <2>1, VerifyIsExact DEF LiveToTheEnd
<1> QED
  BY <1>1, ChainTypeCorrect, PTL

(* What verifyChain refuses it refuses for ever.  A revocation leaves the   *)
(* chains as they are and fewer live; a new delegation lengthens those that *)
(* ended at its child, and closes none that did not end.                    *)
THEOREM RefusedForEver == ChainSpec => RefusedStaysRefused
<1>1. ASSUME ChainTypeOK, ChainTypeOK', [ChainNext]_chainVars, NEW d \in DID,
             VerifyChain(delegations', d).valid
      PROVE  VerifyChain(delegations, d).valid
  <2>1. Parented(delegations) /\ Parented(delegations')
    BY <1>1, StorageIsParented DEF ChainTypeOK
  <2>2. /\ LiveToTheEnd(delegations', d)
        /\ Cardinality(Chain(delegations', d)) <= MAX_DELEGATION_DEPTH
    BY <1>1, <2>1, VerifyIsExact
  <2>3. SUFFICES /\ LiveToTheEnd(delegations, d)
                 /\ Chain(delegations, d) \subseteq Chain(delegations', d)
    <3>1. IsFiniteSet(Chain(delegations', d))
      BY <2>1, <2>2, EndingChainIsFinite, FS_EmptySet DEF LiveToTheEnd
    <3>2. /\ Cardinality(Chain(delegations, d)) <= Cardinality(Chain(delegations', d))
          /\ Cardinality(Chain(delegations, d)) \in Nat
          /\ Cardinality(Chain(delegations', d)) \in Nat
      BY <2>3, <3>1, FS_Subset, FS_CardinalityType
    <3>3. Cardinality(Chain(delegations, d)) <= MAX_DELEGATION_DEPTH
      BY <2>2, <3>2, MaxDepthAssumption
    <3> QED
      BY <2>1, <2>3, <3>3, VerifyIsExact
  <2>4. ASSUME NEW a \in Sender, NEW p \in DID, NEW c \in DID, NEW depth \in DepthArg,
               CreateDelegation(a, p, c, depth)
        PROVE  /\ LiveToTheEnd(delegations, d)
               /\ Chain(delegations, d) \subseteq Chain(delegations', d)
    <3>1. /\ ~Has(delegations, c)
          /\ \A x \in DID \ {c} : delegations'[x] = delegations[x]
          /\ delegations'[c] \in Delegation
      <4>1. [parent |-> p, registeredBy |-> a, depth |-> depth, revoked |-> FALSE] \in Delegation
        BY DEF Delegation
      <4> QED
        BY <1>1, <2>4, <4>1 DEF CreateDelegation, Register, ChainTypeOK
    <3>2. Has(delegations', c)
      BY <3>1, NoDelegationAssumption DEF Has
    <3> QED
      BY <2>1, <2>2, <3>1, <3>2, NewRecordMendsNothing
  <2>5. ASSUME NEW S, delegations' = RevokeAll(delegations, S)
        PROVE  /\ LiveToTheEnd(delegations, d)
               /\ Chain(delegations, d) \subseteq Chain(delegations', d)
    <3>1. \A x \in DID :
            /\ Has(delegations, x) <=> Has(delegations', x)
            /\ Has(delegations, x) => delegations[x].parent = delegations'[x].parent
            /\ Live(delegations', x) => Live(delegations, x)
      BY <1>1, <2>5, RevokeKeepsRest DEF ChainTypeOK, Live
    <3>2. Chain(delegations, d) = Chain(delegations', d)
      BY <3>1, ChainsAgree
    <3>3. \A x \in Chain(delegations, d) :
            x \in DID /\ Has(delegations, x) /\ delegations[x].parent \in DID
      BY <2>1 DEF Chain, Parented
    <3> QED
      BY <2>2, <3>1, <3>2, <3>3 DEF LiveToTheEnd
  <2>6. CASE ChainNext
    BY <2>4, <2>5, <2>6 DEF ChainNext, RevokeDelegation
  <2>7. CASE UNCHANGED chainVars
    BY <2>2, <2>7 DEF chainVars
  <2> QED
    BY <1>1, <2>6, <2>7
<1>2. ChainTypeOK /\ ChainTypeOK' /\ [ChainNext]_chainVars =>
        [\A d \in DID : ~VerifyChain(delegations, d).valid =>
                           ~VerifyChain(delegations', d).valid]_chainVars
  BY <1>1
<1> QED
  BY <1>2, ChainTypeCorrect, PTL DEF ChainSpec, RefusedStaysRefused

-----------------------------------------------------------------------------
(* TrustDIDRegistry. *)

(* A DID that was decommissioned by name is so, and is not listed to again. *)
EndedAreDecommissioned == \A p \in ended : Exists(p) /\ Status(p) = DECOMMISSIONED

(* What was published for a DID is older than its record, or is its record. *)
PublishedPast ==
  \A x \in published :
    /\ Exists(x[1])
    /\ x[2] <= records[x[1]].nonce
    /\ x[2] = records[x[1]].nonce =>
         /\ x[3] = records[x[1]].documentHash
         /\ x[4] = records[x[1]].preRotationCommitment

(* Only DIDs with a record are ever listed. *)
ChildrenExist == \A p \in DIDString : \A c \in children[p] : Exists(c)

RegistryInv ==
  /\ RegistryTypeOK
  /\ ChildrenExist
  /\ EndedAreDecommissioned
  /\ EndedFamilies
  /\ PublishedPast
  /\ NonceNamesDocument

LEMMA RegistryInvInit == RegistryInit => RegistryInv
BY DEF RegistryInit, RegistryInv, RegistryTypeOK, ChildrenExist, EndedAreDecommissioned,
       EndedFamilies, PublishedPast, NonceNamesDocument

(* A record that replaces none, or one that is not decommissioned, and that *)
(* differs from it in document only with a larger nonce, may be stored.     *)
LEMMA StoreKeepsInv ==
  ASSUME RegistryInv, NEW d \in DIDString, NEW r \in DIDRecord, Store(d, r),
         Exists(d) => /\ Status(d) # DECOMMISSIONED
                      /\ \/ records[d].nonce < r.nonce
                         \/ /\ records[d].nonce = r.nonce
                            /\ records[d].documentHash = r.documentHash
                            /\ records[d].preRotationCommitment = r.preRotationCommitment
  PROVE  RegistryInv'
<1> DEFINE now == <<d, r.nonce, r.documentHash, r.preRotationCommitment>>
<1>1. /\ records' = [records EXCEPT ![d] = r]
      /\ published' = published \cup {now}
      /\ children' = children /\ ended' = ended
  BY DEF Store
<1>2. now \in DIDString \X (0 .. MAX_NONCE) \X Hash \X Key
  BY DEF DIDRecord
<1>3. r # NoDID
  BY NoDIDAssumption
<1>4. RegistryTypeOK'
  BY <1>1, <1>2 DEF RegistryInv, RegistryTypeOK
<1>5. records'[d] = r /\ \A x \in DIDString \ {d} : records'[x] = records[x]
  BY <1>1 DEF RegistryInv, RegistryTypeOK
<1>6. d \notin ended
  BY DEF RegistryInv, EndedAreDecommissioned
<1>7. EndedAreDecommissioned'
  BY <1>1, <1>5, <1>6 DEF RegistryInv, RegistryTypeOK, EndedAreDecommissioned, Exists, Status
<1>8. EndedFamilies'
  <2> SUFFICES ASSUME NEW p \in ended, NEW c \in children[p]
               PROVE  Exists(c)' /\ Status(c)' = DECOMMISSIONED
    BY <1>1 DEF EndedFamilies
  <2>1. c \in DIDString /\ Exists(c) /\ Status(c) = DECOMMISSIONED
    BY DEF RegistryInv, RegistryTypeOK, EndedFamilies
  <2> QED
    BY <1>5, <2>1 DEF Exists, Status
<1>9. now[1] = d /\ now[2] = r.nonce /\ now[3] = r.documentHash
      /\ now[4] = r.preRotationCommitment
  OBVIOUS
<1> HIDE DEF now
<1>10. ASSUME NEW x \in published, x[1] = d
       PROVE  x[2] < r.nonce \/ x = now
  <2>1. /\ x \in DIDString \X (0 .. MAX_NONCE) \X Hash \X Key
        /\ Exists(d) /\ x[2] <= records[d].nonce
        /\ x[2] = records[d].nonce =>
             /\ x[3] = records[d].documentHash
             /\ x[4] = records[d].preRotationCommitment
    BY <1>10 DEF RegistryInv, RegistryTypeOK, PublishedPast
  <2>2. x[2] \in Int /\ records[d].nonce \in Int /\ r.nonce \in Int
    BY <2>1, MaxNonceAssumption DEF RegistryInv, RegistryTypeOK, Exists, DIDRecord
  <2>3. CASE x[2] < r.nonce
    BY <2>3
  <2>4. CASE ~(x[2] < r.nonce)
    <3>1. x[2] = r.nonce /\ x[2] = records[d].nonce
      BY <2>1, <2>2, <2>4
    <3>2. x[3] = r.documentHash /\ x[4] = r.preRotationCommitment
      BY <2>1, <2>2, <3>1
    <3> QED
      BY <1>10, <2>1, <3>1, <3>2 DEF now
  <2> QED
    BY <2>3, <2>4
<1>11. PublishedPast'
  <2> SUFFICES ASSUME NEW x \in published \cup {now}
               PROVE  /\ Exists(x[1])'
                      /\ x[2] <= records'[x[1]].nonce
                      /\ x[2] = records'[x[1]].nonce =>
                           /\ x[3] = records'[x[1]].documentHash
                           /\ x[4] = records'[x[1]].preRotationCommitment
    BY <1>1 DEF PublishedPast
  <2>1. r.nonce \in Int /\ x[2] \in Int
    BY <1>2, MaxNonceAssumption DEF RegistryInv, RegistryTypeOK, DIDRecord
  <2>2. CASE x = now
    BY <1>3, <1>5, <1>9, <2>1, <2>2 DEF Exists
  <2>3. CASE x \in published /\ x[1] = d
    BY <1>3, <1>5, <1>9, <1>10, <2>1, <2>3 DEF Exists
  <2>4. CASE x \in published /\ x[1] # d
    <3>1. x[1] \in DIDString
      BY <2>4 DEF RegistryInv, RegistryTypeOK
    <3> QED
      BY <1>5, <2>4, <3>1 DEF RegistryInv, PublishedPast, Exists
  <2> QED
    BY <2>2, <2>3, <2>4
<1>12. NonceNamesDocument'
  <2> SUFFICES ASSUME NEW x \in published \cup {now}, NEW y \in published \cup {now},
                      x[1] = y[1], x[2] = y[2]
               PROVE  x = y
    BY <1>1 DEF NonceNamesDocument
  <2>1. r.nonce \in Int
    BY MaxNonceAssumption DEF DIDRecord
  <2>2. CASE x \in published /\ y \in published
    BY <2>2 DEF RegistryInv, NonceNamesDocument
  <2>3. CASE x = now \/ y = now
    BY <1>9, <1>10, <2>1, <2>3
  <2> QED
    BY <2>2, <2>3
<1>13. ChildrenExist'
  <2>1. \A x \in DIDString : Exists(x) => Exists(x)'
    BY <1>3, <1>5 DEF Exists
  <2> QED
    BY <1>1, <2>1 DEF RegistryInv, RegistryTypeOK, ChildrenExist
<1> QED
  BY <1>4, <1>7, <1>8, <1>11, <1>12, <1>13 DEF RegistryInv

(* decommissionDID: no document changes, and every listed child goes along. *)
LEMMA DecommissionKeepsInv ==
  ASSUME RegistryInv, NEW a \in Account, NEW d \in DIDString, DecommissionDID(a, d)
  PROVE  RegistryInv'
<1> DEFINE gone == {d} \cup children[d]
<1>1. /\ records' = [x \in DIDString |-> IF x \in gone
                                     THEN [records[x] EXCEPT !.status = DECOMMISSIONED]
                                     ELSE records[x]]
      /\ ended' = ended \cup {d} /\ children' = children /\ published' = published
      /\ Exists(d)
  BY DEF DecommissionDID, OwnedBy
<1>2. d \in gone /\ children[d] \subseteq gone /\ gone \subseteq DIDString
  BY DEF RegistryInv, RegistryTypeOK
<1>3. \A x \in gone : Exists(x)
  BY <1>1 DEF RegistryInv, ChildrenExist
<1> HIDE DEF gone
<1>4. ASSUME NEW x \in DIDString, Exists(x)
      PROVE  /\ Exists(x)'
             /\ records'[x] \in DIDRecord
             /\ records'[x].nonce = records[x].nonce
             /\ records'[x].documentHash = records[x].documentHash
             /\ records'[x].preRotationCommitment = records[x].preRotationCommitment
             /\ Status(x)' = IF x \in gone THEN DECOMMISSIONED ELSE Status(x)
  <2>1. records[x] \in DIDRecord
    BY <1>4 DEF RegistryInv, RegistryTypeOK, Exists
  <2>2. CASE x \in gone
    <3>1. records'[x] = [records[x] EXCEPT !.status = DECOMMISSIONED]
      BY <1>1, <2>2
    <3>2. records'[x] \in DIDRecord
      BY <2>1, <3>1 DEF DIDRecord
    <3>3. records'[x] # NoDID
      BY <3>2, NoDIDAssumption
    <3> QED
      BY <2>1, <2>2, <3>1, <3>2, <3>3 DEF Exists, Status, DIDRecord
  <2>3. CASE x \notin gone
    BY <1>1, <1>4, <2>1, <2>3 DEF Exists, Status
  <2> QED
    BY <2>2, <2>3
<1>5. RegistryTypeOK'
  <2>1. ASSUME NEW x \in DIDString PROVE records'[x] \in DIDRecord \cup {NoDID}
    BY <1>1, <1>3, <1>4 DEF RegistryInv, RegistryTypeOK, Exists
  <2> QED
    BY <1>1, <2>1 DEF RegistryInv, RegistryTypeOK
<1>6. EndedAreDecommissioned'
  BY <1>1, <1>2, <1>4 DEF RegistryInv, RegistryTypeOK, EndedAreDecommissioned
<1>7. EndedFamilies'
  <2> SUFFICES ASSUME NEW p \in ended \cup {d}, NEW c \in children[p]
               PROVE  Exists(c)' /\ Status(c)' = DECOMMISSIONED
    BY <1>1 DEF EndedFamilies
  <2>1. c \in DIDString
    BY DEF RegistryInv, RegistryTypeOK
  <2>2. CASE p = d
    BY <1>2, <1>3, <1>4, <2>1, <2>2
  <2>3. CASE p \in ended
    BY <1>4, <2>1, <2>3 DEF RegistryInv, EndedFamilies
  <2> QED
    BY <2>2, <2>3
<1>8. PublishedPast'
  <2> SUFFICES ASSUME NEW x \in published
               PROVE  /\ Exists(x[1])'
                      /\ x[2] <= records'[x[1]].nonce
                      /\ x[2] = records'[x[1]].nonce =>
                           /\ x[3] = records'[x[1]].documentHash
                           /\ x[4] = records'[x[1]].preRotationCommitment
    BY <1>1 DEF PublishedPast
  <2>1. x[1] \in DIDString /\ Exists(x[1])
    BY DEF RegistryInv, RegistryTypeOK, PublishedPast
  <2> QED
    BY <1>4, <2>1 DEF RegistryInv, PublishedPast
<1>9. NonceNamesDocument'
  BY <1>1 DEF RegistryInv, NonceNamesDocument
<1>10. ChildrenExist'
  BY <1>1, <1>4 DEF RegistryInv, RegistryTypeOK, ChildrenExist
<1> QED
  BY <1>5, <1>6, <1>7, <1>8, <1>9, <1>10 DEF RegistryInv

(* registerDelegation lists under an active parent only, which has not ended. *)
LEMMA RegisterKeepsInv ==
  ASSUME RegistryInv, NEW a \in Account, NEW p \in DIDString, NEW c \in DIDString,
         RegisterDelegation(a, p, c)
  PROVE  RegistryInv'
<1>1. /\ children' = [children EXCEPT ![p] = @ \cup {c}]
      /\ records' = records /\ ended' = ended /\ published' = published
      /\ Exists(c) /\ Status(p) = ACTIVE
  BY DEF RegisterDelegation
<1>2. p \notin ended
  BY <1>1 DEF RegistryInv, EndedAreDecommissioned, ACTIVE, DECOMMISSIONED
<1>3. \A q \in DIDString : children'[q] = IF q = p THEN children[p] \cup {c} ELSE children[q]
  BY <1>1 DEF RegistryInv, RegistryTypeOK
<1>4. \A x : (Exists(x)' <=> Exists(x)) /\ Status(x)' = Status(x)
  BY <1>1 DEF Exists, Status
<1>5. RegistryTypeOK'
  BY <1>1 DEF RegistryInv, RegistryTypeOK
<1>6. ChildrenExist' /\ EndedAreDecommissioned' /\ EndedFamilies'
  BY <1>1, <1>2, <1>3, <1>4
     DEF RegistryInv, RegistryTypeOK, ChildrenExist, EndedAreDecommissioned, EndedFamilies
<1>7. PublishedPast' /\ NonceNamesDocument'
  BY <1>1 DEF RegistryInv, PublishedPast, NonceNamesDocument, Exists
<1> QED
  BY <1>5, <1>6, <1>7 DEF RegistryInv

-----------------------------------------------------------------------------
(* The record that a function other than decommissionDID stores. *)

LEMMA CreateStores ==
  ASSUME NEW a \in Account, NEW d \in DIDString, NEW hash \in Hash, NEW key \in Key,
         CreateDID(a, d, hash, key)
  PROVE  ~Exists(d) /\ \E r \in DIDRecord : Store(d, r)
<1>1. [owner |-> a, status |-> ACTIVE, nonce |-> 0,
       documentHash |-> hash, preRotationCommitment |-> key] \in DIDRecord
  BY MaxNonceAssumption DEF DIDRecord
<1> QED
  BY <1>1 DEF CreateDID

LEMMA DocumentStores ==
  ASSUME RegistryTypeOK, NEW d \in DIDString, Exists(d), NEW hash \in Hash, NEW key \in Key,
         NewDocument(d, hash, key)
  PROVE  \E r \in DIDRecord :
            Store(d, r) /\ records[d].nonce < r.nonce /\ r.status = Status(d)
<1> DEFINE r == [records[d] EXCEPT !.documentHash = hash,
                                   !.preRotationCommitment = key,
                                   !.nonce = @ + 1]
<1>1. records[d] \in DIDRecord /\ records[d].nonce < MAX_NONCE /\ Store(d, r)
  BY DEF RegistryTypeOK, Exists, NewDocument
<1>2. records[d].nonce + 1 \in 0 .. MAX_NONCE /\ records[d].nonce < records[d].nonce + 1
  BY <1>1, MaxNonceAssumption DEF DIDRecord
<1>3. r \in DIDRecord /\ r.nonce = records[d].nonce + 1 /\ r.status = records[d].status
  BY <1>1, <1>2 DEF DIDRecord
<1> QED
  BY <1>1, <1>2, <1>3 DEF Status

LEMMA DeactivateStores ==
  ASSUME RegistryTypeOK, NEW a \in Account, NEW d \in DIDString, DeactivateDID(a, d)
  PROVE  \E r \in DIDRecord :
            /\ Store(d, r) /\ r = [records[d] EXCEPT !.status = DEACTIVATED]
            /\ r.status = DEACTIVATED /\ r.nonce = records[d].nonce
            /\ r.documentHash = records[d].documentHash
            /\ r.preRotationCommitment = records[d].preRotationCommitment
<1>1. records[d] \in DIDRecord
  BY DEF RegistryTypeOK, Exists, DeactivateDID, OwnedBy
<1>2. [records[d] EXCEPT !.status = DEACTIVATED] \in DIDRecord
  BY <1>1 DEF DIDRecord
<1> QED
  BY <1>1, <1>2 DEF DeactivateDID, DIDRecord

LEMMA RegistryInvNext == RegistryInv /\ [RegistryNext]_registryVars => RegistryInv'
<1> SUFFICES ASSUME RegistryInv, [RegistryNext]_registryVars
             PROVE  RegistryInv'
  OBVIOUS
<1> USE DEF RegistryInv
<1>1. CASE UNCHANGED registryVars
  BY <1>1 DEF registryVars, RegistryTypeOK, ChildrenExist, EndedAreDecommissioned,
              EndedFamilies, PublishedPast, NonceNamesDocument, Exists, Status
<1>2. ASSUME NEW a \in Account, NEW d \in DIDString, NEW hash \in Hash, NEW key \in Key,
             CreateDID(a, d, hash, key)
      PROVE  RegistryInv'
  BY <1>2, CreateStores, StoreKeepsInv
<1>3. ASSUME NEW d \in DIDString, Exists(d), Status(d) = ACTIVE, NEW hash \in Hash, NEW key \in Key,
             NewDocument(d, hash, key)
      PROVE  RegistryInv'
  BY <1>3, DocumentStores, StoreKeepsInv DEF ACTIVE, DECOMMISSIONED
<1>4. ASSUME NEW a \in Account, NEW d \in DIDString, NEW hash \in Hash, UpdateDID(a, d, hash)
      PROVE  RegistryInv'
  <2>1. Exists(d) /\ records[d].preRotationCommitment \in Key
    BY <1>4 DEF UpdateDID, OwnedBy, Exists, RegistryTypeOK, DIDRecord
  <2> QED
    BY <1>3, <1>4, <2>1 DEF UpdateDID
<1>5. ASSUME NEW a \in Account, NEW d \in DIDString, DeactivateDID(a, d)
      PROVE  RegistryInv'
  <2>1. Status(d) # DECOMMISSIONED
    BY <1>5 DEF DeactivateDID, ACTIVE, DECOMMISSIONED
  <2> QED
    BY <1>5, <2>1, DeactivateStores, StoreKeepsInv
<1>6. ASSUME NEW a \in Account, NEW d \in DIDString, DecommissionDID(a, d)
      PROVE  RegistryInv'
  BY <1>6, DecommissionKeepsInv
<1>7. ASSUME NEW a \in Account, NEW d \in DIDString, NEW hash \in Hash, NEW proof \in Key,
             NEW key \in Key, RotateKey(a, d, hash, proof, key)
      PROVE  RegistryInv'
  BY <1>3, <1>7 DEF RotateKey, OwnedBy
<1>8. ASSUME NEW a \in Account, NEW d \in DIDString, NEW c \in DIDString, RegisterDelegation(a, d, c)
      PROVE  RegistryInv'
  BY <1>8, RegisterKeepsInv
<1> QED
  BY <1>1, <1>2, <1>4, <1>5, <1>6, <1>7, <1>8 DEF RegistryNext

LEMMA RegistryInvariant == RegistrySpec => []RegistryInv
BY RegistryInvInit, RegistryInvNext, PTL DEF RegistrySpec

(* The contract's storage keeps its types. *)
THEOREM RegistryTypeCorrect == RegistrySpec => []RegistryTypeOK
BY RegistryInvariant, PTL DEF RegistryInv

(* The children of a DID decommissioned by name stay decommissioned, all of them. *)
THEOREM FamiliesEnd == RegistrySpec => []EndedFamilies
BY RegistryInvariant, PTL DEF RegistryInv

(* A DID and a nonce name one document for ever, up to the largest nonce. *)
THEOREM NoncesNameDocuments == RegistrySpec => []NonceNamesDocument
BY RegistryInvariant, PTL DEF RegistryInv

(* A status never goes back, and only a status changes once it is not active. *)
THEOREM StatusNeverGoesBack == RegistrySpec => StatusGoesForward
<1>1. ASSUME RegistryInv, [RegistryNext]_registryVars, NEW d \in DIDString, Exists(d)
      PROVE  ForwardOnly(d)
  <2> DEFINE Same == /\ Exists(d)' /\ records'[d] = records[d]
  <2>1. records[d] \in DIDRecord
    BY <1>1 DEF RegistryInv, RegistryTypeOK, Exists
  <2>2. /\ Status(d) \in {ACTIVE, DEACTIVATED, DECOMMISSIONED}
        /\ records[d] = [records[d] EXCEPT !.status = Status(d)]
    BY <2>1 DEF DIDRecord, Status
  <2>3. Status(d) >= Status(d) /\ DEACTIVATED >= ACTIVE /\ DECOMMISSIONED >= Status(d)
    BY <2>2 DEF ACTIVE, DEACTIVATED, DECOMMISSIONED
  <2>4. ASSUME Same PROVE ForwardOnly(d)
    <3>1. Status(d)' = Status(d)
      BY <2>4 DEF Status
    <3>2. Status(d) # ACTIVE => Status(d) \in {DEACTIVATED, DECOMMISSIONED}
      BY <2>2
    <3> QED
      BY <2>2, <2>3, <2>4, <3>1, <3>2 DEF ForwardOnly
  <2>5. ASSUME NEW e \in DIDString, NEW r \in DIDRecord, Store(e, r),
               e = d => Status(d) = ACTIVE /\ r.status \in {ACTIVE, DEACTIVATED}
        PROVE  ForwardOnly(d)
    <3>1. records' = [records EXCEPT ![e] = r]
      BY <2>5 DEF Store
    <3>2. CASE e = d
      <4>1. records'[d] = r /\ r # NoDID
        BY <1>1, <3>1, <3>2, NoDIDAssumption DEF RegistryInv, RegistryTypeOK
      <4>2. Status(d)' >= Status(d)
        BY <2>5, <3>2, <4>1 DEF Status, ACTIVE, DEACTIVATED
      <4> QED
        BY <2>5, <3>2, <4>1, <4>2 DEF ForwardOnly, Exists
    <3>3. CASE e # d
      BY <1>1, <2>4, <3>1, <3>3 DEF RegistryInv, RegistryTypeOK, Exists
    <3> QED
      BY <3>2, <3>3
  <2>6. CASE UNCHANGED registryVars
    BY <1>1, <2>4, <2>6 DEF registryVars, Exists
  <2>7. ASSUME NEW a \in Account, NEW e \in DIDString, NEW hash \in Hash, NEW key \in Key,
               CreateDID(a, e, hash, key)
        PROVE  ForwardOnly(d)
    BY <1>1, <2>5, <2>7, CreateStores
  <2>8. ASSUME NEW e \in DIDString, Exists(e), Status(e) = ACTIVE, NEW hash \in Hash, NEW key \in Key,
               NewDocument(e, hash, key)
        PROVE  ForwardOnly(d)
    BY <1>1, <2>5, <2>8, DocumentStores DEF RegistryInv
  <2>9. ASSUME NEW a \in Account, NEW e \in DIDString, NEW hash \in Hash, UpdateDID(a, e, hash)
        PROVE  ForwardOnly(d)
    <3>1. Exists(e) /\ records[e].preRotationCommitment \in Key
      BY <1>1, <2>9 DEF UpdateDID, OwnedBy, Exists, RegistryInv, RegistryTypeOK, DIDRecord
    <3> QED
      BY <2>8, <2>9, <3>1 DEF UpdateDID
  <2>10. ASSUME NEW a \in Account, NEW e \in DIDString, DeactivateDID(a, e)
         PROVE  ForwardOnly(d)
    <3>1. Status(e) = ACTIVE
      BY <2>10 DEF DeactivateDID
    <3> QED
      BY <1>1, <2>5, <2>10, <3>1, DeactivateStores DEF RegistryInv
  <2>11. ASSUME NEW a \in Account, NEW e \in DIDString, DecommissionDID(a, e)
         PROVE  ForwardOnly(d)
    <3>1. \/ records'[d] = [records[d] EXCEPT !.status = DECOMMISSIONED]
          \/ records'[d] = records[d]
      BY <2>11 DEF DecommissionDID
    <3>2. CASE records'[d] = [records[d] EXCEPT !.status = DECOMMISSIONED]
      <4>1. records'[d] \in DIDRecord /\ records'[d].status = DECOMMISSIONED
        BY <2>1, <3>2 DEF DIDRecord
      <4>2. Exists(d)'
        BY <4>1, NoDIDAssumption DEF Exists
      <4> QED
        BY <2>3, <3>2, <4>1, <4>2 DEF ForwardOnly, Status
    <3>3. CASE records'[d] = records[d]
      BY <1>1, <2>4, <3>3 DEF Exists
    <3> QED
      BY <3>1, <3>2, <3>3
  <2>12. ASSUME NEW a \in Account, NEW e \in DIDString, NEW hash \in Hash, NEW proof \in Key,
                NEW key \in Key, RotateKey(a, e, hash, proof, key)
         PROVE  ForwardOnly(d)
    BY <2>8, <2>12 DEF RotateKey, OwnedBy
  <2>13. ASSUME NEW a \in Account, NEW e \in DIDString, NEW c \in DIDString, RegisterDelegation(a, e, c)
         PROVE  ForwardOnly(d)
    BY <1>1, <2>4, <2>13 DEF RegisterDelegation, Exists
  <2> QED
    BY <1>1, <2>6, <2>7, <2>9, <2>10, <2>11, <2>12, <2>13 DEF RegistryNext
<1>2. RegistryInv /\ [RegistryNext]_registryVars => \A d \in DIDString : ForwardOnly(d)
  BY <1>1 DEF ForwardOnly
<1> QED
  BY <1>2, RegistryInvariant, PTL DEF RegistrySpec, StatusGoesForward
=============================================================================
