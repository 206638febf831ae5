--------------------------- MODULE DelegationChain ---------------------------
(****************************************************************************)
(* The contract DelegationChain.  A transaction is atomic, so each external *)
(* function is one action; one that reverts is no step.                     *)
(*                                                                          *)
(* A delegation's id is the hash of its parent, its child and the block's   *)
(* time, and a child is delegated to once, so that the child stands for     *)
(* the id, and the list of a parent's delegations for the records that      *)
(* name it.  maxDepth, the capability hash and the time are stored and      *)
(* never read again by the contract; they are left out.                     *)
(****************************************************************************)
EXTENDS DelegationGraph, Integers, FiniteSets

CONSTANTS
  Sender,               \* msg.sender
  DepthArg,             \* the depths callers pass (a subset of uint8)
  MAX_DELEGATION_DEPTH  \* 10 in the contract

ASSUME MaxDepthAssumption == MAX_DELEGATION_DEPTH \in Nat
ASSUME DepthArgAssumption == DepthArg \subseteq Nat

Delegation ==
  [parent : DID, registeredBy : Sender, depth : DepthArg, revoked : BOOLEAN]

ASSUME NoDelegationAssumption == NoRecord \notin Delegation

VARIABLES
  delegations,  \* _delegations through _childDelegation
  spared,       \* history: the DIDs whose delegation was revoked without cascade
  late          \* history: the DIDs delegated to by a DID whose own was revoked

chainVars == <<delegations, spared, late>>

Revoked(recs, d) == Has(recs, d) /\ recs[d].revoked

ChainInit ==
  /\ delegations = [d \in DID |-> NoRecord]
  /\ spared = {}
  /\ late = {}

(* The record of a new delegation, and the note of a parent already revoked. *)
Register(a, p, c, depth) ==
  /\ delegations' =
       [delegations EXCEPT ![c] =
          [parent |-> p, registeredBy |-> a, depth |-> depth, revoked |-> FALSE]]
  /\ late' = IF Revoked(delegations, p) THEN late \cup {c} ELSE late
  /\ UNCHANGED spared

(* Bug: a child whose delegation was revoked may get another one. *)
BugCreateDelegation(a, p, c, depth) ==
  /\ depth <= MAX_DELEGATION_DEPTH
  /\ ~Live(delegations, c)
  /\ Register(a, p, c, depth)

(* depth <= maxDepth holds for some maxDepth.  Nothing is asked about the  *)
(* parent: neither its depth, nor whether it is revoked.                   *)
CreateDelegation(a, p, c, depth) ==
  /\ depth <= MAX_DELEGATION_DEPTH
  /\ ~Has(delegations, c)
  /\ Register(a, p, c, depth)

(* Bug: the cascade revokes the children and stops there. *)
BugOneLevel(d) == LiveChildren(RevokeAll(delegations, {d}), {d})

(* Bug: the cascade starts at the parent of the delegation. *)
BugFromParent(d) ==
  LiveBelow(RevokeAll(delegations, {d}), {delegations[d].parent})

(* What _cascadeRevoke reaches from the child of a delegation just revoked: *)
(* it goes on below a delegation only when it is the one to revoke it.      *)
Cascaded(d) == LiveBelow(RevokeAll(delegations, {d}), {d})

RevokeDelegation(a, d, cascade) ==
  /\ Live(delegations, d)
  /\ delegations[d].registeredBy = a
  /\ delegations' =
       RevokeAll(delegations, {d} \cup (IF cascade THEN Cascaded(d) ELSE {}))
  /\ spared' = IF cascade THEN spared ELSE spared \cup {d}
  /\ UNCHANGED late

ChainNext ==
  \E a \in Sender :
    \/ \E p, c \in DID, depth \in DepthArg : CreateDelegation(a, p, c, depth)
    \/ \E d \in DID, cascade \in BOOLEAN : RevokeDelegation(a, d, cascade)

ChainSpec == ChainInit /\ [][ChainNext]_chainVars

-----------------------------------------------------------------------------
(* verifyChain: the loop's two variables are the links behind it and the DID *)
(* it has come to.                                                           *)

(* Bug: the bound is tested with >=. *)
BugVerifyChain(recs, d) ==
  LET walk[depth \in 0 .. MAX_DELEGATION_DEPTH] ==
        [c \in DID |->
           CASE ~Has(recs, c) -> [valid |-> TRUE, depth |-> depth]
             [] Revoked(recs, c) -> [valid |-> FALSE, depth |-> depth]
             [] OTHER ->
                  IF depth + 1 >= MAX_DELEGATION_DEPTH
                    THEN [valid |-> FALSE, depth |-> depth + 1]
                    ELSE walk[depth + 1][recs[c].parent]]
  IN  walk[0][d]

VerifyChain(recs, d) ==
  LET walk[depth \in 0 .. MAX_DELEGATION_DEPTH] ==
        [c \in DID |->
           CASE ~Has(recs, c) -> [valid |-> TRUE, depth |-> depth]
             [] Revoked(recs, c) -> [valid |-> FALSE, depth |-> depth]
             [] OTHER ->
                  IF depth + 1 > MAX_DELEGATION_DEPTH
                    THEN [valid |-> FALSE, depth |-> depth + 1]
                    ELSE walk[depth + 1][recs[c].parent]]
  IN  walk[0][d]

-----------------------------------------------------------------------------
(* The types of the contract's storage. *)
ChainTypeOK ==
  /\ delegations \in [DID -> Delegation \cup {NoRecord}]
  /\ spared \subseteq DID
  /\ late \subseteq DID

(* A live delegation under a revoked one has one of two explanations: the  *)
(* one above it was revoked by a call that asked for no cascade, or it was *)
(* made afterwards.  A cascade leaves no other (lines 100-115).            *)
ChainOrphansExplained ==
  \A d \in DID :
    LET p == delegations[d].parent IN
    Live(delegations, d) /\ Revoked(delegations, p) => p \in spared \/ d \in late

(* verifyChain answers "valid" exactly when the links above the DID are all  *)
(* live, end at a DID nobody delegated to, and are no more than the maximum; *)
(* it then counts them (lines 149-174).  The caller's depths play no part.   *)
VerifyChainExact ==
  \A d \in DID :
    LET links == Chain(delegations, d)
        answer == VerifyChain(delegations, d) IN
    /\ answer.valid <=>
         /\ \A x \in links : Live(delegations, x)
         /\ links = {} \/ \E x \in links : ~Has(delegations, delegations[x].parent)
         /\ Cardinality(links) <= MAX_DELEGATION_DEPTH
    /\ answer.valid => answer.depth = Cardinality(links)

(* A DID that verifyChain refuses is refused for ever: no transaction after *)
(* a revocation, or on a cycle or an overlong chain, makes it valid again.  *)
RefusedStaysRefused ==
  [][\A d \in DID :
       ~VerifyChain(delegations, d).valid => ~VerifyChain(delegations', d).valid]_chainVars

(* What one transaction revokes hangs under a single delegation that its   *)
(* sender registered: a cascade never reaches a sibling or an ancestor.    *)
RevokedHangTogether ==
  LET gone == {d \in DID : Live(delegations, d) /\ ~Live(delegations', d)} IN
  gone # {} => \E r \in gone : \A d \in gone : r \in Chain(delegations, d)

RevocationStaysBelow == [][RevokedHangTogether]_chainVars
==============================================================================
