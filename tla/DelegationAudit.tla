-------------------------- MODULE DelegationAudit ---------------------------
(***************************************************************************)
(* DelegationStore with the capability engine in the place of its open     *)
(* coverage relation, and with two history variables that the code does    *)
(* not have.  They record the two ways in which the documented guarantees  *)
(* of delegation are lost, so that the properties can say that there is no *)
(* other: an insert that no longer meets the checks it passed, and a       *)
(* revocation that was asked not to cascade.                               *)
(***************************************************************************)
EXTENDS DelegationStore, CapabilityEngine

CONSTANT Use  \* what agents try to do: a resource, an action and a context

ASSUME CapabilityAssumption == \A c \in Capability : c.constraints \in Seq(Constraint)
ASSUME CoversAssumption ==
  \A p, c \in Capability : <<p, c>> \in Covers <=> CapabilityMatches(c, p)

VARIABLES
  irregular,  \* children whose insert no longer met its own checks
  single      \* DIDs whose delegation was revoked without its children

auditVars == <<records, pending, irregular, single>>

AuditTypeOK ==
  /\ TypeOK
  /\ irregular \in SUBSET DID
  /\ single \in SUBSET DID

(* Would the store still produce `r` from its request, and is its child new *)
(* to the delegation graph?  If not, the insert is an irregular one.        *)
Regular(r) ==
  /\ Admissible(r)
  /\ r.depth = NewDepth(r.parent)
  /\ r.parent # r.child
  /\ \A d \in DID : Has(records, d) => records[d].parent # r.child

-----------------------------------------------------------------------------
AuditInit ==
  /\ Init
  /\ irregular = {}
  /\ single = {}

AuditedValidate(t, q) == Validate(t, q) /\ UNCHANGED <<irregular, single>>

AuditedInsert(t) ==
  /\ Insert(t)
  /\ irregular' = IF Regular(pending[t]) THEN irregular
                                         ELSE irregular \cup {pending[t].child}
  /\ UNCHANGED single

AuditedRevokeOne(d) ==
  /\ RevokeOne(d)
  /\ single' = single \cup {d}
  /\ UNCHANGED irregular

AuditedRevokeCascade(d) == RevokeCascade(d) /\ UNCHANGED <<irregular, single>>

AuditNext ==
  \/ \E t \in Task, q \in Request : AuditedValidate(t, q)
  \/ \E t \in Task : AuditedInsert(t)
  \/ \E d \in DID : AuditedRevokeOne(d) \/ AuditedRevokeCascade(d)

AuditSpec == AuditInit /\ [][AuditNext]_auditVars

-----------------------------------------------------------------------------
(* A live delegation under a revoked one has one of two causes: the parent  *)
(* was revoked without its children, or the child's insert came after a     *)
(* check that no longer held.  The cascade of `revoke` misses nothing else. *)
OrphansExplained ==
  \A c \in DID :
    Live(records, c) =>
      LET p == records[c].parent IN
        Has(records, p) /\ records[p].revoked => c \in irregular \/ p \in single

(* A record that entered the graph regularly stays one deeper than its       *)
(* parent's record and within the parent's capabilities, unless the parent's *)
(* record is itself irregular.  A parent whose capabilities are empty bounds *)
(* nothing: `delegate` skips the test for it, root or not.                   *)
AttenuationExplained ==
  \A c \in DID :
    Has(records, c) /\ c \notin irregular =>
      LET p == records[c].parent IN
        /\ ~Has(records, p) => records[c].depth = 1 % DepthRange
        /\ Has(records, p) /\ p \notin irregular =>
             /\ records[c].depth = (records[p].depth + 1) % DepthRange
             /\ records[p].capabilities # {} =>
                  IsSubset(records[c].capabilities, records[p].capabilities)

(* Where every record of a chain is regular, the depth its last record     *)
(* carries is the chain's length, so max_depth bounds the chain itself and *)
(* not only the number stored.                                             *)
DepthIsChainLength ==
  \A d \in DID :
    Has(records, d) /\ Chain(records, d) \cap irregular = {} =>
      /\ records[d].depth = Cardinality(Chain(records, d)) % DepthRange
      /\ records[d].depth <= records[d].max_depth

(* A revoked delegation comes back to life only by an insert that raced: no *)
(* request whose checks run after the revocation can replace the record.    *)
RevokedStaysRevoked ==
  [][\A d \in DID :
       Has(records, d) /\ records[d].revoked /\ ~records'[d].revoked
         => d \in irregular' /\ \E t \in Task : pending[t] = records'[d]]_auditVars

(* What the delegation protocol asks of revocation: "Revoking a parent     *)
(* delegation MUST cascade to all children".  A revocation that was asked  *)
(* not to cascade is excused; nothing else is.                             *)
CascadeReachesAllChildren ==
  \A c \in DID :
    Live(records, c) =>
      LET p == records[c].parent IN Has(records, p) /\ records[p].revoked => p \in single

-----------------------------------------------------------------------------
Granted(d) == records[d].capabilities

(* Capabilities narrow along a whole chain, not only from one record to the  *)
(* next: where all its inserts were regular and none granted the empty list, *)
(* what a DID may do every DID above it may do, whatever the constraints.    *)
GrantsWithinChain ==
  \A d \in DID :
    LET links == Chain(records, d) IN
    (\A x \in links : x \notin irregular /\ Granted(x) # {}) =>
      \A x \in links, u \in Use : Permits(Granted(d), u) => Permits(Granted(x), u)

(* `attenuate` against `delegate`: what narrowing a held capability gives is *)
(* accepted under its holder exactly when, for each constraint held, the one *)
(* that the holder names last for that key, or a number of the request that  *)
(* may take its place, is at most that constraint. (Not always so: a key     *)
(* held twice keeps its last value, which may be the wider; NaN is at most   *)
(* nothing, itself included.) Accepted or not, it has no number above one    *)
(* that the request has for the key.                                         *)
LastNamed(cap) ==
  LET at == cap.constraints
  IN  {at[i] : i \in {n \in DOMAIN at : \A j \in DOMAIN at : j > n => at[j].key # at[n].key}}

Tightens(requested, last, pc) ==
  \/ AtMost(pc.value, last.value)
  \/ /\ last.value \in Number
     /\ \E rc \in Constraints(requested) :
          rc.key = pc.key /\ rc.value \in Number /\ AtMost(pc.value, rc.value)

NarrowedAcceptedExactly ==
  \A d \in DID : Has(records, d) =>
    \A held \in Granted(d), requested \in Capability :
      SameKind(held, requested) =>
        LET narrowed == Merge(held, requested) IN
          /\ CapabilityMatches(narrowed, held) <=>
               \A pc \in Constraints(held) :
                 \E last \in LastNamed(held) :
                   last.key = pc.key /\ Tightens(requested, last, pc)
          /\ \A c \in Constraints(requested), n \in Constraints(narrowed) :
               n.key = c.key /\ c.value \in Number /\ n.value \in Number
                 => n.value <= c.value
==============================================================================
