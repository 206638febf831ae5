--------------------------- MODULE RegistrarProofs ---------------------------
(***************************************************************************)
(* Theorems on the registrar's core, for every set of DIDs, calls and      *)
(* requests: the delegation store; its audit and the grants of its chains; *)
(* the delegation engine's loops, whose steps are shown to be the store's; *)
(* and the agent manager, which decommissions along the delegations.  Each *)
(* is a specification of its own over the store's variables.               *)
(***************************************************************************)
EXTENDS DelegationManager, DelegationAudit, AgentManager, Induction,
        FiniteSetTheorems, SequenceTheorems

-----------------------------------------------------------------------------
(* The store. *)

(* A validated record that waits for its insert is live and well formed. *)
PendingFresh == \A t \in Task : pending[t] # NoRecord => pending[t].revoked = FALSE

StoreInv == TypeOK /\ PendingFresh

-----------------------------------------------------------------------------
(* Lemmas on the operators. *)

(* Revoking changes no field but `revoked`, adds no record and removes none. *)
LEMMA RevokeAllFields ==
  ASSUME NEW recs \in [DID -> Record \cup {NoRecord}], NEW S, NEW d \in DID
  PROVE  /\ RevokeAll(recs, S) \in [DID -> Record \cup {NoRecord}]
         /\ Has(RevokeAll(recs, S), d) <=> Has(recs, d)
         /\ Has(recs, d) =>
              /\ RevokeAll(recs, S)[d].parent = recs[d].parent
              /\ RevokeAll(recs, S)[d].child = recs[d].child
              /\ RevokeAll(recs, S)[d].capabilities = recs[d].capabilities
              /\ RevokeAll(recs, S)[d].depth = recs[d].depth
              /\ RevokeAll(recs, S)[d].max_depth = recs[d].max_depth
              /\ RevokeAll(recs, S)[d].revoked <=> (recs[d].revoked \/ d \in S)
<1> USE NoRecordAssumption
<1>1. ASSUME NEW e \in DID, Has(recs, e)
      PROVE  [recs[e] EXCEPT !.revoked = TRUE] \in Record
  BY <1>1 DEF Has, Record
<1>2. RevokeAll(recs, S) \in [DID -> Record \cup {NoRecord}]
  BY <1>1 DEF RevokeAll
<1>3. CASE Has(recs, d) /\ d \in S
  <2>1. RevokeAll(recs, S)[d] = [recs[d] EXCEPT !.revoked = TRUE]
    BY <1>3 DEF RevokeAll
  <2>2. RevokeAll(recs, S)[d] # NoRecord
    BY <2>1, <1>1, <1>3
  <2> QED
    BY <1>2, <1>3, <2>1, <2>2 DEF Has, Record
<1>4. CASE ~(Has(recs, d) /\ d \in S)
  <2>1. RevokeAll(recs, S)[d] = recs[d]
    BY <1>4 DEF RevokeAll
  <2> QED
    BY <1>2, <1>4, <2>1 DEF Has
<1> QED
  BY <1>3, <1>4

(* The live children left when C is revoked. *)
LEMMA ChildrenLeft ==
  ASSUME NEW recs \in [DID -> Record \cup {NoRecord}], NEW C, NEW X
  PROVE  LiveChildren(RevokeAll(recs, C), X) = LiveChildren(recs, X) \ C
<1>1. ASSUME NEW d \in DID
      PROVE  d \in LiveChildren(RevokeAll(recs, C), X)
               <=> d \in LiveChildren(recs, X) /\ d \notin C
  <2>1. /\ Has(RevokeAll(recs, C), d) <=> Has(recs, d)
        /\ Has(recs, d) =>
             /\ RevokeAll(recs, C)[d].parent = recs[d].parent
             /\ RevokeAll(recs, C)[d].revoked <=> (recs[d].revoked \/ d \in C)
    BY RevokeAllFields
  <2> QED
    BY <2>1 DEF LiveChildren, Live
<1> QED
  BY <1>1 DEF LiveChildren

(* A request that is admissible gives a well-formed, live record. *)
LEMMA NewRecordType ==
  ASSUME TypeOK, NEW q \in RequestType
  PROVE  /\ NewRecord(q) \in Record
         /\ NewRecord(q).revoked = FALSE
<1>1. NewDepth(q.parent) \in Depth
  <2>1. ParentDepth(q.parent) \in Nat
    BY DEF ParentDepth, Has, TypeOK, Record, Depth, RequestType
  <2> QED
    BY <2>1, DepthRangeAssumption DEF NewDepth, Depth
<1> QED
  BY <1>1 DEF NewRecord, Record, RequestType

-----------------------------------------------------------------------------
(* Types. *)

LEMMA StoreInvInit == Init => StoreInv
BY DEF Init, StoreInv, TypeOK, PendingFresh

LEMMA StoreInvNext == StoreInv /\ [Next]_storeVars => StoreInv'
<1> SUFFICES ASSUME StoreInv, [Next]_storeVars
             PROVE  StoreInv'
  OBVIOUS
<1> USE DEF StoreInv
<1>1. ASSUME NEW t \in Task, NEW q \in Request, Validate(t, q)
      PROVE  StoreInv'
  <2>1. NewRecord(q) \in Record /\ NewRecord(q).revoked = FALSE
    BY NewRecordType, RequestAssumption
  <2> QED
    BY <1>1, <2>1 DEF Validate, TypeOK, PendingFresh
<1>2. ASSUME NEW t \in Task, Insert(t)
      PROVE  StoreInv'
  <2>1. pending[t] \in Record
    BY <1>2 DEF Insert, TypeOK
  <2> QED
    BY <1>2, <2>1 DEF Insert, TypeOK, PendingFresh, Record
<1>3. ASSUME NEW d \in DID, RevokeOne(d) \/ RevokeCascade(d)
      PROVE  StoreInv'
  <2>1. PICK S : records' = RevokeAll(records, S)
    BY <1>3 DEF RevokeOne, RevokeCascade
  <2>2. records' \in [DID -> Record \cup {NoRecord}]
    BY <2>1, RevokeAllFields DEF TypeOK
  <2> QED
    BY <1>3, <2>2 DEF RevokeOne, RevokeCascade, TypeOK, PendingFresh
<1>4. CASE UNCHANGED storeVars
  BY <1>4 DEF storeVars, TypeOK, PendingFresh
<1> QED
  BY <1>1, <1>2, <1>3, <1>4 DEF Next

(* The records and the pending inserts keep their types. *)
THEOREM StoreTypeCorrect == Spec => []TypeOK
<1>1. Spec => []StoreInv
  BY StoreInvInit, StoreInvNext, PTL DEF Spec
<1> QED
  BY <1>1, PTL DEF StoreInv

-----------------------------------------------------------------------------
(* The audit of the store, and the grants of its chains. *)

LEMMA AuditInvNext == StoreInv /\ [AuditNext]_auditVars => StoreInv'
<1> SUFFICES ASSUME StoreInv, [AuditNext]_auditVars
             PROVE  [Next]_storeVars
  BY StoreInvNext
<1>1. CASE AuditNext
  BY <1>1 DEF AuditNext, Next, AuditedValidate, AuditedInsert, AuditedRevokeOne,
              AuditedRevokeCascade
<1>2. CASE UNCHANGED auditVars
  BY <1>2 DEF auditVars, storeVars
<1> QED
  BY <1>1, <1>2

(* The types of the store and of the audit's two sets. *)
THEOREM AuditTypeCorrect == AuditSpec => []AuditTypeOK
<1> DEFINE Inv == StoreInv /\ irregular \in SUBSET DID /\ single \in SUBSET DID
<1>1. AuditInit => Inv
  BY StoreInvInit DEF AuditInit
<1>2. Inv /\ [AuditNext]_auditVars => Inv'
  <2> SUFFICES ASSUME Inv, [AuditNext]_auditVars
               PROVE  (irregular \in SUBSET DID)' /\ (single \in SUBSET DID)'
    BY AuditInvNext
  <2>1. ASSUME NEW t \in Task, AuditedInsert(t)
        PROVE  (irregular \in SUBSET DID)' /\ (single \in SUBSET DID)'
    <3>1. pending[t] \in Record
      BY <2>1 DEF AuditedInsert, Insert, StoreInv, TypeOK
    <3> QED
      BY <2>1, <3>1 DEF AuditedInsert, Record
  <2>2. ASSUME NEW d \in DID, AuditedRevokeOne(d) \/ AuditedRevokeCascade(d)
        PROVE  (irregular \in SUBSET DID)' /\ (single \in SUBSET DID)'
    BY <2>2 DEF AuditedRevokeOne, AuditedRevokeCascade
  <2>3. ASSUME NEW t \in Task, NEW q \in Request, AuditedValidate(t, q)
        PROVE  (irregular \in SUBSET DID)' /\ (single \in SUBSET DID)'
    BY <2>3 DEF AuditedValidate
  <2>4. CASE UNCHANGED auditVars
    BY <2>4 DEF auditVars
  <2> QED
    BY <2>1, <2>2, <2>3, <2>4 DEF AuditNext
<1>3. AuditSpec => []Inv
  BY <1>1, <1>2, PTL DEF AuditSpec
<1> QED
  BY <1>3, PTL DEF AuditTypeOK, StoreInv

-----------------------------------------------------------------------------
(* Orphans. *)

LEMMA OrphansInsert ==
  ASSUME StoreInv, OrphansExplained, NEW t \in Task, AuditedInsert(t)
  PROVE  OrphansExplained'
<1> DEFINE r == pending[t]
<1>1. r \in Record /\ r.revoked = FALSE /\ r # NoRecord
  BY NoRecordAssumption DEF AuditedInsert, Insert, StoreInv, TypeOK, PendingFresh
<1>2. r.child \in DID /\ r.parent \in DID
  BY <1>1 DEF Record
<1>3. records' = [records EXCEPT ![r.child] = r]
  BY DEF AuditedInsert, Insert
<1>4. irregular \subseteq irregular' /\ single' = single
  BY DEF AuditedInsert
<1> SUFFICES ASSUME NEW c \in DID, Live(records', c), Has(records', records'[c].parent),
                    records'[records'[c].parent].revoked
             PROVE  c \in irregular' \/ records'[c].parent \in single'
  BY DEF OrphansExplained
<1>5. CASE c = r.child
  <2>1. records'[c] = r
    BY <1>3, <1>5, <1>2 DEF StoreInv, TypeOK
  <2>2. CASE Regular(r)
    <3>1. r.parent # r.child /\ (Has(records, r.parent) => ~records[r.parent].revoked)
      BY <2>2 DEF Regular, Admissible
    <3>2. records'[r.parent] = records[r.parent]
      BY <1>3, <1>2, <3>1 DEF StoreInv, TypeOK
    <3> QED
      BY <2>1, <3>1, <3>2 DEF Has
  <2>3. CASE ~Regular(r)
    BY <2>3, <1>5 DEF AuditedInsert
  <2> QED
    BY <2>2, <2>3
<1>6. CASE c # r.child
  <2>1. records'[c] = records[c]
    BY <1>3, <1>6 DEF StoreInv, TypeOK
  <2>2. records[c].parent \in DID
    BY <2>1, NoRecordAssumption DEF Live, Has, StoreInv, TypeOK, Record
  <2>3. records[c].parent # r.child
    BY <2>1, <1>1, <1>2, <1>3 DEF StoreInv, TypeOK
  <2>4. records'[records[c].parent] = records[records[c].parent]
    BY <2>2, <2>3, <1>3 DEF StoreInv, TypeOK
  <2> QED
    BY <2>1, <2>4, <1>4 DEF OrphansExplained, Live, Has
<1> QED
  BY <1>5, <1>6

LEMMA OrphansRevoke ==
  ASSUME StoreInv, OrphansExplained, NEW d \in DID,
         AuditedRevokeOne(d) \/ AuditedRevokeCascade(d)
  PROVE  OrphansExplained'
<1>1. PICK S \in SUBSET DID :
        /\ records' = RevokeAll(records, S)
        /\ LiveChildren(records, S) \subseteq S \/ S \subseteq single'
        /\ irregular' = irregular
        /\ single \subseteq single'
  <2>1. CASE AuditedRevokeOne(d)
    <3> WITNESS {d} \in SUBSET DID
    <3> QED
      BY <2>1 DEF AuditedRevokeOne, RevokeOne
  <2>2. CASE AuditedRevokeCascade(d)
    <3> DEFINE B == LiveBelow(records, {d})
    <3>1. LiveChildren(records, {d} \cup B) \subseteq B
      BY BelowIsClosed DEF BelowClosed
    <3>2. {d} \cup B \in SUBSET DID
      BY DEF LiveBelow
    <3> WITNESS {d} \cup B \in SUBSET DID
    <3> QED
      BY <2>2, <3>1 DEF AuditedRevokeCascade, RevokeCascade
  <2> QED
    BY <2>1, <2>2
<1> SUFFICES ASSUME NEW c \in DID, Live(records', c), Has(records', records'[c].parent),
                    records'[records'[c].parent].revoked
             PROVE  c \in irregular' \/ records'[c].parent \in single'
  BY DEF OrphansExplained
<1> DEFINE p == records[c].parent
<1>2. Has(records, c) /\ records'[c].parent = p /\ ~records[c].revoked /\ c \notin S
  BY <1>1, RevokeAllFields DEF Live, StoreInv, TypeOK
<1>3. p \in DID
  BY <1>2, NoRecordAssumption DEF Has, StoreInv, TypeOK, Record
<1>4. Has(records, p) /\ (records[p].revoked \/ p \in S)
  BY <1>1, <1>2, <1>3, RevokeAllFields DEF StoreInv, TypeOK
<1>5. CASE records[p].revoked
  BY <1>1, <1>2, <1>4, <1>5 DEF OrphansExplained, Live
<1>6. CASE p \in S
  <2>1. c \in LiveChildren(records, S)
    BY <1>2, <1>6 DEF LiveChildren, Live
  <2> QED
    BY <2>1, <1>1, <1>2, <1>6
<1> QED
  BY <1>4, <1>5, <1>6

(* A live delegation under a revoked one: raced in, or left by a revocation *)
(* that did not cascade.                                                    *)
THEOREM OrphansAreExplained == AuditSpec => []OrphansExplained
<1>1. AuditInit => StoreInv /\ OrphansExplained
  BY StoreInvInit DEF AuditInit, Init, OrphansExplained, Live, Has
<1>2. StoreInv /\ OrphansExplained /\ [AuditNext]_auditVars
        => (StoreInv /\ OrphansExplained)'
  <2> SUFFICES ASSUME StoreInv, OrphansExplained, [AuditNext]_auditVars
               PROVE  OrphansExplained'
    BY AuditInvNext
  <2>1. ASSUME NEW t \in Task, NEW q \in Request, AuditedValidate(t, q)
        PROVE  OrphansExplained'
    BY <2>1 DEF AuditedValidate, Validate, OrphansExplained, Live, Has
  <2>2. CASE UNCHANGED auditVars
    BY <2>2 DEF auditVars, OrphansExplained, Live, Has
  <2> QED
    BY <2>1, <2>2, OrphansInsert, OrphansRevoke DEF AuditNext
<1> QED
  BY <1>1, <1>2, PTL DEF AuditSpec

-----------------------------------------------------------------------------
(* Depth and capabilities along a chain. *)

LEMMA AttenuationInsert ==
  ASSUME StoreInv, AttenuationExplained, NEW t \in Task, AuditedInsert(t)
  PROVE  AttenuationExplained'
<1> DEFINE r == pending[t]
<1>1. r \in Record /\ r # NoRecord
  BY NoRecordAssumption DEF AuditedInsert, Insert, StoreInv, TypeOK
<1>2. r.child \in DID /\ r.parent \in DID
  BY <1>1 DEF Record
<1>3. records' = [records EXCEPT ![r.child] = r]
  BY DEF AuditedInsert, Insert
<1>4. irregular' = IF Regular(r) THEN irregular ELSE irregular \cup {r.child}
  BY DEF AuditedInsert
<1> SUFFICES ASSUME NEW c \in DID, Has(records', c), c \notin irregular'
             PROVE  LET p == records'[c].parent IN
                      /\ ~Has(records', p) => records'[c].depth = 1 % DepthRange
                      /\ Has(records', p) /\ p \notin irregular' =>
                           /\ records'[c].depth = (records'[p].depth + 1) % DepthRange
                           /\ records'[p].capabilities # {} =>
                                IsSubset(records'[c].capabilities, records'[p].capabilities)
  BY DEF AttenuationExplained
<1>5. CASE c = r.child
  <2>1. records'[c] = r /\ Regular(r)
    BY <1>2, <1>3, <1>4, <1>5 DEF StoreInv, TypeOK
  <2>2. records'[r.parent] = records[r.parent]
    BY <1>2, <1>3, <2>1 DEF StoreInv, TypeOK, Regular
  <2>3. r.depth = NewDepth(r.parent)
    BY <2>1 DEF Regular
  <2>4. ParentCaps(r.parent) # {} => IsSubset(r.capabilities, ParentCaps(r.parent))
    BY <2>1 DEF Regular, Admissible
  <2>5. CASE Has(records, r.parent)
    BY <2>1, <2>2, <2>3, <2>4, <2>5 DEF Has, NewDepth, ParentDepth, ParentCaps
  <2>6. CASE ~Has(records, r.parent)
    <3>1. r.depth = 1 % DepthRange
      BY <2>3, <2>6 DEF NewDepth, ParentDepth
    <3> QED
      BY <2>1, <2>2, <2>6, <3>1 DEF Has
  <2> QED
    BY <2>5, <2>6
<1>6. CASE c # r.child
  <2>1. records'[c] = records[c] /\ Has(records, c) /\ c \notin irregular
    BY <1>3, <1>4, <1>6 DEF StoreInv, TypeOK, Has
  <2>2. records[c].parent \in DID
    BY <2>1, NoRecordAssumption DEF Has, StoreInv, TypeOK, Record
  <2>3. CASE records[c].parent = r.child
    (* r's child is a parent already, so the insert is irregular. *)
    <3>1. ~Regular(r)
      BY <2>1, <2>3 DEF Regular
    <3>2. Has(records', r.child)
      BY <1>1, <1>2, <1>3 DEF StoreInv, TypeOK, Has
    <3> QED
      BY <1>4, <2>1, <2>3, <3>1, <3>2
  <2>4. CASE records[c].parent # r.child
    <3>1. records'[records[c].parent] = records[records[c].parent]
      BY <1>3, <2>2, <2>4 DEF StoreInv, TypeOK
    <3>2. irregular \subseteq irregular'
      BY <1>4
    <3> QED
      BY <2>1, <3>1, <3>2 DEF AttenuationExplained, Has
  <2> QED
    BY <2>3, <2>4
<1> QED
  BY <1>5, <1>6

LEMMA AttenuationRevoke ==
  ASSUME StoreInv, AttenuationExplained, NEW d \in DID,
         AuditedRevokeOne(d) \/ AuditedRevokeCascade(d)
  PROVE  AttenuationExplained'
<1>1. PICK S : records' = RevokeAll(records, S) /\ irregular' = irregular
  BY DEF AuditedRevokeOne, AuditedRevokeCascade, RevokeOne, RevokeCascade
<1> SUFFICES ASSUME NEW c \in DID, Has(records', c), c \notin irregular'
             PROVE  LET p == records'[c].parent IN
                      /\ ~Has(records', p) => records'[c].depth = 1 % DepthRange
                      /\ Has(records', p) /\ p \notin irregular' =>
                           /\ records'[c].depth = (records'[p].depth + 1) % DepthRange
                           /\ records'[p].capabilities # {} =>
                                IsSubset(records'[c].capabilities, records'[p].capabilities)
  BY DEF AttenuationExplained
<1> DEFINE p == records[c].parent
<1>2. /\ Has(records, c)
      /\ records'[c].parent = p
      /\ records'[c].depth = records[c].depth
      /\ records'[c].capabilities = records[c].capabilities
  BY <1>1, RevokeAllFields DEF StoreInv, TypeOK
<1>3. p \in DID
  BY <1>2, NoRecordAssumption DEF Has, StoreInv, TypeOK, Record
<1>4. /\ Has(records', p) <=> Has(records, p)
      /\ Has(records, p) => /\ records'[p].depth = records[p].depth
                            /\ records'[p].capabilities = records[p].capabilities
  BY <1>1, <1>3, RevokeAllFields DEF StoreInv, TypeOK
<1> QED
  BY <1>1, <1>2, <1>4 DEF AttenuationExplained

(* Depths and capabilities follow the chain wherever no insert was irregular. *)
THEOREM AttenuationIsExplained == AuditSpec => []AttenuationExplained
<1>1. AuditInit => StoreInv /\ AttenuationExplained
  BY StoreInvInit DEF AuditInit, Init, AttenuationExplained, Has
<1>2. StoreInv /\ AttenuationExplained /\ [AuditNext]_auditVars
        => (StoreInv /\ AttenuationExplained)'
  <2> SUFFICES ASSUME StoreInv, AttenuationExplained, [AuditNext]_auditVars
               PROVE  AttenuationExplained'
    BY AuditInvNext
  <2>1. CASE UNCHANGED <<records, irregular>>
    BY <2>1 DEF AttenuationExplained, Has, IsSubset
  <2>2. ASSUME NEW t \in Task, NEW q \in Request, AuditedValidate(t, q)
        PROVE  UNCHANGED <<records, irregular>>
    BY <2>2 DEF AuditedValidate, Validate
  <2>3. CASE UNCHANGED auditVars
    BY <2>1, <2>3 DEF auditVars
  <2> QED
    BY <2>1, <2>2, <2>3, AttenuationInsert, AttenuationRevoke DEF AuditNext
<1> QED
  BY <1>1, <1>2, PTL DEF AuditSpec

-----------------------------------------------------------------------------
(* Depths count the links of a chain. *)

(* What remains of a division. *)
LEMMA Remainder ==
  ASSUME NEW d \in Nat, d > 0, NEW m \in Nat, NEW q \in Nat, NEW r \in 0 .. d - 1,
         m = d * q + r
  PROVE  m % d = r
OBVIOUS

(* A depth taken modulo the range may be taken so again after adding 1. *)
LEMMA DepthWraps ==
  ASSUME NEW n \in Nat
  PROVE  ((n % DepthRange) + 1) % DepthRange = (n + 1) % DepthRange
<1>1. PICK d \in Nat : d = DepthRange /\ d > 0
  BY DepthRangeAssumption
<1>2. PICK q \in Nat : n = d * q + (n % d)
  <2>1. n = d * (n \div d) + (n % d) /\ n \div d \in Nat
    BY <1>1
  <2> QED
    BY <2>1
<1>3. PICK r \in 0 .. d - 1 : r = n % d
  BY <1>1
<1>4. CASE r + 1 < d
  <2>1. (n + 1) % d = r + 1
    <3>1. n + 1 = d * q + (r + 1) /\ n + 1 \in Nat /\ r + 1 \in 0 .. d - 1
      BY <1>2, <1>3, <1>4
    <3> QED
      BY <1>1, <3>1, Remainder
  <2>2. (r + 1) % d = r + 1
    BY <1>1, <1>4
  <2> QED
    BY <1>1, <1>3, <2>1, <2>2
<1>5. CASE r + 1 = d
  <2>1. (n + 1) % d = 0
    <3>1. n + 1 = d * (q + 1) + 0
      <4>1. n + 1 = d * q + d
        BY <1>2, <1>3, <1>5
      <4>2. d * (q + 1) = d * q + d
        OBVIOUS
      <4> QED
        BY <4>1, <4>2
    <3>2. q + 1 \in Nat /\ n + 1 \in Nat /\ 0 \in 0 .. d - 1
      BY <1>1
    <3> QED
      BY <1>1, <3>1, <3>2, Remainder
  <2>2. (r + 1) % d = 0
    BY <1>1, <1>5
  <2> QED
    BY <1>1, <1>3, <2>1, <2>2
<1> QED
  BY <1>3, <1>4, <1>5

(* No record is deeper than it was allowed to be, and a chain without      *)
(* irregular inserts is as long as its last record says.                   *)
DepthsCount ==
  /\ \A d \in DID : Has(records, d) => records[d].depth <= records[d].max_depth
  /\ \A t \in Task : pending[t] # NoRecord => pending[t].depth <= pending[t].max_depth
  /\ \A d \in DID : Has(records, d) /\ Chain(records, d) \cap irregular = {} =>
       /\ IsFiniteSet(Chain(records, d))
       /\ records[d].depth = Cardinality(Chain(records, d)) % DepthRange

LEMMA RecordsAreParented ==
  ASSUME NEW recs \in [DID -> Record \cup {NoRecord}]
  PROVE  Parented(recs)
BY DEF Parented, Has, Record

(* A regular insert lengthens no chain: its child is nobody's parent yet.  *)
(* An irregular one is left out of the chains that are counted.            *)
LEMMA DepthsInsert ==
  ASSUME StoreInv, StoreInv', DepthsCount, NEW t \in Task, AuditedInsert(t)
  PROVE  DepthsCount'
<1>1. PICK r \in Record : r = pending[t] /\ r # NoRecord
  BY NoRecordAssumption DEF AuditedInsert, Insert, StoreInv, TypeOK
<1>2. PICK c \in DID, p \in DID : c = r.child /\ p = r.parent
  BY DEF Record
<1>3. /\ records'[c] = r
      /\ \A x \in DID \ {c} : records[x] = records'[x]
  BY <1>1, <1>2 DEF AuditedInsert, Insert, StoreInv, TypeOK
<1>4. /\ pending'[t] = NoRecord
      /\ \A u \in Task \ {t} : pending'[u] = pending[u]
  BY DEF AuditedInsert, Insert, StoreInv, TypeOK
<1>5. irregular' = IF Regular(r) THEN irregular ELSE irregular \cup {c}
  BY <1>1, <1>2 DEF AuditedInsert
<1>6. Parented(records) /\ Parented(records')
  BY RecordsAreParented DEF StoreInv, TypeOK
<1>7. Has(records', c) /\ \A x \in DID \ {c} : Has(records', x) <=> Has(records, x)
  BY <1>1, <1>3 DEF Has
<1>8. \A d \in DID : Has(records', d) => records'[d].depth <= records'[d].max_depth
  BY <1>1, <1>3, <1>7 DEF DepthsCount
<1>9. \A u \in Task : pending'[u] # NoRecord => pending'[u].depth <= pending'[u].max_depth
  BY <1>4 DEF DepthsCount
<1>10. ASSUME NEW d \in DID, c \notin Chain(records', d), Has(records', d),
              Chain(records', d) \cap irregular' = {}
       PROVE  /\ Chain(records, d) = Chain(records', d)
              /\ IsFiniteSet(Chain(records', d))
              /\ records'[d].depth = Cardinality(Chain(records', d)) % DepthRange
  <2>1. d # c
    BY <1>7, <1>10, ChainHoldsSelf
  <2>2. Chain(records, d) = Chain(records', d)
    BY <1>3, <1>6, <1>7, <1>10, ChainWithout
  <2>3. Chain(records, d) \cap irregular = {}
    BY <1>5, <1>10, <2>2
  <2>4. Has(records, d) /\ records'[d] = records[d]
    BY <1>3, <1>7, <1>10, <2>1
  <2> QED
    BY <2>2, <2>3, <2>4 DEF DepthsCount
<1>11. ASSUME NEW d \in DID, Has(records', d), Chain(records', d) \cap irregular' = {}
       PROVE  /\ IsFiniteSet(Chain(records', d))
              /\ records'[d].depth = Cardinality(Chain(records', d)) % DepthRange
  <2>1. CASE ~Regular(r)
    BY <1>5, <1>10, <1>11, <2>1
  <2>2. CASE Regular(r)
    <3>1. /\ r.depth = NewDepth(p) /\ p # c /\ ~Has(records, c)
          /\ \A x \in DID : Has(records, x) => records[x].parent # c
      BY <1>2, <2>2 DEF Regular, Admissible
    <3>2. ASSUME NEW x \in DID, x # c
          PROVE  c \notin Chain(records', x)
      <4>1. \A y \in DID \ {c} : Has(records', y) => records'[y].parent \in DID \ {c}
        BY <1>3, <1>6, <1>7, <3>1 DEF Parented
      <4>2. DID \ {c} \in SUBSET DID /\ x \in DID \ {c}
        BY <3>2
      <4>3. Chain(records', x) \subseteq DID \ {c}
        BY <4>1, <4>2, ChainIsLeast
      <4> QED
        BY <4>3
    <3>3. CASE d # c
      BY <1>10, <1>11, <3>2, <3>3
    <3>4. CASE d = c
      <4>1. Chain(records', c) = {c} \cup Chain(records', p) /\ c \notin Chain(records', p)
        BY <1>2, <1>3, <1>6, <1>7, <3>1, <3>2, ChainSplits
      <4>2. CASE ~Has(records, p)
        <5>1. Chain(records', c) = {c}
          BY <1>7, <3>1, <4>1, <4>2, ChainOfNone
        <5>2. IsFiniteSet(Chain(records', c)) /\ Cardinality(Chain(records', c)) = 1
          BY <5>1, FS_Singleton
        <5>3. r.depth = 1 % DepthRange
          BY <3>1, <4>2 DEF NewDepth, ParentDepth
        <5> QED
          BY <1>3, <3>4, <5>2, <5>3
      <4>3. CASE Has(records, p)
        <5>1. Has(records', p) /\ records'[p] = records[p]
          BY <1>3, <1>7, <3>1, <4>3
        <5>2. Chain(records', p) \cap irregular' = {}
          BY <1>11, <3>4, <4>1
        <5>3. /\ IsFiniteSet(Chain(records', p))
              /\ records[p].depth = Cardinality(Chain(records', p)) % DepthRange
          BY <1>10, <3>1, <3>2, <5>1, <5>2
        <5>4. /\ IsFiniteSet(Chain(records', c))
              /\ Cardinality(Chain(records', c)) = Cardinality(Chain(records', p)) + 1
              /\ Cardinality(Chain(records', p)) \in Nat
          BY <4>1, <5>3, FS_AddElement, FS_CardinalityType
        <5>5. r.depth = ((Cardinality(Chain(records', p)) % DepthRange) + 1) % DepthRange
          BY <3>1, <4>3, <5>3 DEF NewDepth, ParentDepth
        <5> QED
          BY <1>3, <3>4, <5>4, <5>5, DepthWraps
      <4> QED
        BY <4>2, <4>3
    <3> QED
      BY <3>3, <3>4
  <2> QED
    BY <2>1, <2>2
<1> QED
  BY <1>8, <1>9, <1>11 DEF DepthsCount

LEMMA DepthsKept ==
  ASSUME StoreInv, DepthsCount, UNCHANGED irregular,
         \A t \in Task : pending'[t] # NoRecord => pending'[t].depth <= pending'[t].max_depth,
         \A d \in DID : /\ Has(records', d) <=> Has(records, d)
                        /\ Has(records, d) =>
                             /\ records'[d].parent = records[d].parent
                             /\ records'[d].depth = records[d].depth
                             /\ records'[d].max_depth = records[d].max_depth
  PROVE  DepthsCount'
<1>1. \A d \in DID : Chain(records', d) = Chain(records, d)
  BY ChainsAgree
<1> QED
  BY <1>1 DEF DepthsCount

(* A depth is the length of the chain up to a root as long as no insert on *)
(* it raced, however long it grows and with the depth's wrapping around.   *)
THEOREM DepthsAreLengths == AuditSpec => []DepthIsChainLength
<1>1. AuditInit => StoreInv /\ DepthsCount
  BY StoreInvInit DEF AuditInit, Init, DepthsCount, Has
<1>2. StoreInv /\ DepthsCount /\ [AuditNext]_auditVars => (StoreInv /\ DepthsCount)'
  <2> SUFFICES ASSUME StoreInv, DepthsCount, [AuditNext]_auditVars
               PROVE  DepthsCount'
    BY AuditInvNext
  <2>1. StoreInv'
    BY AuditInvNext
  <2>2. ASSUME NEW t \in Task, AuditedInsert(t)
        PROVE  DepthsCount'
    BY <2>1, <2>2, DepthsInsert
  <2>3. ASSUME NEW t \in Task, NEW q \in Request, AuditedValidate(t, q)
        PROVE  DepthsCount'
    <3>1. NewRecord(q).depth <= NewRecord(q).max_depth
      BY <2>3 DEF AuditedValidate, Validate, Admissible, NewRecord
    <3>2. \A u \in Task : pending'[u] = IF u = t THEN NewRecord(q) ELSE pending[u]
      BY <2>3 DEF AuditedValidate, Validate, StoreInv, TypeOK
    <3>3. UNCHANGED <<records, irregular>>
      BY <2>3 DEF AuditedValidate, Validate
    <3>4. \A u \in Task : pending'[u] # NoRecord => pending'[u].depth <= pending'[u].max_depth
      BY <3>1, <3>2 DEF DepthsCount
    <3> QED
      BY <3>3, <3>4, DepthsKept
  <2>4. ASSUME NEW e \in DID, AuditedRevokeOne(e) \/ AuditedRevokeCascade(e)
        PROVE  DepthsCount'
    <3>1. PICK S : records' = RevokeAll(records, S) /\ UNCHANGED <<pending, irregular>>
      BY <2>4 DEF AuditedRevokeOne, AuditedRevokeCascade, RevokeOne, RevokeCascade
    <3>2. \A d \in DID : /\ Has(records', d) <=> Has(records, d)
                         /\ Has(records, d) =>
                              /\ records'[d].parent = records[d].parent
                              /\ records'[d].depth = records[d].depth
                              /\ records'[d].max_depth = records[d].max_depth
      BY <3>1, RevokeAllFields DEF StoreInv, TypeOK
    <3>3. \A t \in Task : pending'[t] # NoRecord => pending'[t].depth <= pending'[t].max_depth
      BY <3>1 DEF DepthsCount
    <3> QED
      BY <3>1, <3>2, <3>3, DepthsKept
  <2>5. CASE UNCHANGED auditVars
    <3>1. UNCHANGED <<records, pending, irregular>>
      BY <2>5 DEF auditVars
    <3>2. \A t \in Task : pending'[t] # NoRecord => pending'[t].depth <= pending'[t].max_depth
      BY <3>1 DEF DepthsCount
    <3> QED
      BY <3>1, <3>2, DepthsKept
  <2> QED
    BY <2>2, <2>3, <2>4, <2>5 DEF AuditNext
<1>3. StoreInv /\ DepthsCount => DepthIsChainLength
  BY DEF DepthsCount, DepthIsChainLength
<1> QED
  BY <1>1, <1>2, <1>3, PTL DEF AuditSpec

-----------------------------------------------------------------------------
(* A revoked record can only be replaced by an insert that raced. *)
THEOREM RevokedOnlyRaced == AuditSpec => RevokedStaysRevoked
<1> DEFINE Step == \A d \in DID :
             Has(records, d) /\ records[d].revoked /\ ~records'[d].revoked
               => d \in irregular' /\ \E t \in Task : pending[t] = records'[d]
<1>1. ASSUME StoreInv, AuditNext
      PROVE  Step
  <2> SUFFICES ASSUME NEW d \in DID, Has(records, d), records[d].revoked,
                      ~records'[d].revoked
               PROVE  d \in irregular' /\ \E t \in Task : pending[t] = records'[d]
    OBVIOUS
  <2>1. ASSUME NEW t \in Task, AuditedInsert(t)
        PROVE  d \in irregular' /\ pending[t] = records'[d]
    <3>1. records' = [records EXCEPT ![pending[t].child] = pending[t]]
      BY <2>1 DEF AuditedInsert, Insert
    <3>2. d = pending[t].child /\ records'[d] = pending[t]
      BY <3>1, <1>1 DEF StoreInv, TypeOK
    <3>3. ~Regular(pending[t])
      BY <3>2 DEF Regular, Admissible
    <3> QED
      BY <2>1, <3>2, <3>3 DEF AuditedInsert
  <2>2. ASSUME NEW e \in DID, AuditedRevokeOne(e) \/ AuditedRevokeCascade(e)
        PROVE  FALSE
    <3>1. PICK S : records' = RevokeAll(records, S)
      BY <2>2 DEF AuditedRevokeOne, AuditedRevokeCascade, RevokeOne, RevokeCascade
    <3> QED
      BY <3>1, <1>1, RevokeAllFields DEF StoreInv, TypeOK
  <2>3. ASSUME NEW t \in Task, NEW q \in Request, AuditedValidate(t, q)
        PROVE  FALSE
    BY <2>3 DEF AuditedValidate, Validate
  <2> QED
    BY <1>1, <2>1, <2>2, <2>3 DEF AuditNext
<1>2. StoreInv /\ [AuditNext]_auditVars => [Step]_auditVars
  BY <1>1
<1>3. AuditInit => StoreInv
  BY StoreInvInit DEF AuditInit
<1> QED
  BY <1>2, <1>3, AuditInvNext, PTL DEF AuditSpec, RevokedStaysRevoked

-----------------------------------------------------------------------------
(* The capability engine. *)

LEMMA AtMostTransitive ==
  ASSUME NEW bound, NEW v, NEW w, AtMost(bound, v), AtMost(v, w)
  PROVE  AtMost(bound, w)
<1>1. CASE Parses(bound) /\ Parses(v)
  <2>1. bound \in Number /\ v \in Number /\ v <= bound
    BY <1>1 DEF AtMost
  <2>2. w \in Number /\ w <= v
    BY <1>1, <2>1 DEF AtMost, Parses
  <2>3. w <= bound
    BY <2>1, <2>2, NumberAssumption
  <2> QED
    BY <1>1, <2>1, <2>2, <2>3 DEF AtMost, Parses
<1>2. CASE ~(Parses(bound) /\ Parses(v))
  <2>1. v = bound
    BY <1>2 DEF AtMost
  <2> QED
    BY <2>1
<1> QED
  BY <1>1, <1>2

(* What capability_matches lets a child have, it lets every use of the child *)
(* pass the check of the parent's constraints too.                           *)
LEMMA MatchesIsSound ==
  ASSUME NEW child, NEW parent, NEW context,
         CapabilityMatches(child, parent), CheckConstraint(child, context)
  PROVE  CheckConstraint(parent, context)
<1> SUFFICES ASSUME NEW pc \in Constraints(parent)
             PROVE  pc.key \in DOMAIN context /\ AtMost(pc.value, context[pc.key])
  BY DEF CheckConstraint
<1>1. PICK cc \in Constraints(child) : cc.key = pc.key /\ AtMost(pc.value, cc.value)
  BY DEF CapabilityMatches
<1>2. cc.key \in DOMAIN context /\ AtMost(cc.value, context[cc.key])
  BY DEF CheckConstraint
<1> QED
  BY <1>1, <1>2, AtMostTransitive

(* Coverage is a preorder's step: what covers a cover covers the capability. *)
LEMMA MatchesTransitive ==
  ASSUME NEW x, NEW y, NEW z, CapabilityMatches(x, y), CapabilityMatches(y, z)
  PROVE  CapabilityMatches(x, z)
<1>1. SameKind(x, z)
  BY DEF CapabilityMatches, SameKind
<1>2. ASSUME NEW zc \in Constraints(z)
      PROVE  \E xc \in Constraints(x) : xc.key = zc.key /\ AtMost(zc.value, xc.value)
  <2>1. PICK yc \in Constraints(y) : yc.key = zc.key /\ AtMost(zc.value, yc.value)
    BY DEF CapabilityMatches
  <2>2. PICK xc \in Constraints(x) : xc.key = yc.key /\ AtMost(yc.value, xc.value)
    BY DEF CapabilityMatches
  <2>3. AtMost(zc.value, xc.value)
    BY <2>1, <2>2, AtMostTransitive
  <2> QED
    BY <2>1, <2>2, <2>3
<1> QED
  BY <1>1, <1>2 DEF CapabilityMatches

LEMMA SubsetPermits ==
  ASSUME NEW held \in SUBSET Capability, NEW granted \in SUBSET Capability,
         IsSubset(granted, held), NEW u, Permits(granted, u)
  PROVE  Permits(held, u)
<1>1. PICK c \in granted : SameKind(c, u) /\ CheckConstraint(c, u.context)
  BY DEF Permits
<1>2. PICK p \in held : <<p, c>> \in Covers
  BY DEF IsSubset
<1>3. CapabilityMatches(c, p)
  BY <1>2, CoversAssumption
<1>4. SameKind(p, u)
  BY <1>1, <1>3 DEF CapabilityMatches, SameKind
<1>5. CheckConstraint(p, u.context)
  BY <1>1, <1>3, MatchesIsSound
<1> QED
  BY <1>4, <1>5 DEF Permits

-----------------------------------------------------------------------------
(* The walk up a chain. *)

LEMMA ChainWithin ==
  ASSUME TypeOK, AttenuationExplained, NEW d \in DID,
         \A x \in Chain(records, d) : x \notin irregular /\ Granted(x) # {},
         NEW u, Permits(Granted(d), u)
  PROVE  \A x \in Chain(records, d) : Permits(Granted(x), u)
<1> DEFINE Up(S) == d \in S /\ \A y \in S : Has(records, y) => records[y].parent \in S
           Reached == {x \in DID : \A S \in SUBSET DID : Up(S) => x \in S}
           Within == {x \in Reached : Has(records, x) => Permits(Granted(x), u)}
<1>1. Chain(records, d) = {x \in Reached : Has(records, x)}
  BY DEF Chain
<1>2. d \in Within
  OBVIOUS
<1>3. ASSUME NEW y \in Within, Has(records, y)
      PROVE  records[y].parent \in Within
  <2> DEFINE p == records[y].parent
  <2>1. records[y] \in Record
    BY <1>3 DEF TypeOK, Has
  <2>2. p \in DID
    BY <2>1 DEF Record
  <2>3. p \in Reached
    BY <1>3, <2>2
  <2>4. ASSUME Has(records, p)
        PROVE  Permits(Granted(p), u)
    <3>1. y \in Chain(records, d) /\ p \in Chain(records, d)
      BY <1>1, <1>3, <2>3, <2>4
    <3>2. records[p] \in Record
      BY <2>2, <2>4 DEF TypeOK, Has
    <3>3. IsSubset(Granted(y), Granted(p))
      BY <1>3, <2>4, <3>1 DEF AttenuationExplained, Granted
    <3>4. Granted(y) \in SUBSET Capability /\ Granted(p) \in SUBSET Capability
      BY <2>1, <3>2 DEF Record, Granted
    <3> QED
      BY <1>3, <3>3, <3>4, SubsetPermits
  <2> QED
    BY <2>3, <2>4
<1>4. Within \in SUBSET DID /\ Up(Within)
  BY <1>2, <1>3
<1> QED
  BY <1>1, <1>4

(* What a DID may do, every DID above it in its chain may do. *)
THEOREM GrantsStayWithinChain == AuditSpec => []GrantsWithinChain
<1>1. AuditTypeOK /\ AttenuationExplained => GrantsWithinChain
  <2> SUFFICES ASSUME AuditTypeOK, AttenuationExplained, NEW d \in DID,
                      \A x \in Chain(records, d) : x \notin irregular /\ Granted(x) # {},
                      NEW x \in Chain(records, d), NEW u \in Use, Permits(Granted(d), u)
               PROVE  Permits(Granted(x), u)
    BY DEF GrantsWithinChain
  <2> QED
    BY ChainWithin DEF AuditTypeOK
<1> QED
  BY <1>1, AuditTypeCorrect, AttenuationIsExplained, PTL

-----------------------------------------------------------------------------
(* Narrowing: the maps from keys to values that merge_constraints makes. *)

Maps == {m \in UNION {[K -> Value] : K \in SUBSET Key} : IsFiniteSet(DOMAIN m)}

(* One constraint goes into the map: of the requested, or of those held. *)
Onto(requested, m, c) == IF requested = TRUE THEN Stricter(m, c) ELSE Bind(m, c.key, c.value)

LEMMA BindMakes ==
  ASSUME NEW m \in Maps, NEW k \in Key, NEW v \in Value
  PROVE  /\ Bind(m, k, v) \in Maps /\ DOMAIN Bind(m, k, v) = DOMAIN m \cup {k}
         /\ Bind(m, k, v)[k] = v /\ \A x \in DOMAIN m \ {k} : Bind(m, k, v)[x] = m[x]
<1>1. DOMAIN m \in SUBSET Key /\ m \in [DOMAIN m -> Value] /\ IsFiniteSet(DOMAIN m)
  BY DEF Maps
<1>2. DOMAIN Bind(m, k, v) = DOMAIN m \cup {k}
  BY DEF Bind
<1>3. Bind(m, k, v) \in [DOMAIN m \cup {k} -> Value]
  BY <1>1 DEF Bind
<1>4. DOMAIN m \cup {k} \in SUBSET Key /\ IsFiniteSet(DOMAIN m \cup {k})
  BY <1>1, FS_AddElement
<1>5. Bind(m, k, v) \in Maps
  BY <1>2, <1>3, <1>4 DEF Maps
<1>6. Bind(m, k, v)[k] = v /\ \A x \in DOMAIN m \ {k} : Bind(m, k, v)[x] = m[x]
  BY DEF Bind
<1> QED
  BY <1>2, <1>5, <1>6

LEMMA OntoMakes ==
  ASSUME NEW requested \in BOOLEAN, NEW m \in Maps, NEW c \in Constraint
  PROVE  /\ Onto(requested, m, c) \in Maps
         /\ DOMAIN Onto(requested, m, c) = DOMAIN m \cup {c.key}
         /\ \A x \in DOMAIN m \ {c.key} : Onto(requested, m, c)[x] = m[x]
         /\ requested = FALSE \/ c.key \notin DOMAIN m => Onto(requested, m, c)[c.key] = c.value
         /\ requested = TRUE /\ c.key \in DOMAIN m =>
              LET new == Onto(requested, m, c)[c.key]
                  old == m[c.key]
              IN  IF c.value \in Number /\ old \in Number /\ c.value < old
                    THEN new = c.value ELSE new = old
<1>1. c.key \in Key /\ c.value \in Value
  BY DEF Constraint
<1>2. /\ Bind(m, c.key, c.value) \in Maps
      /\ DOMAIN Bind(m, c.key, c.value) = DOMAIN m \cup {c.key}
      /\ Bind(m, c.key, c.value)[c.key] = c.value
      /\ \A x \in DOMAIN m \ {c.key} : Bind(m, c.key, c.value)[x] = m[x]
  <2>1. PICK k \in Key, v \in Value : k = c.key /\ v = c.value
    BY <1>1
  <2>2. /\ Bind(m, k, v) \in Maps /\ DOMAIN Bind(m, k, v) = DOMAIN m \cup {k}
        /\ Bind(m, k, v)[k] = v /\ \A x \in DOMAIN m \ {k} : Bind(m, k, v)[x] = m[x]
    BY BindMakes
  <2> QED
    BY <2>1, <2>2
<1>3. CASE requested = FALSE \/ c.key \notin DOMAIN m
  <2>1. Onto(requested, m, c) = Bind(m, c.key, c.value)
    BY <1>3 DEF Onto, Stricter
  <2>2. ~(requested = TRUE /\ c.key \in DOMAIN m)
    BY <1>3
  <2> QED
    BY <1>2, <2>1, <2>2
<1>4. CASE requested = TRUE /\ c.key \in DOMAIN m
  <2>1. CASE c.value \in Number /\ m[c.key] \in Number /\ c.value < m[c.key]
    <3>1. Onto(requested, m, c) = Bind(m, c.key, c.value)
      BY <1>4, <2>1 DEF Onto, Stricter
    <3> QED
      BY <1>2, <1>4, <2>1, <3>1
  <2>2. CASE ~(c.value \in Number /\ m[c.key] \in Number /\ c.value < m[c.key])
    <3>1. Onto(requested, m, c) = m
      BY <1>4, <2>2 DEF Onto, Stricter
    <3> QED
      BY <1>4, <2>2, <3>1
  <2> QED
    BY <2>1, <2>2
<1> QED
  BY <1>3, <1>4

(* The function that the constraints of a list are folded with. *)
OntoFold(requested, base, list) ==
  CHOOSE f : f = [s \in SUBSET DOMAIN list |->
                    IF s = {} THEN base
                    ELSE Onto(requested, f[s \ {Max(s)}], list[Max(s)])]

(* The constraints go in one by one. *)
LEMMA OntoSteps ==
  ASSUME NEW requested \in BOOLEAN, NEW base \in Maps, NEW list \in Seq(Constraint)
  PROVE  \E at \in [0 .. Len(list) -> Maps] :
           /\ at[0] = base /\ at[Len(list)] = OntoFold(requested, base, list)[DOMAIN list]
           /\ \A i \in 1 .. Len(list) : at[i] = Onto(requested, at[i - 1], list[i])
<1> DEFINE n == Len(list)
           fold == OntoFold(requested, base, list)
           step == [i \in 1 .. n |-> [m \in Maps |-> Onto(requested, m, list[i])]]
           Is(f) == f = [s \in SUBSET DOMAIN list |->
                           IF s = {} THEN base
                           ELSE Onto(requested, f[s \ {Max(s)}], list[Max(s)])]
<1>1. n \in Nat /\ DOMAIN list = 1 .. n /\ \A i \in 1 .. n : list[i] \in Constraint
  BY ElementOfSeq
<1>2. step \in Steps(n, Maps)
  <2>1. \A i \in 1 .. n : \A m \in Maps : Onto(requested, m, list[i]) \in Maps
    BY <1>1, OntoMakes
  <2> QED
    BY <2>1 DEF Steps
<1>3. \A i \in 1 .. n : \A m \in Maps : step[i][m] = Onto(requested, m, list[i])
  OBVIOUS
<1>4. \A s \in SUBSET (1 .. n) : s # {} => Max(s) \in s
  <2>1. \A s \in SUBSET (1 .. n) : s \in SUBSET (0 .. n)
    BY <1>1
  <2> QED
    BY <1>1, <2>1, GreatestMember
<1>5. \E f : Is(f)
  <2> HIDE DEF n, step
  <2>1. PICK f : Folding(f, n, Maps, base, step)
    BY <1>1, <1>2, FoldExists
  <2>2. ASSUME NEW s \in SUBSET (1 .. n)
        PROVE  f[s] = IF s = {} THEN base
                      ELSE Onto(requested, f[s \ {Max(s)}], list[Max(s)])
    <3>1. s # {} => Max(s) \in 1 .. n /\ f[s \ {Max(s)}] \in Maps
      BY <1>4, <2>1 DEF Folding
    <3> QED
      BY <1>3, <2>1, <3>1 DEF Folding
  <2>3. Is(f)
    BY <1>1, <2>1, <2>2 DEF Folding
  <2> QED
    BY <2>3
<1>6. Is(fold)
  <2>1. fold = CHOOSE f : Is(f)
    BY DEF OntoFold
  <2> HIDE DEF Is, fold
  <2> QED
    BY <1>5, <2>1
<1> HIDE DEF n, step, fold
<1>7. Unfolds(fold, n, Maps, base, step)
  <2>1. \A s \in SUBSET (1 .. n) :
          fold[s] = IF s = {} THEN base
                    ELSE Onto(requested, fold[s \ {Max(s)}], list[Max(s)])
    BY <1>1, <1>6
  <2> QED
    BY <1>3, <1>4, <2>1 DEF Unfolds
<1>8. PICK at : Along(at, n, Maps, base, step) /\ at[n] = fold[1 .. n]
  BY <1>1, <1>2, <1>7, FoldSteps
<1>9. \A i \in 1 .. n : at[i] = Onto(requested, at[i - 1], list[i])
  <2>1. \A i \in 1 .. n : at[i - 1] \in Maps
    BY <1>1, <1>8 DEF Along
  <2> QED
    BY <1>3, <1>8, <2>1 DEF Along
<1> QED
  BY <1>1, <1>8, <1>9 DEF n, fold, Along

(* The place i is the last among the first k with its key. *)
LastAt(list, k, i) == \A j \in 1 .. k : j > i => list[j].key # list[i].key

(* Of the constraints held, the map has the last value of each key. *)
LEMMA HeldMap ==
  ASSUME NEW list \in Seq(Constraint)
  PROVE  LET held == OntoFold(FALSE, <<>>, list)[DOMAIN list]
         IN  /\ held \in Maps
             /\ \A i \in DOMAIN list :
                  /\ list[i].key \in DOMAIN held
                  /\ \E j \in DOMAIN list :
                       /\ LastAt(list, Len(list), j) /\ list[j].key = list[i].key
                       /\ held[list[i].key] = list[j].value
<1> DEFINE n == Len(list)
<1>1. n \in Nat /\ DOMAIN list = 1 .. n /\ \A i \in 1 .. n : list[i] \in Constraint
  BY ElementOfSeq
<1>2. <<>> \in Maps
  <2>1. <<>> \in [{} -> Value] /\ DOMAIN <<>> = {}
    OBVIOUS
  <2> QED
    BY <2>1, FS_EmptySet DEF Maps
<1>3. PICK at \in [0 .. n -> Maps] :
        /\ at[0] = <<>> /\ at[n] = OntoFold(FALSE, <<>>, list)[DOMAIN list]
        /\ \A i \in 1 .. n : at[i] = Onto(FALSE, at[i - 1], list[i])
  BY <1>2, OntoSteps
<1> HIDE DEF n
<1> DEFINE Named(k, i) ==
             /\ list[i].key \in DOMAIN at[k]
             /\ \E j \in 1 .. k : /\ LastAt(list, k, j) /\ list[j].key = list[i].key
                                 /\ at[k][list[i].key] = list[j].value
           T == {k \in 0 .. n : \A i \in 1 .. k : Named(k, i)}
<1>4. 0 \in T
  BY <1>1
<1>5. ASSUME NEW k \in 0 .. n - 1, k \in T
      PROVE  k + 1 \in T
  <2>1. k + 1 \in 1 .. n /\ (k + 1) - 1 = k /\ at[k] \in Maps /\ list[k + 1] \in Constraint
    BY <1>1
  <2>2. at[k + 1] = Onto(FALSE, at[k], list[k + 1])
    BY <1>3, <2>1
  <2>a. PICK c \in Constraint, m \in Maps : c = list[k + 1] /\ m = at[k]
    BY <2>1
  <2>b. /\ DOMAIN Onto(FALSE, m, c) = DOMAIN m \cup {c.key}
        /\ FALSE = FALSE \/ c.key \notin DOMAIN m => Onto(FALSE, m, c)[c.key] = c.value
        /\ \A x \in DOMAIN m \ {c.key} : Onto(FALSE, m, c)[x] = m[x]
    BY OntoMakes
  <2>3. /\ DOMAIN at[k + 1] = DOMAIN m \cup {c.key}
        /\ at[k + 1][c.key] = c.value
        /\ \A x \in DOMAIN m \ {c.key} : at[k + 1][x] = m[x]
    BY <2>a, <2>b, <2>2
  <2>4. ASSUME NEW i \in 1 .. k + 1
        PROVE  Named(k + 1, i)
    <3>1. CASE list[i].key = c.key
      <4>1. LastAt(list, k + 1, k + 1)
        BY <2>1 DEF LastAt
      <4> QED
        BY <2>1, <2>3, <2>a, <3>1, <4>1
    <3>2. CASE list[i].key # c.key
      <4>1. i \in 1 .. k
        BY <2>1, <2>a, <3>2
      <4>2. PICK j \in 1 .. k : /\ LastAt(list, k, j) /\ list[j].key = list[i].key
                                /\ m[list[i].key] = list[j].value
        BY <1>5, <2>a, <4>1
      <4>3. list[i].key \in DOMAIN m
        BY <1>5, <2>a, <4>1
      <4>4. LastAt(list, k + 1, j) /\ j \in 1 .. k + 1
        <5>1. \A x \in 1 .. k + 1 : x \in 1 .. k \/ x = k + 1
          BY <2>1
        <5> QED
          BY <2>1, <2>a, <3>2, <4>2, <5>1 DEF LastAt
      <4> QED
        BY <2>3, <3>2, <4>2, <4>3, <4>4
    <3> QED
      BY <3>1, <3>2
  <2> HIDE DEF Named
  <2> QED
    BY <2>1, <2>4
<1>6. n \in T
  <2> HIDE DEF T
  <2>1. \A k \in 0 .. n - 1 : k \in T => k + 1 \in T
    BY <1>5
  <2>2. 0 .. n \subseteq T
    BY <1>1, <1>4, <2>1, Induct
  <2> QED
    BY <1>1, <2>2
<1>7. \A i \in 1 .. n : Named(n, i)
  BY <1>1, <1>6
<1> QED
  BY <1>1, <1>3, <1>7 DEF n

(* A value held is left, or gives way to a smaller number of the request. *)
TakesPlace(list, k, key, old, new) ==
  \/ new = old
  \/ /\ old \in Number /\ new \in Number /\ new <= old
     /\ \E i \in 1 .. k : list[i].key = key /\ list[i].value = new

(* A number of the request bounds what is in the map from there on. *)
Below(v, m, key) == key \in DOMAIN m /\ (v \in Number /\ m[key] \in Number => m[key] <= v)

(* Of the constraints requested, none makes the map less strict, and each  *)
(* bounds what is in the map from there on.                                *)
LEMMA MergedMap ==
  ASSUME NEW list \in Seq(Constraint), NEW held \in Maps
  PROVE  LET merged == OntoFold(TRUE, held, list)[DOMAIN list]
         IN  /\ merged \in Maps
             /\ \A x \in DOMAIN held :
                  /\ x \in DOMAIN merged
                  /\ TakesPlace(list, Len(list), x, held[x], merged[x])
             /\ \A i \in DOMAIN list : Below(list[i].value, merged, list[i].key)
<1> DEFINE n == Len(list)
<1>1. n \in Nat /\ DOMAIN list = 1 .. n /\ \A i \in 1 .. n : list[i] \in Constraint
  BY ElementOfSeq
<1>2. PICK at \in [0 .. n -> Maps] :
        /\ at[0] = held /\ at[n] = OntoFold(TRUE, held, list)[DOMAIN list]
        /\ \A i \in 1 .. n : at[i] = Onto(TRUE, at[i - 1], list[i])
  BY OntoSteps
<1> HIDE DEF n
<1> DEFINE T == {k \in 0 .. n :
                   /\ \A x \in DOMAIN held :
                        x \in DOMAIN at[k] /\ TakesPlace(list, k, x, held[x], at[k][x])
                   /\ \A i \in 1 .. k : Below(list[i].value, at[k], list[i].key)}
<1>o. /\ \A p, q, r \in Number : p <= q /\ q <= r => p <= r
      /\ \A p, q \in Number : p <= p /\ (p < q => p <= q) /\ (~(p < q) => q <= p)
  <2>1. /\ \A p, q, r \in Int : p <= q /\ q <= r => p <= r
        /\ \A p, q \in Int : p <= p /\ (p < q => p <= q) /\ (~(p < q) => q <= p)
    OBVIOUS
  <2> QED
    BY <2>1, NumberAssumption
<1>3. 0 \in T
  BY <1>1, <1>2 DEF TakesPlace
<1>4. ASSUME NEW k \in 0 .. n - 1, k \in T
      PROVE  k + 1 \in T
  <2>1. k + 1 \in 1 .. n /\ (k + 1) - 1 = k /\ at[k] \in Maps /\ list[k + 1] \in Constraint
    BY <1>1
  <2>2. at[k + 1] = Onto(TRUE, at[k], list[k + 1])
    BY <1>2, <2>1
  <2>a. PICK c \in Constraint, m \in Maps : c = list[k + 1] /\ m = at[k]
    BY <2>1
  <2>b. /\ DOMAIN Onto(TRUE, m, c) = DOMAIN m \cup {c.key}
        /\ \A x \in DOMAIN m \ {c.key} : Onto(TRUE, m, c)[x] = m[x]
        /\ c.key \notin DOMAIN m => Onto(TRUE, m, c)[c.key] = c.value
        /\ c.key \in DOMAIN m =>
             IF c.value \in Number /\ m[c.key] \in Number /\ c.value < m[c.key]
               THEN Onto(TRUE, m, c)[c.key] = c.value ELSE Onto(TRUE, m, c)[c.key] = m[c.key]
    BY OntoMakes
  <2>3. /\ DOMAIN at[k + 1] = DOMAIN m \cup {c.key}
        /\ \A x \in DOMAIN m \ {c.key} : at[k + 1][x] = m[x]
        /\ c.key \notin DOMAIN m => at[k + 1][c.key] = c.value
        /\ c.key \in DOMAIN m =>
             IF c.value \in Number /\ m[c.key] \in Number /\ c.value < m[c.key]
               THEN at[k + 1][c.key] = c.value ELSE at[k + 1][c.key] = m[c.key]
    BY <2>2, <2>a, <2>b
  <2>4. ASSUME NEW x \in DOMAIN m
        PROVE  \/ at[k + 1][x] = m[x]
               \/ /\ x = c.key /\ at[k + 1][x] = c.value
                  /\ c.value \in Number /\ m[x] \in Number /\ c.value <= m[x]
    BY <1>o, <2>3
  <2>5. ASSUME NEW x \in DOMAIN held
        PROVE  x \in DOMAIN at[k + 1] /\ TakesPlace(list, k + 1, x, held[x], at[k + 1][x])
    <3>1. x \in DOMAIN m /\ TakesPlace(list, k, x, held[x], m[x])
      BY <1>4, <2>a
    <3>2. x \in DOMAIN at[k + 1]
      BY <2>3, <3>1
    <3>3. \A i \in 1 .. k : i \in 1 .. k + 1
      BY <2>1
    <3>4. CASE at[k + 1][x] = m[x]
      BY <3>1, <3>2, <3>3, <3>4 DEF TakesPlace
    <3>5. CASE /\ x = c.key /\ at[k + 1][x] = c.value
               /\ c.value \in Number /\ m[x] \in Number /\ c.value <= m[x]
      <4>1. held[x] \in Number /\ c.value <= held[x]
        BY <1>o, <3>1, <3>5 DEF TakesPlace
      <4>2. k + 1 \in 1 .. k + 1
        BY <2>1
      <4> QED
        BY <2>a, <3>2, <3>5, <4>1, <4>2 DEF TakesPlace
    <3> QED
      BY <2>4, <3>1, <3>4, <3>5
  <2>6. ASSUME NEW v, NEW x, Below(v, m, x)
        PROVE  Below(v, at[k + 1], x)
    BY <1>o, <2>3, <2>4, <2>6 DEF Below
  <2>7. Below(c.value, at[k + 1], c.key)
    <3>1. CASE c.key \notin DOMAIN m
      BY <1>o, <2>3, <3>1 DEF Below
    <3>2. CASE c.key \in DOMAIN m
      BY <1>o, <2>3, <3>2 DEF Below
    <3> QED
      BY <3>1, <3>2
  <2>8. \A i \in 1 .. k + 1 : Below(list[i].value, at[k + 1], list[i].key)
    <3>1. \A i \in 1 .. k : Below(list[i].value, m, list[i].key)
      BY <1>4, <2>a
    <3>2. \A i \in 1 .. k + 1 : i \in 1 .. k \/ i = k + 1
      BY <2>1
    <3> QED
      BY <2>6, <2>7, <2>a, <3>1, <3>2
  <2> QED
    BY <2>1, <2>5, <2>8
<1>5. n \in T
  <2> HIDE DEF T
  <2>1. \A k \in 0 .. n - 1 : k \in T => k + 1 \in T
    BY <1>4
  <2>2. 0 .. n \subseteq T
    BY <1>1, <1>3, <2>1, Induct
  <2> QED
    BY <1>1, <2>2
<1> QED
  BY <1>1, <1>2, <1>5 DEF n

(* What the narrowing of one capability by another is made of. *)
HeldOf(parent) == OntoFold(FALSE, <<>>, parent.constraints)[DOMAIN parent.constraints]

MergedOf(parent, requested) ==
  OntoFold(TRUE, HeldOf(parent), requested.constraints)[DOMAIN requested.constraints]

LEMMA FoldsAreOnto ==
  ASSUME NEW list, NEW base
  PROVE  /\ FoldLeft(LAMBDA m, c : Bind(m, c.key, c.value), base, list)
              = OntoFold(FALSE, base, list)[DOMAIN list]
         /\ FoldLeft(Stricter, base, list) = OntoFold(TRUE, base, list)[DOMAIN list]
<1>1. FoldLeft(Stricter, base, list) = OntoFold(TRUE, base, list)[DOMAIN list]
  BY DEF FoldLeft, MapThenFoldSet, Onto, OntoFold
<1>2. FoldLeft(LAMBDA m, c : Bind(m, c.key, c.value), base, list)
        = OntoFold(FALSE, base, list)[DOMAIN list]
  BY DEF FoldLeft, MapThenFoldSet, Onto, OntoFold
<1> QED
  BY <1>1, <1>2

(* What was held gives way as the property says, and no further. *)
LEMMA PlaceTightens ==
  ASSUME NEW requested, NEW last, NEW pc, NEW new,
         TakesPlace(requested.constraints, Len(requested.constraints), pc.key, last.value, new),
         requested.constraints \in Seq(Constraint),
         \A c \in Constraints(requested) :
           c.key = pc.key /\ c.value \in Number /\ new \in Number => new <= c.value
  PROVE  Tightens(requested, last, pc) <=> AtMost(pc.value, new)
<1>1. ASSUME last.value \in Number, new \in Number, new <= last.value
      PROVE  AtMost(last.value, new)
  BY <1>1 DEF AtMost, Parses
<1>2. ASSUME NEW rc \in Constraints(requested), rc.value \in Number, new \in Number, new <= rc.value
      PROVE  AtMost(rc.value, new)
  BY <1>2 DEF AtMost, Parses
<1>3. ASSUME last.value \in Number
      PROVE  new \in Number
  BY <1>3 DEF TakesPlace
<1>4. new = last.value \/ /\ last.value \in Number /\ new \in Number /\ new <= last.value
                          /\ \E rc \in Constraints(requested) : rc.key = pc.key /\ rc.value = new
  <2>1. DOMAIN requested.constraints = 1 .. Len(requested.constraints)
    BY ElementOfSeq
  <2> QED
    BY <2>1 DEF TakesPlace, Constraints
<1>5. ASSUME AtMost(pc.value, last.value)
      PROVE  AtMost(pc.value, new)
  BY <1>1, <1>4, <1>5, AtMostTransitive
<1>6. ASSUME last.value \in Number, NEW rc \in Constraints(requested),
             rc.key = pc.key, rc.value \in Number, AtMost(pc.value, rc.value)
      PROVE  AtMost(pc.value, new)
  <2>1. new \in Number /\ new <= rc.value
    BY <1>3, <1>6
  <2> QED
    BY <1>2, <1>6, <2>1, AtMostTransitive
<1>7. ASSUME AtMost(pc.value, new)
      PROVE  Tightens(requested, last, pc)
  BY <1>4, <1>7 DEF Tightens
<1> HIDE DEF AtMost
<1> QED
  BY <1>5, <1>6, <1>7 DEF Tightens

LEMMA NarrowedIs ==
  ASSUME NEW held, NEW requested, held.constraints \in Seq(Constraint),
         requested.constraints \in Seq(Constraint)
  PROVE  LET narrowed == Merge(held, requested)
         IN  /\ CapabilityMatches(narrowed, held) <=>
                  \A pc \in Constraints(held) :
                    \E last \in LastNamed(held) :
                      last.key = pc.key /\ Tightens(requested, last, pc)
             /\ \A c \in Constraints(requested), n \in Constraints(narrowed) :
                  n.key = c.key /\ c.value \in Number /\ n.value \in Number
                    => n.value <= c.value
<1> DEFINE narrowed == Merge(held, requested)
           before == HeldOf(held)
           merged == MergedOf(held, requested)
           S == {[key |-> k, value |-> merged[k]] : k \in DOMAIN merged}
<1>1. narrowed = [resource |-> held.resource, action |-> held.action,
                  constraints |-> SetToSeq(S)]
  BY FoldsAreOnto DEF Merge, MergedOf, HeldOf
<1>2. /\ before \in Maps
      /\ \A pc \in Constraints(held) :
           /\ pc.key \in DOMAIN before
           /\ \E last \in LastNamed(held) : last.key = pc.key /\ before[pc.key] = last.value
  <2>1. PICK list \in Seq(Constraint) : list = held.constraints
    OBVIOUS
  <2>2. LET map == OntoFold(FALSE, <<>>, list)[DOMAIN list]
        IN  /\ map \in Maps
            /\ \A i \in DOMAIN list :
                 /\ list[i].key \in DOMAIN map
                 /\ \E j \in DOMAIN list :
                      /\ LastAt(list, Len(list), j) /\ list[j].key = list[i].key
                      /\ map[list[i].key] = list[j].value
    BY HeldMap
  <2>3. DOMAIN list = 1 .. Len(list)
    BY ElementOfSeq
  <2>4. \A j \in DOMAIN list : LastAt(list, Len(list), j) => list[j] \in LastNamed(held)
    BY <2>1, <2>3 DEF LastAt, LastNamed
  <2>5. before = OntoFold(FALSE, <<>>, list)[DOMAIN list]
    BY <2>1 DEF HeldOf
  <2>6. ASSUME NEW pc \in Constraints(held)
        PROVE  /\ pc.key \in DOMAIN before
               /\ \E last \in LastNamed(held) : last.key = pc.key /\ before[pc.key] = last.value
    <3>1. PICK i \in DOMAIN list : pc = list[i]
      BY <2>1 DEF Constraints
    <3>2. PICK j \in DOMAIN list :
            /\ LastAt(list, Len(list), j) /\ list[j].key = list[i].key
            /\ before[list[i].key] = list[j].value
      BY <2>2, <2>5
    <3>3. list[i].key \in DOMAIN before
      BY <2>2, <2>5
    <3> HIDE DEF before
    <3> QED
      BY <2>4, <3>1, <3>2, <3>3
  <2> QED
    BY <2>2, <2>5, <2>6
<1>3. /\ merged \in Maps
      /\ \A x \in DOMAIN before :
           /\ x \in DOMAIN merged
           /\ TakesPlace(requested.constraints, Len(requested.constraints), x,
                         before[x], merged[x])
      /\ \A c \in Constraints(requested) : Below(c.value, merged, c.key)
  <2>1. PICK list \in Seq(Constraint), base \in Maps :
          list = requested.constraints /\ base = HeldOf(held)
    BY <1>2
  <2>2. LET to == OntoFold(TRUE, base, list)[DOMAIN list]
        IN  /\ to \in Maps
            /\ \A x \in DOMAIN base :
                 x \in DOMAIN to /\ TakesPlace(list, Len(list), x, base[x], to[x])
            /\ \A i \in DOMAIN list : Below(list[i].value, to, list[i].key)
    BY <2>1, MergedMap
  <2> QED
    BY <2>1, <2>2 DEF MergedOf, Constraints
<1> HIDE DEF before, merged
<1>4. Constraints(narrowed) = S
  <2>1. IsFiniteSet(S)
    <3>1. IsFiniteSet(DOMAIN merged)
      BY <1>3 DEF Maps
    <3> DEFINE f == [k \in DOMAIN merged |-> [key |-> k, value |-> merged[k]]]
    <3>2. f \in Surjection(DOMAIN merged, S)
      BY DEF Surjection
    <3> HIDE DEF f, S
    <3> QED
      BY <3>1, <3>2, FS_Surjection
  <2> HIDE DEF S
  <2> QED
    BY <1>1, <2>1, ListHolds DEF Constraints
<1>5. ASSUME NEW pc \in Constraints(held)
      PROVE  (\E cc \in S : cc.key = pc.key /\ AtMost(pc.value, cc.value))
               <=> \E last \in LastNamed(held) : last.key = pc.key /\ Tightens(requested, last, pc)
  <2>1. PICK last \in LastNamed(held) : last.key = pc.key /\ before[pc.key] = last.value
    BY <1>2
  <2>2. pc.key \in DOMAIN merged
        /\ TakesPlace(requested.constraints, Len(requested.constraints), pc.key,
                      last.value, merged[pc.key])
    BY <1>2, <1>3, <2>1
  <2>3. \A c \in Constraints(requested) :
          c.key = pc.key /\ c.value \in Number /\ merged[pc.key] \in Number
            => merged[pc.key] <= c.value
    BY <1>3 DEF Below
  <2>4. PICK new : new = merged[pc.key]
    OBVIOUS
  <2>5. Tightens(requested, last, pc) <=> AtMost(pc.value, merged[pc.key])
    BY <2>2, <2>3, <2>4, PlaceTightens
  <2>6. \A other \in LastNamed(held) : other.key = pc.key => other = last
    <3>1. DOMAIN held.constraints \subseteq Nat
      BY ElementOfSeq
    <3>2. ASSUME NEW i \in DOMAIN held.constraints, NEW j \in DOMAIN held.constraints
          PROVE  i = j \/ i > j \/ j > i
      BY <3>1
    <3> QED
      BY <2>1, <3>2 DEF LastNamed
  <2>7. (\E cc \in S : cc.key = pc.key /\ AtMost(pc.value, cc.value))
          <=> AtMost(pc.value, merged[pc.key])
    <3>1. PICK k \in DOMAIN merged : k = pc.key
      BY <2>2
    <3>2. [key |-> k, value |-> merged[k]] \in S
      OBVIOUS
    <3>3. \A cc \in S : cc.value = merged[cc.key]
      OBVIOUS
    <3> HIDE DEF S, AtMost
    <3> QED
      BY <3>1, <3>2, <3>3
  <2> HIDE DEF S, AtMost, Tightens
  <2> QED
    BY <2>1, <2>5, <2>6, <2>7
<1>6. ASSUME NEW c \in Constraints(requested), NEW n \in S,
             n.key = c.key, c.value \in Number, n.value \in Number
      PROVE  n.value <= c.value
  <2>1. n.value = merged[c.key]
    BY <1>6
  <2> QED
    BY <1>3, <1>6, <2>1 DEF Below
<1>7. SameKind(narrowed, held)
  BY <1>1 DEF SameKind
<1> HIDE DEF S, narrowed
<1>8. \A c \in Constraints(requested), n \in Constraints(narrowed) :
        n.key = c.key /\ c.value \in Number /\ n.value \in Number => n.value <= c.value
  BY <1>4, <1>6
<1>9. CapabilityMatches(narrowed, held) <=>
        \A pc \in Constraints(held) :
          \E last \in LastNamed(held) : last.key = pc.key /\ Tightens(requested, last, pc)
  <2> HIDE DEF AtMost, Tightens
  <2> QED
    BY <1>4, <1>5, <1>7 DEF CapabilityMatches
<1> QED
  BY <1>8, <1>9 DEF narrowed

(* Whatever is held and whatever is asked, narrowing is accepted under the *)
(* DID that holds the capability in the cases named and in no others, and  *)
(* keeps to the numbers of the request.                                    *)
THEOREM NarrowingIsExact == AuditSpec => []NarrowedAcceptedExactly
<1>1. AuditTypeOK => NarrowedAcceptedExactly
  <2> SUFFICES ASSUME AuditTypeOK, NEW d \in DID, Has(records, d),
                      NEW held \in Granted(d), NEW requested \in Capability,
                      SameKind(held, requested)
               PROVE  LET narrowed == Merge(held, requested) IN
                        /\ CapabilityMatches(narrowed, held) <=>
                             \A pc \in Constraints(held) :
                               \E last \in LastNamed(held) :
                                 last.key = pc.key /\ Tightens(requested, last, pc)
                        /\ \A c \in Constraints(requested), n \in Constraints(narrowed) :
                             n.key = c.key /\ c.value \in Number /\ n.value \in Number
                               => n.value <= c.value
    BY DEF NarrowedAcceptedExactly
  <2>1. records[d] \in Record
    BY DEF AuditTypeOK, TypeOK, Has
  <2>2. held \in Capability
    BY <2>1 DEF Record, Granted
  <2> HIDE DEF Granted
  <2> QED
    BY <2>2, NarrowedIs, CapabilityAssumption
<1> QED
  BY <1>1, AuditTypeCorrect, PTL

-----------------------------------------------------------------------------
(* The lock: a cascade has the map for itself. *)
Exclusive ==
  \A t \in Task : Cascading(t) => \A u \in Task \ {t} : ~Cascading(u) /\ ~Walking(u)

(* S holds d and, with a DID, the parent its record names. *)
Climbs(recs, d, S) == d \in S /\ \A y \in S : Has(recs, y) => recs[y].parent \in S

(* What a walk has collected: live links, each the child of a link or of the *)
(* next DID to look at, and all on the way up from the DID it began at.      *)
WalkClimbs(recs, walk) ==
  LET seen == walk.links \cup {walk.current} IN
    /\ \A d \in walk.links : Live(recs, d) /\ recs[d].parent \in seen
    /\ walk.did \in seen
    /\ \A S \in SUBSET DID : Climbs(recs, walk.did, S) => seen \subseteq S

WalksClimb == \A t \in Task : Walking(t) => WalkClimbs(records, call[t])

ManagerInv == StoreInv /\ CallTypeOK /\ Exclusive /\ CascadeFrontier /\ WalksClimb

-----------------------------------------------------------------------------
(* Lemmas on the operators. *)

(* Nothing is below no DID. *)
LEMMA NothingBelowNothing ==
  ASSUME NEW recs
  PROVE  LiveBelow(recs, {}) = {}
<1>1. BelowClosed(recs, {}, {})
  BY DEF BelowClosed, LiveChildren
<1> QED
  BY <1>1 DEF LiveBelow

(* Revoking twice is revoking both sets at once, and revoking none nothing. *)
LEMMA RevokeTwice ==
  ASSUME NEW recs \in [DID -> Record \cup {NoRecord}], NEW A, NEW B
  PROVE  RevokeAll(RevokeAll(recs, A), B) = RevokeAll(recs, A \cup B)
<1>1. ASSUME NEW d \in DID
      PROVE  RevokeAll(RevokeAll(recs, A), B)[d] = RevokeAll(recs, A \cup B)[d]
  <2>1. CASE ~Has(recs, d)
    <3>1. ~Has(RevokeAll(recs, A), d)
      BY <2>1, RevokeAllFields
    <3> QED
      BY <2>1, <3>1 DEF RevokeAll, Has
  <2>2. CASE Has(recs, d)
    <3>1. Has(RevokeAll(recs, A), d)
      BY <2>2, RevokeAllFields
    <3>2. recs[d] \in Record
      BY <2>2 DEF Has
    <3>3. [[recs[d] EXCEPT !.revoked = TRUE] EXCEPT !.revoked = TRUE]
            = [recs[d] EXCEPT !.revoked = TRUE]
      BY <3>2 DEF Record
    <3> QED
      BY <2>2, <3>1, <3>3 DEF RevokeAll
  <2> QED
    BY <2>1, <2>2
<1> QED
  BY <1>1 DEF RevokeAll

LEMMA RevokeNone ==
  ASSUME NEW recs \in [DID -> Record \cup {NoRecord}]
  PROVE  RevokeAll(recs, {}) = recs
BY DEF RevokeAll

(* One turn of the cascade: what was below the queue is the children it    *)
(* revokes and what is then below the new queue.                           *)
LEMMA BelowStep ==
  ASSUME NEW recs \in [DID -> Record \cup {NoRecord}],
         NEW Q \in SUBSET DID, NEW p \in Q,
         NEW C, C = LiveChildren(recs, {p})
  PROVE  LiveBelow(recs, Q)
           = C \cup LiveBelow(RevokeAll(recs, C), (Q \ {p}) \cup C)
<1> DEFINE left == RevokeAll(recs, C)
           rest == (Q \ {p}) \cup C
           old == LiveBelow(recs, Q)
           new == LiveBelow(left, rest)
<1>0. C \subseteq DID /\ old \in SUBSET DID /\ C \cup new \in SUBSET DID
  BY DEF LiveBelow, LiveChildren
<1>1. LiveChildren(recs, Q \cup old) \subseteq old
  BY BelowIsClosed DEF BelowClosed
<1>2. C \subseteq old
  BY <1>1 DEF LiveChildren
<1>3. BelowClosed(left, rest, old)
  <2>1. LiveChildren(left, rest \cup old) = LiveChildren(recs, rest \cup old) \ C
    BY ChildrenLeft
  <2>2. rest \cup old \subseteq Q \cup old
    BY <1>2
  <2>3. LiveChildren(recs, rest \cup old) \subseteq LiveChildren(recs, Q \cup old)
    BY <2>2 DEF LiveChildren
  <2> HIDE DEF left, rest, old
  <2> QED
    BY <2>1, <2>3, <1>1 DEF BelowClosed
<1>4. new \subseteq old
  BY <1>0, <1>3 DEF LiveBelow
<1>5. BelowClosed(recs, Q, C \cup new)
  <2> SUFFICES ASSUME NEW x \in LiveChildren(recs, Q \cup (C \cup new)), x \notin C
               PROVE  x \in new
    BY DEF BelowClosed
  <2>1. recs[x].parent # p
    BY DEF LiveChildren
  <2>2. x \in LiveChildren(recs, rest \cup new)
    BY <2>1 DEF LiveChildren
  <2>3. x \in LiveChildren(left, rest \cup new)
    BY <2>2, ChildrenLeft
  <2> QED
    BY <2>3, BelowIsClosed DEF BelowClosed
<1>6. old \subseteq C \cup new
  BY <1>0, <1>5 DEF LiveBelow
<1> QED
  BY <1>2, <1>4, <1>6

(* The target of a cascade goes first. *)
LEMMA BelowStart ==
  ASSUME NEW recs \in [DID -> Record \cup {NoRecord}], NEW d \in DID
  PROVE  {d} \cup LiveBelow(recs, {d})
           = {d} \cup LiveBelow(RevokeAll(recs, {d}), {d})
<1> DEFINE left == RevokeAll(recs, {d})
           old == LiveBelow(recs, {d})
           new == LiveBelow(left, {d})
<1>0. old \in SUBSET DID /\ {d} \cup new \in SUBSET DID
  BY DEF LiveBelow
<1>1. BelowClosed(left, {d}, old)
  <2>1. LiveChildren(recs, {d} \cup old) \subseteq old
    BY BelowIsClosed DEF BelowClosed
  <2>2. LiveChildren(left, {d} \cup old) = LiveChildren(recs, {d} \cup old) \ {d}
    BY ChildrenLeft
  <2> HIDE DEF left, old
  <2> QED
    BY <2>1, <2>2 DEF BelowClosed
<1>2. new \subseteq old
  BY <1>0, <1>1 DEF LiveBelow
<1>3. BelowClosed(recs, {d}, {d} \cup new)
  <2> SUFFICES ASSUME NEW x \in LiveChildren(recs, {d} \cup ({d} \cup new)), x # d
               PROVE  x \in new
    BY DEF BelowClosed
  <2>1. x \in LiveChildren(recs, {d} \cup new)
    BY DEF LiveChildren
  <2>2. x \in LiveChildren(left, {d} \cup new)
    BY <2>1, ChildrenLeft
  <2> QED
    BY <2>2, BelowIsClosed DEF BelowClosed
<1>4. old \subseteq {d} \cup new
  BY <1>0, <1>3 DEF LiveBelow
<1> QED
  BY <1>2, <1>4

-----------------------------------------------------------------------------
(* The invariant. *)

LEMMA ManagerInvInit == MInit => ManagerInv
<1> SUFFICES ASSUME MInit
             PROVE  ManagerInv
  OBVIOUS
<1>1. StoreInv
  BY StoreInvInit DEF MInit
<1>2. \A t \in Task : call[t] = Idle /\ ~Cascading(t) /\ ~Walking(t)
  BY DEF MInit, Idle, Cascading, Walking
<1>3. CallTypeOK
  BY <1>1 DEF StoreInv, CallTypeOK, MInit
<1> QED
  BY <1>1, <1>2, <1>3 DEF ManagerInv, Exclusive, CascadeFrontier, WalksClimb

(* A call's local variables have the types of the loop it is in. *)
LEMMA CallTypes ==
  ASSUME CallTypeOK, NEW t \in Task
  PROVE  /\ Cascading(t) => call[t] \in CascadeCall
         /\ Walking(t) => call[t] \in WalkCall
BY DEF CallTypeOK, Cascading, Walking, Idle, CascadeCall, WalkCall

(* A step that finds the map locked by no one, leaves the calls as they are *)
(* and keeps the store's invariant keeps the whole invariant.               *)
LEMMA UnlockedStep ==
  ASSUME ManagerInv, CanWrite, StoreInv', UNCHANGED call
  PROVE  ManagerInv'
<1>1. \A t \in Task : ~Cascading(t)' /\ ~Walking(t)'
  BY DEF CanWrite, Cascading, Walking
<1>2. CallTypeOK'
  BY DEF ManagerInv, StoreInv, CallTypeOK
<1> QED
  BY <1>1, <1>2 DEF ManagerInv, Exclusive, CascadeFrontier, WalksClimb

(* A step of a cascade from `queue` that has revoked `revoked`, when no other *)
(* call runs: what has to be shown of the new queue.                          *)
LEMMA CascadingStep ==
  ASSUME ManagerInv, StoreInv', NEW t \in Task,
         NEW queue \in SUBSET DID, NEW revoked \in SUBSET DID,
         call' = [call EXCEPT ![t] = Cascade(queue, revoked)],
         \A u \in Task \ {t} : ~Cascading(u) /\ ~Walking(u),
         queue \subseteq revoked,
         \A d \in revoked : Has(records', d) /\ records'[d].revoked,
         LiveChildren(records', revoked) \subseteq LiveChildren(records', queue)
  PROVE  ManagerInv'
<1>1. /\ call'[t] = Cascade(queue, revoked)
      /\ \A u \in Task \ {t} : call'[u] = call[u]
  BY DEF ManagerInv, CallTypeOK
<1>2. CallTypeOK'
  <2>1. Cascade(queue, revoked) \in CascadeCall
    BY DEF CascadeCall, Cascade
  <2> QED
    BY <2>1 DEF ManagerInv, StoreInv, CallTypeOK
<1>3. /\ ~Walking(t)'
      /\ \A u \in Task \ {t} : ~Cascading(u)' /\ ~Walking(u)'
  BY <1>1 DEF Cascading, Walking, Cascade
<1>4. CascadeFrontier'
  BY <1>1, <1>3 DEF CascadeFrontier, Cascade
<1>5. Exclusive' /\ WalksClimb'
  BY <1>3 DEF Exclusive, WalksClimb
<1> QED
  BY <1>2, <1>4, <1>5 DEF ManagerInv

(* A step of call t that leaves the store alone and is no cascade's, when no *)
(* cascade runs elsewhere: what has to be shown is t's own walk.             *)
LEMMA ReadingStep ==
  ASSUME ManagerInv, UNCHANGED storeVars, NEW t \in Task,
         NEW c \in {Idle} \cup WalkCall,
         call' = [call EXCEPT ![t] = c],
         \A u \in Task \ {t} : ~Cascading(u),
         c # Idle => WalkClimbs(records, c)
  PROVE  ManagerInv'
<1>1. call'[t] = c /\ \A u \in Task \ {t} : call'[u] = call[u]
  BY DEF ManagerInv, CallTypeOK
<1>2. StoreInv' /\ CallTypeOK'
  <2>1. StoreInv'
    BY DEF ManagerInv, StoreInv, TypeOK, PendingFresh, storeVars
  <2> QED
    BY <2>1 DEF ManagerInv, StoreInv, CallTypeOK
<1>3. \A u \in Task : ~Cascading(u)'
  BY <1>1 DEF Cascading, Idle, WalkCall
<1>4. ASSUME NEW u \in Task, call'[u].op = "walk"
      PROVE  WalkClimbs(records', call'[u])
  <2>1. records' = records
    BY DEF storeVars
  <2>2. CASE u = t
    <3>1. c # Idle
      BY <1>1, <1>4, <2>2 DEF Idle
    <3> QED
      BY <1>1, <2>1, <2>2, <3>1
  <2>3. CASE u # t
    <3>1. call'[u] = call[u] /\ Walking(u)
      BY <1>1, <1>4, <2>3 DEF Walking
    <3> QED
      BY <2>1, <3>1 DEF ManagerInv, WalksClimb
  <2> QED
    BY <2>2, <2>3
<1>5. WalksClimb'
  BY <1>4 DEF WalksClimb, Walking
<1> QED
  BY <1>2, <1>3, <1>5 DEF ManagerInv, Exclusive, CascadeFrontier

LEMMA ManagerInvNext == ManagerInv /\ [MNext]_vars => ManagerInv'
<1> SUFFICES ASSUME ManagerInv, [MNext]_vars
             PROVE  ManagerInv'
  OBVIOUS
<1>0. CallTypeOK /\ StoreInv /\ TypeOK /\ records \in [DID -> Record \cup {NoRecord}]
  BY DEF ManagerInv, StoreInv, TypeOK
<1>1. ASSUME NEW t \in Task, NEW q \in Request, Delegate(t, q)
      PROVE  ManagerInv'
  <2>1. StoreInv'
    BY <1>0, <1>1, StoreInvNext DEF Delegate, Next
  <2>2. call' = call /\ records' = records
    BY <1>1 DEF Delegate, Validate
  <2>3. CallTypeOK'
    BY <1>0, <2>1, <2>2 DEF StoreInv, CallTypeOK
  <2>4. \A u \in Task : (Cascading(u)' <=> Cascading(u)) /\ (Walking(u)' <=> Walking(u))
    BY <2>2 DEF Cascading, Walking
  <2>5. Exclusive' /\ CascadeFrontier'
    BY <2>2, <2>4 DEF ManagerInv, Exclusive, CascadeFrontier
  <2>6. WalksClimb'
    BY <2>2, <2>4 DEF ManagerInv, WalksClimb
  <2> QED
    BY <2>1, <2>3, <2>5, <2>6 DEF ManagerInv
<1>2. ASSUME NEW t \in Task, DelegateInsert(t)
      PROVE  ManagerInv'
  <2>1. StoreInv'
    BY <1>0, <1>2, StoreInvNext DEF DelegateInsert, Next
  <2> QED
    BY <1>2, <2>1, UnlockedStep DEF DelegateInsert
<1>3. ASSUME NEW t \in Task, NEW d \in DID, RevokeAlone(t, d)
      PROVE  ManagerInv'
  <2>1. StoreInv'
    BY <1>0, <1>3, StoreInvNext DEF RevokeAlone, Next
  <2> QED
    BY <1>3, <2>1, UnlockedStep DEF RevokeAlone
<1>4. ASSUME NEW t \in Task, NEW d \in DID, CascadeStart(t, d)
      PROVE  ManagerInv'
  <2>1. StoreInv'
    BY <1>0, <1>4, StoreInvNext DEF CascadeStart, RevokeOne, Next
  <2>2. \A e \in {d} : Has(records', e) /\ records'[e].revoked
    BY <1>0, <1>4, RevokeAllFields DEF CascadeStart, Live
  <2>3. \A u \in Task : ~Cascading(u) /\ ~Walking(u)
    BY <1>4 DEF CascadeStart, CanWrite
  <2>4. /\ {d} \in SUBSET DID /\ {d} \subseteq {d}
        /\ LiveChildren(records', {d}) \subseteq LiveChildren(records', {d})
    OBVIOUS
  <2>5. call' = [call EXCEPT ![t] = Cascade({d}, {d})]
    BY <1>4 DEF CascadeStart
  <2> QED
    BY <2>1, <2>2, <2>3, <2>4, <2>5, CascadingStep
<1>5. ASSUME NEW t \in Task, CascadeStep(t)
      PROVE  ManagerInv'
  <2>1. Cascading(t) /\ call[t] \in CascadeCall
    BY <1>0, <1>5, CallTypes DEF CascadeStep
  <2> DEFINE Q == call[t].queue
             R == call[t].revoked
  <2>2. PICK p \in Q :
          LET children == LiveChildren(records, {p}) IN
            /\ records' = RevokeAll(records, children)
            /\ call' = [call EXCEPT ![t] = Cascade((Q \ {p}) \cup children,
                                                   R \cup children)]
    BY <1>5 DEF CascadeStep
  <2> DEFINE C == LiveChildren(records, {p})
  <2>3. call' = [call EXCEPT ![t] = Cascade((Q \ {p}) \cup C, R \cup C)]
    BY <2>2
  <2>4. /\ Q \subseteq R
        /\ \A d \in R : Has(records, d) /\ records[d].revoked
        /\ LiveChildren(records, R) \subseteq LiveChildren(records, Q)
    BY <2>1 DEF ManagerInv, CascadeFrontier
  <2>5. StoreInv'
    <3>1. records' \in [DID -> Record \cup {NoRecord}]
      BY <1>0, <2>1, <2>2, RevokeAllFields DEF CascadeCall
    <3> QED
      BY <1>0, <1>5, <3>1 DEF CascadeStep, StoreInv, TypeOK, PendingFresh
  <2>6. C \subseteq DID /\ R \subseteq DID /\ Q \subseteq DID
    BY <2>1 DEF LiveChildren, CascadeCall
  <2>7. \A d \in R \cup C : Has(records', d) /\ records'[d].revoked
    <3>1. \A d \in C : Has(records, d)
      BY DEF LiveChildren, Live
    <3>2. \A d \in R \cup C : Has(records, d) /\ (records[d].revoked \/ d \in C)
      BY <2>4, <3>1
    <3> QED
      BY <1>0, <2>2, <2>6, <3>2, RevokeAllFields
  <2>8. LiveChildren(records', R \cup C) \subseteq LiveChildren(records', (Q \ {p}) \cup C)
    <3> SUFFICES ASSUME NEW x \in LiveChildren(records', R \cup C)
                 PROVE  x \in LiveChildren(records', (Q \ {p}) \cup C)
      OBVIOUS
    <3>1. x \in LiveChildren(records, R \cup C) /\ x \notin C
      BY <1>0, <2>2, ChildrenLeft
    <3>2. x \in LiveChildren(records, (Q \ {p}) \cup C)
      BY <2>4, <3>1 DEF LiveChildren
    <3> QED
      BY <1>0, <2>2, <3>1, <3>2, ChildrenLeft
  <2>9. \A u \in Task \ {t} : ~Cascading(u) /\ ~Walking(u)
    BY <2>1 DEF ManagerInv, Exclusive
  <2>10. /\ (Q \ {p}) \cup C \in SUBSET DID
         /\ R \cup C \in SUBSET DID
         /\ (Q \ {p}) \cup C \subseteq R \cup C
    BY <2>4, <2>6
  <2> HIDE DEF Q, R, C
  <2> QED
    BY <2>3, <2>5, <2>7, <2>8, <2>9, <2>10, CascadingStep
<1>6. ASSUME NEW t \in Task, CascadeReturn(t)
      PROVE  ManagerInv'
  <2>1. \A u \in Task \ {t} : ~Cascading(u)
    BY <1>6 DEF CascadeReturn, ManagerInv, Exclusive
  <2> QED
    BY <1>6, <2>1, ReadingStep DEF CascadeReturn
<1>7. ASSUME NEW t \in Task, NEW d \in DID, WalkStart(t, d)
      PROVE  ManagerInv'
  <2> DEFINE c == Walk(d, d, {})
  <2>1. c \in WalkCall
    BY DEF WalkCall, Walk
  <2>2. WalkClimbs(records, c)
    BY DEF WalkClimbs, Climbs, Walk
  <2>3. \A u \in Task \ {t} : ~Cascading(u)
    BY <1>7 DEF WalkStart, CanRead
  <2>4. call' = [call EXCEPT ![t] = c] /\ UNCHANGED storeVars
    BY <1>7 DEF WalkStart
  <2> HIDE DEF c
  <2> QED
    BY <2>1, <2>2, <2>3, <2>4, ReadingStep
<1>8. ASSUME NEW t \in Task, WalkStep(t)
      PROVE  ManagerInv'
  <2>1. Walking(t) /\ call[t] \in WalkCall
    BY <1>0, <1>8, CallTypes DEF WalkStep
  <2> DEFINE cur == call[t].current
             c == Walk(call[t].did, records[cur].parent, call[t].links \cup {cur})
  <2>2. Live(records, cur) /\ cur \in DID /\ records[cur].parent \in DID
    BY <1>0, <1>8, <2>1 DEF WalkStep, WalkCall, Live, Has, Record
  <2>3. call' = [call EXCEPT ![t] = c]
    BY <1>8 DEF WalkStep
  <2>4. c \in WalkCall
    BY <2>1, <2>2 DEF WalkCall, Walk
  <2>5. WalkClimbs(records, c)
    <3>1. WalkClimbs(records, call[t])
      BY <2>1 DEF ManagerInv, WalksClimb
    <3>2. \A S \in SUBSET DID : Climbs(records, c.did, S) =>
            call[t].links \cup {cur} \subseteq S /\ records[cur].parent \in S
      BY <2>2, <3>1 DEF WalkClimbs, Climbs, Live, Walk
    <3> QED
      BY <2>2, <3>1, <3>2 DEF WalkClimbs, Walk
  <2>6. \A u \in Task \ {t} : ~Cascading(u)
    BY <2>1 DEF ManagerInv, Exclusive, Cascading, Walking
  <2>7. UNCHANGED storeVars
    BY <1>8 DEF WalkStep
  <2> HIDE DEF c
  <2> QED
    BY <2>3, <2>4, <2>5, <2>6, <2>7, ReadingStep
<1>9. ASSUME NEW t \in Task, WalkFail(t) \/ WalkReturn(t)
      PROVE  ManagerInv'
  <2>1. \A u \in Task \ {t} : ~Cascading(u)
    BY <1>9 DEF WalkFail, WalkReturn, ManagerInv, Exclusive, Cascading, Walking
  <2> QED
    BY <1>9, <2>1, ReadingStep DEF WalkFail, WalkReturn
<1>10. CASE UNCHANGED vars
  <2>1. UNCHANGED storeVars /\ call' = call
    BY <1>10 DEF vars, storeVars
  <2>2. StoreInv' /\ CallTypeOK'
    BY <1>0, <2>1 DEF StoreInv, TypeOK, PendingFresh, storeVars, CallTypeOK
  <2>3. Exclusive' /\ CascadeFrontier' /\ WalksClimb'
    BY <2>1 DEF ManagerInv, Exclusive, CascadeFrontier, WalksClimb, Cascading, Walking,
                storeVars
  <2> QED
    BY <2>2, <2>3 DEF ManagerInv
<1> QED
  BY <1>1, <1>2, <1>3, <1>4, <1>5, <1>6, <1>7, <1>8, <1>9, <1>10 DEF MNext

(* The loops and the lock keep the types of the calls' local variables. *)
THEOREM ManagerTypeCorrect == MSpec => []CallTypeOK
<1>1. MSpec => []ManagerInv
  BY ManagerInvInit, ManagerInvNext, PTL DEF MSpec
<1> QED
  BY <1>1, PTL DEF ManagerInv

(* The live children of what a cascade has revoked are children of what it *)
(* has still queued, in every behaviour.                                   *)
THEOREM FrontierIsQueued == MSpec => []CascadeFrontier
<1>1. MSpec => []ManagerInv
  BY ManagerInvInit, ManagerInvNext, PTL DEF MSpec
<1> QED
  BY <1>1, PTL DEF ManagerInv

(* A chain that verify_chain answers Ok for is whole and live when it does, *)
(* whatever delegations and revocations other calls ask for meanwhile.      *)
THEOREM VerifyIsSound == MSpec => VerifiedChainIsLive
<1>1. ASSUME ManagerInv, NEW t \in Task, WalkReturn(t)
      PROVE  /\ call[t].links = Chain(records, call[t].did)
             /\ \A d \in call[t].links : Live(records, d)
  <2> DEFINE w == call[t]
             seen == w.links \cup {w.current}
  <2>1. /\ w \in WalkCall /\ WalkClimbs(records, w)
        /\ ~Has(records, w.current)
    BY <1>1, CallTypes DEF WalkReturn, ManagerInv, WalksClimb
  <2>2. seen \in SUBSET DID
    BY <2>1 DEF WalkCall
  <2>3. \A d \in w.links : Live(records, d) /\ records[d].parent \in seen
    BY <2>1 DEF WalkClimbs
  <2>4. w.links \subseteq Chain(records, w.did)
    <3>1. \A S \in SUBSET DID : Climbs(records, w.did, S) => w.links \subseteq S
      BY <2>1 DEF WalkClimbs
    <3> QED
      BY <2>2, <2>3, <3>1 DEF Chain, Climbs, Live
  <2>5. Chain(records, w.did) \subseteq w.links
    <3>1. Climbs(records, w.did, seen)
      BY <2>1, <2>3 DEF Climbs, WalkClimbs
    <3>2. Chain(records, w.did) \subseteq seen
      BY <2>2, <3>1 DEF Chain, Climbs
    <3>3. \A x \in Chain(records, w.did) : Has(records, x)
      BY DEF Chain
    <3> QED
      BY <2>1, <3>2, <3>3
  <2> QED
    BY <2>3, <2>4, <2>5
<1>2. MSpec => []ManagerInv
  BY ManagerInvInit, ManagerInvNext, PTL DEF MSpec
<1>3. ManagerInv => \A t \in Task : WalkReturn(t) =>
        /\ call[t].links = Chain(records, call[t].did)
        /\ \A d \in call[t].links : Live(records, d)
  BY <1>1
<1> QED
  BY <1>2, <1>3, PTL DEF VerifiedChainIsLive

-----------------------------------------------------------------------------
(* The refinement. *)

(* What the store looks like from outside, as a function of both variables. *)
Result(recs, calls) ==
  [d \in DID |->
     IF \E t \in Task : calls[t].op = "cascade" /\ d \in LiveBelow(recs, calls[t].queue)
       THEN [recs[d] EXCEPT !.revoked = TRUE]
       ELSE recs[d]]

(* It is the map itself while no cascade runs... *)
LEMMA ResultQuiet ==
  ASSUME NEW recs \in [DID -> Record \cup {NoRecord}], NEW calls,
         \A t \in Task : calls[t].op # "cascade"
  PROVE  Result(recs, calls) = recs
BY DEF Result

(* ... and the map with all that is below the queue revoked while one does. *)
LEMMA ResultBusy ==
  ASSUME NEW recs \in [DID -> Record \cup {NoRecord}], NEW calls, NEW t \in Task,
         NEW queue, calls[t].op = "cascade", calls[t].queue = queue,
         \A u \in Task \ {t} : calls[u].op # "cascade"
  PROVE  Result(recs, calls) = RevokeAll(recs, LiveBelow(recs, queue))
<1> DEFINE B == LiveBelow(recs, queue)
<1>1. \A d \in B : Has(recs, d)
  BY BelowIsLive DEF Live
<1>2. \A d \in DID : (\E u \in Task : /\ calls[u].op = "cascade"
                                      /\ d \in LiveBelow(recs, calls[u].queue))
                       <=> d \in B /\ Has(recs, d)
  BY <1>1
<1> HIDE DEF B
<1> QED
  BY <1>2 DEF Result, RevokeAll, B

(* The mapping, before and after a step. *)
LEMMA SettledIsResult ==
  /\ Settled = Result(records, call)
  /\ Settled' = Result(records', call')
BY DEF Settled, Result, Cascading

(* Store is DelegationStore with records replaced: its state functions are *)
(* the operators of this module, applied to Settled.                       *)
LEMMA StoreOperators ==
  /\ \A recs, S : Store!RevokeAll(recs, S) = RevokeAll(recs, S)
  /\ \A recs, d : Store!Live(recs, d) <=> Live(recs, d)
  /\ \A recs, Q : Store!LiveBelow(recs, Q) = LiveBelow(recs, Q)
BY DEF Store!RevokeAll, RevokeAll, Store!Live, Live, Store!Has, Has, Store!LiveBelow,
       LiveBelow, Store!BelowClosed, BelowClosed, Store!LiveChildren, LiveChildren

(* A step that finds no cascade and starts or ends none, and that the store *)
(* can take, is a step of the store as seen from outside.                   *)
LEMMA SameStep ==
  ASSUME Settled = records, Settled' = records', [Next]_storeVars
  PROVE  [Store!Next]_(Store!storeVars)
<1>1. ASSUME NEW t \in Task, NEW q \in Request, Validate(t, q)
      PROVE  Store!Validate(t, q)
  BY <1>1 DEF Validate, Store!Validate, Admissible, Store!Admissible, NewRecord,
              Store!NewRecord, Has, Store!Has, NewDepth, Store!NewDepth, ParentDepth,
              Store!ParentDepth, ParentCaps, Store!ParentCaps, IsSubset, Store!IsSubset
<1>2. ASSUME NEW t \in Task, Insert(t)
      PROVE  Store!Insert(t)
  BY <1>2 DEF Insert, Store!Insert
<1>3. ASSUME NEW d \in DID, RevokeOne(d)
      PROVE  Store!RevokeOne(d)
  BY <1>3, StoreOperators DEF RevokeOne, Store!RevokeOne
<1>4. ASSUME NEW d \in DID, RevokeCascade(d)
      PROVE  Store!RevokeCascade(d)
  BY <1>4, StoreOperators DEF RevokeCascade, Store!RevokeCascade
<1>5. CASE UNCHANGED storeVars
  BY <1>5 DEF storeVars, Store!storeVars
<1> QED
  BY <1>1, <1>2, <1>3, <1>4, <1>5 DEF Next, Store!Next

LEMMA RefinesInit == MInit => Store!Init
<1> SUFFICES ASSUME MInit
             PROVE  Store!Init
  OBVIOUS
<1>1. records \in [DID -> Record \cup {NoRecord}]
  BY DEF MInit, Init
<1>2. \A t \in Task : call[t].op # "cascade"
  BY DEF MInit, Idle
<1>3. Settled = records
  BY <1>1, <1>2, ResultQuiet, SettledIsResult
<1> QED
  BY <1>3 DEF MInit, Init, Store!Init

LEMMA RefinesNext ==
  ManagerInv /\ ManagerInv' /\ [MNext]_vars => [Store!Next]_(Store!storeVars)
<1> SUFFICES ASSUME ManagerInv, ManagerInv', [MNext]_vars
             PROVE  [Store!Next]_(Store!storeVars)
  OBVIOUS
<1>0. /\ records \in [DID -> Record \cup {NoRecord}]
      /\ records' \in [DID -> Record \cup {NoRecord}]
  BY DEF ManagerInv, StoreInv, TypeOK
<1>1. ASSUME \A u \in Task : ~Cascading(u), \A u \in Task : call'[u].op # "cascade",
             [Next]_storeVars
      PROVE  [Store!Next]_(Store!storeVars)
  <2>1. Settled = records /\ Settled' = records'
    BY <1>0, <1>1, ResultQuiet, SettledIsResult DEF Cascading
  <2> QED
    BY <1>1, <2>1, SameStep
<1>2. ASSUME NEW t \in Task, NEW q \in Request, Delegate(t, q)
      PROVE  [Store!Next]_(Store!storeVars)
  BY <1>1, <1>2 DEF Delegate, CanRead, Cascading, Next
<1>3. ASSUME NEW t \in Task, DelegateInsert(t)
      PROVE  [Store!Next]_(Store!storeVars)
  BY <1>1, <1>3 DEF DelegateInsert, CanWrite, Cascading, Next
<1>4. ASSUME NEW t \in Task, NEW d \in DID, RevokeAlone(t, d)
      PROVE  [Store!Next]_(Store!storeVars)
  BY <1>1, <1>4 DEF RevokeAlone, CanWrite, Cascading, Next
<1>5. ASSUME NEW t \in Task, NEW d \in DID, CascadeStart(t, d)
      PROVE  Store!RevokeCascade(d)
  <2>1. Settled = records
    BY <1>0, <1>5, ResultQuiet, SettledIsResult DEF CascadeStart, CanWrite, Cascading
  <2>2. /\ call'[t] = Cascade({d}, {d})
        /\ \A u \in Task \ {t} : call'[u] = call[u]
    BY <1>5 DEF CascadeStart, ManagerInv, CallTypeOK
  <2>3. /\ call'[t].op = "cascade" /\ call'[t].queue = {d}
        /\ \A u \in Task \ {t} : call'[u].op # "cascade"
    BY <1>5, <2>2 DEF CascadeStart, CanWrite, Cascading, Cascade
  <2>4. records' = RevokeAll(records, {d})
    BY <1>5 DEF CascadeStart
  <2> DEFINE S == {d}
  <2>5. Settled' = RevokeAll(records', LiveBelow(records', S))
    <3>1. call'[t].queue = S
      BY <2>3
    <3> HIDE DEF S
    <3> QED
      BY <1>0, <2>3, <3>1, ResultBusy, SettledIsResult
  <2>6. Settled' = RevokeAll(records, S \cup LiveBelow(records', S))
    <3>1. records' = RevokeAll(records, S)
      BY <2>4
    <3> HIDE DEF S
    <3> QED
      BY <1>0, <2>5, <3>1, RevokeTwice
  <2>7. Settled' = RevokeAll(records, {d} \cup LiveBelow(records, {d}))
    BY <1>0, <2>4, <2>6, BelowStart
  <2> QED
    BY <1>5, <2>1, <2>7, StoreOperators DEF CascadeStart, Store!RevokeCascade
<1>6. ASSUME NEW t \in Task, CascadeStep(t)
      PROVE  UNCHANGED Store!storeVars
  <2> DEFINE Q == call[t].queue
  <2>1. PICK p \in Q :
          LET children == LiveChildren(records, {p}) IN
            /\ records' = RevokeAll(records, children)
            /\ call' = [call EXCEPT ![t] = Cascade((Q \ {p}) \cup children,
                                                   call[t].revoked \cup children)]
    BY <1>6 DEF CascadeStep
  <2> DEFINE C == LiveChildren(records, {p})
             rest == (Q \ {p}) \cup C
  <2>2. call[t].op = "cascade" /\ Q \in SUBSET DID
    BY <1>6, CallTypes DEF CascadeStep, Cascading, ManagerInv, CascadeCall
  <2>3. \A u \in Task \ {t} : call[u].op # "cascade"
    BY <1>6 DEF CascadeStep, ManagerInv, Exclusive, Cascading
  <2>4. /\ call'[t].op = "cascade" /\ call'[t].queue = rest
        /\ \A u \in Task \ {t} : call'[u].op # "cascade"
    BY <2>1, <2>3 DEF ManagerInv, CallTypeOK, Cascade
  <2>5. Settled = RevokeAll(records, LiveBelow(records, Q))
    BY <1>0, <2>2, <2>3, ResultBusy, SettledIsResult
  <2>6. Settled' = RevokeAll(records', LiveBelow(records', rest))
    <3> HIDE DEF rest
    <3> QED
      BY <1>0, <2>4, ResultBusy, SettledIsResult
  <2>7. LiveBelow(records, Q) = C \cup LiveBelow(RevokeAll(records, C), rest)
    <3>1. p \in Q /\ C = LiveChildren(records, {p})
      OBVIOUS
    <3> HIDE DEF Q, C
    <3> QED
      BY <1>0, <2>2, <3>1, BelowStep
  <2>8. Settled' = RevokeAll(records, C \cup LiveBelow(records', rest))
    <3> HIDE DEF rest
    <3>1. records' = RevokeAll(records, C)
      BY <2>1
    <3> HIDE DEF C
    <3> QED
      BY <1>0, <2>6, <3>1, RevokeTwice
  <2>9. Settled' = Settled
    BY <2>1, <2>5, <2>7, <2>8
  <2> QED
    BY <1>6, <2>9 DEF CascadeStep, Store!storeVars
<1>7. ASSUME NEW t \in Task, CascadeReturn(t)
      PROVE  UNCHANGED Store!storeVars
  <2>1. /\ call[t].op = "cascade" /\ call[t].queue = {}
        /\ \A u \in Task \ {t} : call[u].op # "cascade"
    BY <1>7 DEF CascadeReturn, ManagerInv, Exclusive, Cascading
  <2>2. Settled = RevokeAll(records, LiveBelow(records, {}))
    <3> DEFINE S == {}
    <3>1. call[t].queue = S
      BY <2>1
    <3> HIDE DEF S
    <3>2. Settled = RevokeAll(records, LiveBelow(records, S))
      BY <1>0, <2>1, <3>1, ResultBusy, SettledIsResult
    <3> QED
      BY <3>2 DEF S
  <2>3. Settled = records
    BY <1>0, <2>2, NothingBelowNothing, RevokeNone
  <2>4. \A u \in Task : call'[u].op # "cascade"
    BY <1>7, <2>1 DEF CascadeReturn, ManagerInv, CallTypeOK, Idle
  <2>5. Settled' = records'
    BY <1>0, <2>4, ResultQuiet, SettledIsResult
  <2> QED
    BY <1>7, <2>3, <2>5 DEF CascadeReturn, storeVars, Store!storeVars
<1>8. ASSUME NEW t \in Task,
             \/ \E d \in DID : WalkStart(t, d)
             \/ WalkStep(t) \/ WalkFail(t) \/ WalkReturn(t)
      PROVE  [Store!Next]_(Store!storeVars)
  <2>1. \A u \in Task : ~Cascading(u)
    BY <1>8 DEF WalkStart, WalkStep, WalkFail, WalkReturn, CanRead, ManagerInv,
                Exclusive, Cascading, Walking
  <2>2. UNCHANGED storeVars
    BY <1>8 DEF WalkStart, WalkStep, WalkFail, WalkReturn
  <2>3. \A u \in Task \ {t} : call'[u] = call[u]
    BY <1>8 DEF WalkStart, WalkStep, WalkFail, WalkReturn, ManagerInv, CallTypeOK
  <2>4. call'[t].op # "cascade"
    BY <1>8 DEF WalkStart, WalkStep, WalkFail, WalkReturn, ManagerInv, CallTypeOK, Walk,
                Idle
  <2> QED
    BY <1>1, <2>1, <2>2, <2>3, <2>4 DEF Cascading
<1>9. CASE UNCHANGED vars
  <2>1. records' = records /\ pending' = pending /\ call' = call
    BY <1>9 DEF vars
  <2>2. Settled' = Settled
    BY <2>1, SettledIsResult
  <2> QED
    BY <2>1, <2>2 DEF Store!storeVars
<1> QED
  BY <1>2, <1>3, <1>4, <1>5, <1>6, <1>7, <1>8, <1>9 DEF MNext, Store!Next

(* The locked loops implement the atomic store: whatever the interleaving, a *)
(* cascade takes effect as one step that revokes its target and all the live *)
(* delegations below it.                                                     *)
THEOREM ManagerImplementsStore == MSpec => ImplementsStore
<1>1. MSpec => []ManagerInv
  BY ManagerInvInit, ManagerInvNext, PTL DEF MSpec
<1> QED
  BY <1>1, RefinesInit, RefinesNext, PTL DEF MSpec, ImplementsStore, Store!Spec

-----------------------------------------------------------------------------
(* The agent manager. *)

AgentTypeOK ==
  /\ TypeOK
  /\ agents \in [DID -> LifecycleState \cup {Absent}]
  /\ decom \in [Task -> DecomCall \cup {NoCall}]

Busy(t) == decom[t] # NoCall

(* A task is in one call at a time. *)
OneCall == \A t \in Task : pending[t] # NoRecord => ~Busy(t)

(* A DID that a call has come to cannot be drawn by `create` any more: its *)
(* agent is decommissioned, or a delegation to it is on record.            *)
NamedAlready ==
  \A t \in Task : Busy(t) =>
    /\ \A d \in decom[t].children : Has(records, d)
    /\ \A d \in decom[t].visited : Has(records, d) \/ agents[d] = "decommissioned"

(* The walk of a cascade: the live children of the DIDs it is done with are *)
(* visited or about to be, and it has come to live delegations below its    *)
(* target only.                                                             *)
Frontier(work) ==
  /\ LiveChildren(records, work.visited \ work.queue) \subseteq work.visited \cup work.children
  /\ work.visited \ {work.target} \subseteq LiveBelow(records, {work.target})
  /\ work.children \subseteq LiveBelow(records, {work.target})

QuietFrontier ==
  \A t \in Task : Busy(t) =>
    LET work == decom[t] IN
      /\ work.target \in work.visited
      /\ work.queue \subseteq work.visited
      /\ work.decommissioned \subseteq work.visited
      /\ work.cascade /\ work.quiet => Frontier(work)

AgentInv ==
  /\ StoreInv /\ AgentTypeOK /\ OneCall
  /\ NamedAlready /\ ReportedOnce /\ QuietFrontier

-----------------------------------------------------------------------------
(* Lemmas on the steps. *)

LEMMA AgentInvInit == AgentInit => AgentInv
BY StoreInvInit DEF AgentInit, AgentInv, AgentTypeOK, OneCall, NamedAlready, ReportedOnce,
                    QuietFrontier, Busy, StoreInv

(* What AgentManager does to the store, DelegationStore allows. *)
LEMMA AgentStepsOfStore == AgentTypeOK /\ [AgentNext]_agentVars => [Next]_storeVars
<1> SUFFICES ASSUME AgentTypeOK, [AgentNext]_agentVars
             PROVE  [Next]_storeVars
  OBVIOUS
<1>1. ASSUME NEW t \in Task, NEW q \in Request, StartDelegate(t, q)
      PROVE  Next
  BY <1>1 DEF StartDelegate, Next
<1>2. ASSUME NEW t \in Task, EndDelegate(t)
      PROVE  Next
  BY <1>2 DEF EndDelegate, Next
<1>3. ASSUME NEW t \in Task, NEW d \in DID, RevokeCall(t, d)
      PROVE  Next
  BY <1>3 DEF RevokeCall, Next
<1>4. ASSUME NEW t \in Task, Revoke(t)
      PROVE  [Next]_storeVars
  <2>1. decom[t].target \in DID
    BY <1>4 DEF Revoke, Scanned, AgentTypeOK, DecomCall
  <2> QED
    BY <1>4, <2>1 DEF Revoke, Next
<1>5. CASE UNCHANGED storeVars
  BY <1>5
<1> QED
  BY <1>1, <1>2, <1>3, <1>4, <1>5
  DEF AgentNext, agentVars, storeVars, Create, Suspend, Resume, Deactivate, Transition,
      DecommissionStart, Scan, Visit

(* A record is never removed. *)
LEMMA RecordsStay ==
  ASSUME StoreInv, [Next]_storeVars, NEW d \in DID, Has(records, d)
  PROVE  Has(records', d)
<1>1. ASSUME NEW t \in Task, Insert(t)
      PROVE  Has(records', d)
  BY <1>1 DEF Insert, Has, StoreInv, TypeOK
<1>2. ASSUME NEW e \in DID, RevokeOne(e) \/ RevokeCascade(e)
      PROVE  Has(records', d)
  BY <1>2, RevokeAllFields DEF RevokeOne, RevokeCascade, StoreInv, TypeOK
<1> QED
  BY <1>1, <1>2 DEF Next, Validate, storeVars, Has

(* Decommissioning an agent keeps the type, and takes no agent back. *)
LEMMA DecommissionedType ==
  ASSUME AgentTypeOK, NEW c \in DID
  PROVE  /\ Decommissioned(c) \in [DID -> LifecycleState \cup {Absent}]
         /\ Decommissioned(c)[c] \in {Absent, "decommissioned"}
         /\ \A d \in Reported(c) : Decommissioned(c)[d] = "decommissioned"
         /\ \A d \in DID : agents[d] = "decommissioned"
                             => Decommissioned(c)[d] = "decommissioned" /\ d \notin Reported(c)
         /\ \A d \in DID : agents[d] = Absent => Decommissioned(c)[d] = Absent
         /\ Reported(c) \subseteq {c}
BY AbsentAssumption DEF AgentTypeOK, Decommissioned, ToDecommission, Reported, LifecycleState

(* A step that changes the store and no agent keeps the invariant if what is *)
(* left of each call is as it was, and quiet only where nothing changed.     *)
LEMMA StoreStep ==
  ASSUME AgentInv, [Next]_storeVars, UNCHANGED agents,
         decom' \in [Task -> DecomCall \cup {NoCall}],
         \A u \in Task : Busy(u)' =>
           /\ Busy(u)
           /\ pending'[u] = NoRecord
           /\ decom'[u].target = decom[u].target
           /\ decom'[u].cascade = decom[u].cascade
           /\ decom'[u].queue = decom[u].queue
           /\ decom'[u].children = decom[u].children
           /\ decom'[u].visited = decom[u].visited
           /\ decom'[u].decommissioned = decom[u].decommissioned
           /\ decom'[u].quiet => decom[u].quiet /\ records' = records
  PROVE  AgentInv'
<1>1. StoreInv' /\ AgentTypeOK'
  BY StoreInvNext DEF AgentInv, AgentTypeOK, StoreInv
<1>2. OneCall'
  BY DEF OneCall, Busy
<1>3. NamedAlready'
  <2> SUFFICES ASSUME NEW u \in Task, Busy(u)'
               PROVE  /\ \A d \in decom'[u].children : Has(records', d)
                      /\ \A d \in decom'[u].visited :
                           Has(records', d) \/ agents'[d] = "decommissioned"
    BY DEF NamedAlready
  <2>1. decom[u] \in DecomCall
    BY DEF AgentInv, AgentTypeOK, Busy
  <2>2. \A d \in DID : Has(records, d) => Has(records', d)
    BY RecordsStay DEF AgentInv
  <2> QED
    BY <2>1, <2>2 DEF AgentInv, NamedAlready, DecomCall
<1>4. ReportedOnce'
  BY DEF AgentInv, ReportedOnce, Busy
<1>5. QuietFrontier'
  BY DEF AgentInv, QuietFrontier, Frontier
<1> QED
  BY <1>1, <1>2, <1>3, <1>4, <1>5 DEF AgentInv

(* The calls that Disturb leaves. *)
LEMMA Disturbed ==
  ASSUME AgentTypeOK, NEW t \in Task, ~Busy(t)
  PROVE  /\ Disturb(t) \in [Task -> DecomCall \cup {NoCall}]
         /\ Disturb(t)[t] = NoCall
         /\ \A u \in Task : Disturb(t)[u] # NoCall =>
              /\ u # t /\ Busy(u)
              /\ Disturb(t)[u].target = decom[u].target
              /\ Disturb(t)[u].cascade = decom[u].cascade
              /\ Disturb(t)[u].queue = decom[u].queue
              /\ Disturb(t)[u].children = decom[u].children
              /\ Disturb(t)[u].visited = decom[u].visited
              /\ Disturb(t)[u].decommissioned = decom[u].decommissioned
              /\ Disturb(t)[u].quiet = FALSE
<1>1. \A u \in Task : Busy(u) => decom[u] \in DecomCall
  BY DEF AgentTypeOK, Busy
<1>2. \A c \in DecomCall : [c EXCEPT !.quiet = FALSE] \in DecomCall
  BY DEF DecomCall
<1> QED
  BY <1>1, <1>2, NoCallAssumption DEF Disturb, Busy, DecomCall

(* An agent that no call has come to may change in any way that is not     *)
(* back from its end.                                                      *)
LEMMA AgentsStep ==
  ASSUME AgentInv, UNCHANGED <<storeVars, decom>>,
         agents' \in [DID -> LifecycleState \cup {Absent}],
         NEW d \in DID, \A x \in DID \ {d} : agents'[x] = agents[x],
         agents[d] # "decommissioned",
         \A t \in Task : Busy(t) => d \notin decom[t].visited
  PROVE  AgentInv'
<1>1. StoreInv' /\ AgentTypeOK'
  BY DEF AgentInv, AgentTypeOK, StoreInv, TypeOK, PendingFresh, storeVars
<1>2. OneCall'
  BY DEF AgentInv, OneCall, Busy, storeVars
<1>3. \A t \in Task : Busy(t) => decom[t] \in DecomCall
  BY DEF AgentInv, AgentTypeOK, Busy
<1>4. NamedAlready' /\ ReportedOnce'
  <2>1. ASSUME NEW t \in Task, Busy(t), NEW x \in decom[t].visited \cup decom[t].decommissioned
        PROVE  agents'[x] = agents[x]
    BY <1>3, <2>1 DEF AgentInv, ReportedOnce, DecomCall, Busy
  <2> QED
    BY <2>1 DEF AgentInv, NamedAlready, ReportedOnce, Busy, storeVars
<1>5. QuietFrontier'
  BY DEF AgentInv, QuietFrontier, Frontier, Busy, storeVars
<1> QED
  BY <1>1, <1>2, <1>4, <1>5 DEF AgentInv

LEMMA CreateStep ==
  ASSUME AgentInv, NEW d \in DID, Create(d)
  PROVE  AgentInv'
<1>1. agents' \in [DID -> LifecycleState \cup {Absent}]
  BY DEF Create, AgentInv, AgentTypeOK, LifecycleState
<1>2. agents[d] # "decommissioned" /\ \A x \in DID \ {d} : agents'[x] = agents[x]
  BY AbsentAssumption DEF Create, Unused, AgentInv, AgentTypeOK, LifecycleState
<1>3. \A t \in Task : Busy(t) => d \notin decom[t].visited
  BY <1>2 DEF Create, Unused, AgentInv, NamedAlready
<1> QED
  BY <1>1, <1>2, <1>3, AgentsStep DEF Create

LEMMA TransitionStep ==
  ASSUME AgentInv, NEW t \in Task, NEW d \in DID,
         NEW target \in {"suspended", "active", "deactivated"}, Transition(t, d, target)
  PROVE  AgentInv'
<1>1. agents' \in [DID -> LifecycleState \cup {Absent}]
  BY DEF Transition, AgentInv, AgentTypeOK, LifecycleState
<1>2. agents[d] \notin {Absent, "decommissioned"}
  BY DEF Transition, CanTransition
<1>3. \A x \in DID \ {d} : agents'[x] = agents[x]
  BY DEF Transition, AgentInv, AgentTypeOK
<1>4. \A u \in Task : Busy(u) => d \notin decom[u].visited
  BY <1>2 DEF AgentInv, ReportedOnce, Busy
<1> QED
  BY <1>1, <1>2, <1>3, <1>4, AgentsStep DEF Transition

(* The three calls on the shared delegations, and the end of a decommission. *)
LEMMA DelegationsStep ==
  ASSUME AgentInv, [AgentNext]_agentVars, NEW t \in Task,
         \/ \E q \in Request : StartDelegate(t, q)
         \/ EndDelegate(t)
         \/ \E d \in DID : RevokeCall(t, d)
         \/ Revoke(t)
  PROVE  AgentInv'
<1> USE DEF AgentInv
<1>1. [Next]_storeVars /\ UNCHANGED agents
  BY AgentStepsOfStore DEF StartDelegate, EndDelegate, RevokeCall, Revoke
<1>2. CASE \E q \in Request : StartDelegate(t, q)
  <2>1. /\ decom' = decom /\ records' = records /\ ~Busy(t)
        /\ \A u \in Task \ {t} : pending'[u] = pending[u]
    BY <1>2 DEF StartDelegate, Validate, FreeTask, Busy, StoreInv, TypeOK
  <2>2. \A u \in Task : Busy(u)' => Busy(u) /\ pending'[u] = NoRecord
    BY <2>1 DEF Busy, OneCall
  <2> QED
    BY <1>1, <2>1, <2>2, StoreStep DEF AgentTypeOK
<1>3. CASE EndDelegate(t) \/ \E d \in DID : RevokeCall(t, d)
  <2>1. decom' = Disturb(t) /\ ~Busy(t)
    BY <1>3 DEF EndDelegate, Insert, RevokeCall, FreeTask, OneCall, Busy
  <2>2. \A u \in Task \ {t} : pending'[u] = pending[u]
    BY <1>3 DEF EndDelegate, Insert, RevokeCall, RevokeOne, RevokeCascade, StoreInv, TypeOK
  <2>3. \A u \in Task : Busy(u)' => pending'[u] = NoRecord
    BY <2>1, <2>2, Disturbed DEF Busy, OneCall
  <2> QED
    BY <1>1, <2>1, <2>3, Disturbed, StoreStep DEF Busy
<1>4. CASE Revoke(t)
  <2>1. pending' = pending
    BY <1>4 DEF Revoke, RevokeOne, RevokeCascade, storeVars
  <2>2. \A u \in Task : Busy(u) => decom[u] \in DecomCall
    BY DEF AgentTypeOK, Busy
  <2>3. \A c \in DecomCall : [c EXCEPT !.quiet = FALSE] \in DecomCall
    BY DEF DecomCall
  <2>4. decom' \in [Task -> DecomCall \cup {NoCall}] /\ ~Busy(t)'
    BY <1>4, <2>2, <2>3 DEF Revoke, Disturb, AgentTypeOK, Busy
  <2>5. ASSUME NEW u \in Task, Busy(u)'
        PROVE  /\ Busy(u) /\ u # t
               /\ \/ decom'[u] = decom[u] /\ records' = records
                  \/ decom'[u] = [decom[u] EXCEPT !.quiet = FALSE]
    BY <1>4, <2>4, <2>5 DEF Revoke, Disturb, Busy, AgentTypeOK, storeVars
  <2>6. ASSUME NEW u \in Task, Busy(u)'
        PROVE  /\ Busy(u)
               /\ pending'[u] = NoRecord
               /\ decom'[u].target = decom[u].target
               /\ decom'[u].cascade = decom[u].cascade
               /\ decom'[u].queue = decom[u].queue
               /\ decom'[u].children = decom[u].children
               /\ decom'[u].visited = decom[u].visited
               /\ decom'[u].decommissioned = decom[u].decommissioned
               /\ decom'[u].quiet => decom[u].quiet /\ records' = records
    BY <2>1, <2>2, <2>5, <2>6 DEF OneCall, DecomCall
  <2> QED
    BY <1>1, <2>4, <2>6, StoreStep
<1> QED
  BY <1>2, <1>3, <1>4

(* The steps of a decommission; `call` is what is left of it after them. *)

LEMMA StartStep ==
  ASSUME AgentInv, NEW t \in Task, NEW d \in DID, NEW cascade \in BOOLEAN,
         DecommissionStart(t, d, cascade)
  PROVE  AgentInv'
<1> USE DEF AgentInv
<1> DEFINE work == [target |-> d, cascade |-> cascade, queue |-> IF cascade THEN {d} ELSE {},
                    children |-> {}, visited |-> {d}, decommissioned |-> Reported(d),
                    quiet |-> TRUE]
<1>1. /\ decom' = [decom EXCEPT ![t] = work] /\ ~Busy(t) /\ pending[t] = NoRecord
      /\ agents[d] # Absent /\ agents' = Decommissioned(d)
      /\ records' = records /\ pending' = pending
  BY DEF DecommissionStart, FreeTask, Busy, storeVars
<1>2. work \in DecomCall
  BY DecommissionedType DEF DecomCall, Reported
<1> HIDE DEF work
<1>3. decom'[t] = work /\ \A u \in Task \ {t} : decom'[u] = decom[u]
  BY <1>1 DEF AgentTypeOK
<1>4. agents'[d] = "decommissioned"
  BY <1>1 DEF Decommissioned, ToDecommission, AgentTypeOK
<1>5. StoreInv' /\ AgentTypeOK'
  BY <1>1, <1>2, DecommissionedType
  DEF AgentTypeOK, StoreInv, TypeOK, PendingFresh
<1>6. OneCall'
  BY <1>1, <1>3 DEF OneCall, Busy
<1>7. \A u \in Task \ {t} : Busy(u) => decom[u] \in DecomCall
  BY DEF AgentTypeOK, Busy
<1>8. NamedAlready'
  BY <1>1, <1>3, <1>4, <1>7, DecommissionedType DEF NamedAlready, Busy, work, DecomCall
<1>9. ReportedOnce'
  BY <1>1, <1>3, <1>4, <1>7, DecommissionedType DEF ReportedOnce, Busy, work, DecomCall
<1>10. QuietFrontier'
  <2>1. LiveChildren(records, {}) = {}
    BY DEF LiveChildren
  <2>2. Reported(d) \subseteq {d}
    BY DEF Reported
  <2>3. work.cascade => Frontier(work)
    BY <2>1 DEF Frontier, work
  <2>4. \A u \in Task : decom'[u] # NoCall /\ decom'[u].cascade /\ decom'[u].quiet
          => Frontier(decom'[u])
    BY <1>3, <2>3 DEF QuietFrontier, Busy
  <2>5. \A u \in Task : Frontier(decom'[u]) => Frontier(decom[u])'
    BY <1>1 DEF Frontier
  <2> QED
    BY <1>3, <2>2, <2>4, <2>5 DEF QuietFrontier, Busy, work
<1> QED
  BY <1>5, <1>6, <1>8, <1>9, <1>10

LEMMA ScanStep ==
  ASSUME AgentInv, NEW t \in Task, Scan(t)
  PROVE  AgentInv'
<1> USE DEF AgentInv
<1>1. PICK p \in decom[t].queue :
        decom' = [decom EXCEPT ![t].queue = @ \ {p},
                               ![t].children = LiveChildren(records, {p})]
  BY DEF Scan
<1> DEFINE old == decom[t]
           work == [old EXCEPT !.queue = @ \ {p}, !.children = LiveChildren(records, {p})]
<1>2. /\ Busy(t) /\ old.children = {} /\ old \in DecomCall
      /\ UNCHANGED <<records, pending, agents>>
  BY DEF Scan, Busy, AgentTypeOK, storeVars
<1>3. decom'[t] = work /\ \A u \in Task \ {t} : decom'[u] = decom[u]
  BY <1>1 DEF AgentTypeOK
<1>4. /\ work \in DecomCall
      /\ work.queue = old.queue \ {p} /\ work.children = LiveChildren(records, {p})
      /\ work.target = old.target /\ work.cascade = old.cascade /\ work.visited = old.visited
      /\ work.decommissioned = old.decommissioned /\ work.quiet = old.quiet
  BY <1>2 DEF DecomCall, LiveChildren
<1> HIDE DEF work
<1>5. StoreInv' /\ AgentTypeOK'
  BY <1>1, <1>2, <1>3, <1>4 DEF AgentTypeOK, StoreInv, TypeOK, PendingFresh
<1>6. OneCall'
  BY <1>2, <1>3 DEF OneCall, Busy
<1>7. NamedAlready' /\ ReportedOnce'
  <2>1. \A c \in work.children : Has(records, c)
    BY <1>4 DEF LiveChildren, Live
  <2>2. NamedAlready'
    BY <1>2, <1>3, <1>4, <2>1 DEF NamedAlready, Busy, Has
  <2>3. ReportedOnce'
    BY <1>2, <1>3, <1>4 DEF ReportedOnce, Busy
  <2> QED
    BY <2>2, <2>3
<1>8. QuietFrontier'
  <2>1. ASSUME work.cascade, work.quiet
        PROVE  Frontier(work)
    <3>1. Frontier(old) /\ p \in old.visited
      BY <1>2, <1>4, <2>1 DEF QuietFrontier
    <3>2. LiveChildren(records, work.visited \ work.queue)
            \subseteq LiveChildren(records, old.visited \ old.queue) \cup work.children
      BY <1>4 DEF LiveChildren
    <3>3. work.children \subseteq LiveBelow(records, {work.target})
      <4>1. {p} \subseteq {work.target} \cup LiveBelow(records, {work.target})
        BY <1>4, <3>1 DEF Frontier
      <4>2. BelowClosed(records, {work.target}, LiveBelow(records, {work.target}))
        BY BelowIsClosed
      <4> QED
        BY <1>4, <4>1, <4>2 DEF BelowClosed, LiveChildren
    <3> QED
      BY <1>2, <1>4, <3>1, <3>2, <3>3 DEF Frontier
  <2>2. \A u \in Task : Frontier(decom'[u]) => Frontier(decom[u])'
    BY <1>2 DEF Frontier
  <2> QED
    BY <1>2, <1>3, <1>4, <2>1, <2>2 DEF QuietFrontier, Busy
<1> QED
  BY <1>5, <1>6, <1>7, <1>8

(* What is left of a call when a child is met for the first time. *)
LEMMA MetFields ==
  ASSUME NEW old \in DecomCall, NEW c \in DID, NEW new \in SUBSET DID
  PROVE  LET met == [old EXCEPT !.children = @ \ {c}, !.queue = @ \cup {c},
                                !.visited = @ \cup {c}, !.decommissioned = @ \cup new]
         IN  /\ met.target = old.target /\ met.cascade = old.cascade
             /\ met.quiet = old.quiet
             /\ met.children = old.children \ {c} /\ met.visited = old.visited \cup {c}
             /\ met.queue = old.queue \cup {c}
             /\ met.decommissioned = old.decommissioned \cup new
             /\ met \in DecomCall
BY DEF DecomCall

LEMMA VisitStep ==
  ASSUME AgentInv, NEW t \in Task, Visit(t)
  PROVE  AgentInv'
<1> USE DEF AgentInv
<1> DEFINE old == decom[t]
           Seen(c) == [old EXCEPT !.children = @ \ {c}]
           Met(c) == [old EXCEPT !.children = @ \ {c}, !.queue = @ \cup {c},
                                 !.visited = @ \cup {c},
                                 !.decommissioned = @ \cup Reported(c)]
<1>1. PICK c \in old.children :
        \/ /\ c \in old.visited /\ agents' = agents
           /\ decom' = [decom EXCEPT ![t] = Seen(c)]
        \/ /\ c \notin old.visited /\ agents' = Decommissioned(c)
           /\ decom' = [decom EXCEPT ![t] = Met(c)]
  BY DEF Visit
<1>2. /\ Busy(t) /\ old \in DecomCall /\ c \in DID
      /\ UNCHANGED <<records, pending>>
  BY DEF Visit, Busy, AgentTypeOK, storeVars, DecomCall
<1> DEFINE work == decom'[t]
<1>3. \A u \in Task \ {t} : decom'[u] = decom[u]
  BY <1>1 DEF AgentTypeOK
<1>4. /\ work \in DecomCall
      /\ work.target = old.target /\ work.cascade = old.cascade /\ work.quiet = old.quiet
      /\ work.children = old.children \ {c} /\ work.visited = old.visited \cup {c}
      /\ \/ /\ c \in old.visited /\ work.queue = old.queue
            /\ work.decommissioned = old.decommissioned
         \/ /\ c \notin old.visited /\ work.queue = old.queue \cup {c}
            /\ work.decommissioned = old.decommissioned \cup Reported(c)
  <2>1. Reported(c) \subseteq DID
    BY <1>2 DEF Reported
  <2>2. CASE c \in old.visited
    <3>1. work = Seen(c)
      BY <1>1, <2>2 DEF AgentTypeOK
    <3> QED
      BY <1>2, <2>2, <3>1 DEF DecomCall
  <2>3. CASE c \notin old.visited
    <3>1. work = Met(c)
      BY <1>1, <2>3 DEF AgentTypeOK
    <3>2. /\ Met(c).target = old.target /\ Met(c).cascade = old.cascade
          /\ Met(c).quiet = old.quiet
          /\ Met(c).children = old.children \ {c} /\ Met(c).visited = old.visited \cup {c}
          /\ Met(c).queue = old.queue \cup {c}
          /\ Met(c).decommissioned = old.decommissioned \cup Reported(c)
          /\ Met(c) \in DecomCall
      BY <1>2, <2>1, MetFields
    <3> QED
      BY <2>3, <3>1, <3>2
  <2> QED
    BY <2>2, <2>3
<1>5. /\ agents' \in [DID -> LifecycleState \cup {Absent}]
      /\ \A d \in DID : agents[d] = "decommissioned" => agents'[d] = "decommissioned"
      /\ \A d \in DID : agents[d] = Absent => agents'[d] = Absent
      /\ c \notin old.visited =>
           /\ agents'[c] \in {Absent, "decommissioned"}
           /\ \A d \in Reported(c) : d = c /\ agents[d] # "decommissioned"
                                       /\ agents'[d] = "decommissioned"
  BY <1>1, <1>2, DecommissionedType DEF AgentTypeOK
<1>6. StoreInv' /\ AgentTypeOK'
  BY <1>1, <1>2, <1>4, <1>5 DEF AgentTypeOK, StoreInv, TypeOK, PendingFresh
<1> HIDE DEF work
<1>7. OneCall'
  BY <1>2, <1>3 DEF OneCall, Busy
<1>8. \A u \in Task : Busy(u) => decom[u] \in DecomCall
  BY DEF AgentTypeOK, Busy
<1>9. NamedAlready'
  <2>1. Has(records, c)
    BY <1>2 DEF NamedAlready
  <2>2. /\ \A d \in work.children : Has(records, d)
        /\ \A d \in work.visited : Has(records, d) \/ agents'[d] = "decommissioned"
    BY <1>2, <1>4, <1>5, <2>1 DEF NamedAlready, DecomCall
  <2> QED
    BY <1>2, <1>3, <1>5, <1>8, <2>2 DEF NamedAlready, Busy, DecomCall, work
<1>10. ReportedOnce'
  <2>1. /\ \A d \in work.decommissioned : agents'[d] = "decommissioned"
        /\ \A d \in work.visited : agents'[d] \in {Absent, "decommissioned"}
    BY <1>2, <1>4, <1>5 DEF ReportedOnce, DecomCall, Busy
  <2>2. ASSUME NEW u \in Task \ {t}, Busy(u)
        PROVE  work.decommissioned \cap decom[u].decommissioned = {}
    BY <1>2, <1>4, <1>5, <1>8, <2>2 DEF ReportedOnce, DecomCall, Busy
  <2> QED
    BY <1>2, <1>3, <1>5, <1>8, <2>1, <2>2 DEF ReportedOnce, Busy, DecomCall, work
<1>11. QuietFrontier'
  <2>1. ASSUME work.cascade, work.quiet
        PROVE  Frontier(work)
    <3>1. Frontier(old) /\ old.queue \subseteq old.visited
      BY <1>2, <1>4, <2>1 DEF QuietFrontier
    <3>2. work.visited \ work.queue = old.visited \ old.queue
      BY <1>4, <3>1
    <3> QED
      BY <1>4, <3>1, <3>2 DEF Frontier
  <2>2. \A u \in Task : Frontier(decom'[u]) => Frontier(decom[u])'
    BY <1>2 DEF Frontier
  <2>3. /\ work.target \in work.visited
        /\ work.queue \subseteq work.visited
        /\ work.decommissioned \subseteq work.visited
    BY <1>2, <1>4 DEF QuietFrontier, Reported
  <2> QED
    BY <1>2, <1>3, <2>1, <2>2, <2>3 DEF QuietFrontier, Busy, work
<1> QED
  BY <1>6, <1>7, <1>9, <1>10, <1>11

LEMMA AgentInvNext == AgentInv /\ [AgentNext]_agentVars => AgentInv'
<1> SUFFICES ASSUME AgentInv, [AgentNext]_agentVars
             PROVE  AgentInv'
  OBVIOUS
<1>1. CASE UNCHANGED agentVars
  BY <1>1 DEF agentVars, AgentInv, StoreInv, TypeOK, PendingFresh, AgentTypeOK, OneCall,
              NamedAlready, ReportedOnce, QuietFrontier, Frontier, Busy
<1>2. CASE AgentNext
  BY <1>2, CreateStep, TransitionStep, DelegationsStep, StartStep, ScanStep, VisitStep
  DEF AgentNext, Suspend, Resume, Deactivate
<1> QED
  BY <1>1, <1>2

LEMMA AgentInvariant == AgentSpec => []AgentInv
BY AgentInvInit, AgentInvNext, PTL DEF AgentSpec

-----------------------------------------------------------------------------
(* The types, of the store the manager shares too. *)
THEOREM AgentTypeCorrect == AgentSpec => []AgentTypeOK
BY AgentInvariant, PTL DEF AgentInv

(* Of any number of decommissions that meet at an agent, one reports it, and *)
(* all that a call has visited is ended.                                     *)
THEOREM AgentsReportedOnce == AgentSpec => []ReportedOnce
BY AgentInvariant, PTL DEF AgentInv

(* No step of any call takes an agent out of its end: the states that      *)
(* can_transition_to and a decommission lead to are further on.            *)
THEOREM NoAgentComesBack == AgentSpec => NoWayBack
<1>1. ASSUME AgentTypeOK, [AgentNext]_agentVars, NEW d \in DID
      PROVE  /\ agents[d] = "decommissioned" => agents'[d] = "decommissioned"
             /\ agents[d] = "deactivated" => agents'[d] \in {"deactivated", "decommissioned"}
  <2>1. ASSUME NEW e \in DID, Create(e)
        PROVE  \A x \in DID : agents[x] \in LifecycleState => agents'[x] = agents[x]
    BY <1>1, <2>1, AbsentAssumption DEF Create, Unused, AgentTypeOK
  <2>2. ASSUME NEW t \in Task, NEW e \in DID,
               NEW target \in {"suspended", "active", "deactivated"}, Transition(t, e, target)
        PROVE  agents[d] \in {"deactivated", "decommissioned"} => agents'[d] = agents[d]
    BY <1>1, <2>2 DEF Transition, CanTransition, AgentTypeOK
  <2>3. ASSUME NEW e \in DID, agents' = Decommissioned(e)
        PROVE  agents'[d] \in {agents[d], "decommissioned"}
    BY <1>1, <2>3 DEF Decommissioned, AgentTypeOK
  <2>4. ASSUME NEW t \in Task, Visit(t)
        PROVE  agents' = agents \/ \E e \in DID : agents' = Decommissioned(e)
    <3>1. decom[t].children \subseteq DID
      BY <1>1, <2>4 DEF Visit, AgentTypeOK, DecomCall
    <3> QED
      BY <2>4, <3>1 DEF Visit
  <2>5. \/ agents' = agents
        \/ \E e \in DID : Create(e) \/ agents' = Decommissioned(e)
        \/ \E t \in Task, e \in DID, target \in {"suspended", "active", "deactivated"} :
             Transition(t, e, target)
    BY <1>1, <2>4
    DEF AgentNext, agentVars, Suspend, Resume, Deactivate, StartDelegate, EndDelegate,
        RevokeCall, DecommissionStart, Scan, Revoke
  <2> QED
    BY <2>1, <2>2, <2>3, <2>5 DEF LifecycleState
<1>2. AgentTypeOK /\ [AgentNext]_agentVars
        => \A d \in DID :
             /\ agents[d] = "decommissioned" => agents'[d] = "decommissioned"
             /\ agents[d] = "deactivated" => agents'[d] \in {"deactivated", "decommissioned"}
  BY <1>1
<1> QED
  BY <1>2, AgentTypeCorrect, PTL DEF AgentSpec, NoWayBack

(* The end of a cascade that nobody disturbed: the DIDs it visited are its  *)
(* target and all the live delegations below, and they are what it revokes. *)
LEMMA QuietEnd ==
  ASSUME AgentInv, NEW t \in Task, Revoke(t), decom[t].cascade, decom[t].quiet
  PROVE  /\ LiveBelow(records, {decom[t].target}) \subseteq decom[t].visited
         /\ Live(records, decom[t].target) =>
              /\ DecommissionResponse(t).revoked_delegations = decom[t].visited
              /\ DecommissionResponse(t).decommissioned_agents
                   \subseteq DecommissionResponse(t).revoked_delegations
              /\ LiveChildren(records', decom[t].visited) = {}
<1> DEFINE d == decom[t].target
           below == LiveBelow(records, {d})
           visited == decom[t].visited
<1>1. /\ Busy(t) /\ decom[t] \in DecomCall
      /\ decom[t].queue = {} /\ decom[t].children = {}
  BY DEF Revoke, Scanned, Busy, AgentInv, AgentTypeOK
<1>2. d \in visited /\ decom[t].decommissioned \subseteq visited /\ Frontier(decom[t])
  BY <1>1 DEF AgentInv, QuietFrontier
<1>3. visited \in SUBSET DID /\ d \in DID
  BY <1>1 DEF DecomCall
<1>4. BelowClosed(records, {d}, visited)
  <2>1. LiveChildren(records, visited) \subseteq visited
    BY <1>1, <1>2 DEF Frontier
  <2> QED
    BY <1>2, <2>1 DEF BelowClosed, LiveChildren
<1>5. below \subseteq visited
  BY <1>3, <1>4 DEF LiveBelow
<1>6. visited = {d} \cup below
  BY <1>2, <1>5 DEF Frontier
<1>7. ASSUME Live(records, d)
      PROVE  /\ DecommissionResponse(t).revoked_delegations = visited
             /\ DecommissionResponse(t).decommissioned_agents \subseteq visited
             /\ LiveChildren(records', visited) = {}
  <2>1. records' = RevokeAll(records, {d} \cup below)
    BY <1>7 DEF Revoke, RevokeCascade
  <2>2. records \in [DID -> Record \cup {NoRecord}]
    BY DEF AgentInv, AgentTypeOK, TypeOK
  <2>3. ASSUME NEW x \in DID
        PROVE  Live(records, x) /\ records'[x].revoked <=> x \in visited
    <3>1. CASE Live(records, x)
      <4>1. records'[x].revoked <=> records[x].revoked \/ x \in visited
        BY <1>6, <2>1, <2>2, <3>1, RevokeAllFields DEF Live
      <4> QED
        BY <3>1, <4>1 DEF Live
    <3>2. CASE ~Live(records, x)
      BY <1>6, <1>7, <3>2, BelowIsLive
    <3> QED
      BY <3>1, <3>2
  <2>4. LiveChildren(records', visited) = LiveChildren(records, visited) \ visited
    BY <1>6, <2>1, <2>2, ChildrenLeft
  <2>5. LiveChildren(records, visited) \subseteq visited
    BY <1>1, <1>2 DEF Frontier
  <2> QED
    BY <1>2, <1>3, <2>3, <2>4, <2>5 DEF DecommissionResponse
<1> QED
  BY <1>2, <1>5, <1>7 DEF DecommissionResponse

(* A cascading decommission that nobody disturbed revokes exactly what it  *)
(* visited, reports no agent beyond that, and leaves no live delegation    *)
(* below.                                                                  *)
THEOREM QuietCascadeIsComplete == AgentSpec => QuietCascadeRevokesAll
<1>1. AgentInv =>
        \A t \in Task :
          Revoke(t) /\ decom[t].cascade /\ decom[t].quiet =>
            /\ LiveBelow(records, {decom[t].target}) \subseteq decom[t].visited
            /\ Live(records, decom[t].target) =>
                 /\ DecommissionResponse(t).revoked_delegations = decom[t].visited
                 /\ DecommissionResponse(t).decommissioned_agents
                      \subseteq DecommissionResponse(t).revoked_delegations
                 /\ LiveChildren(records', decom[t].visited) = {}
  BY QuietEnd
<1> QED
  BY <1>1, AgentInvariant, PTL DEF QuietCascadeRevokesAll
==============================================================================
