-------------------------- MODULE TrustDIDRegistry ---------------------------
(***************************************************************************)
(* The contract TrustDIDRegistry, one atomic action per external function. *)
(*                                                                         *)
(* keccak256 has no collisions here: a DID stands for its hash and a key   *)
(* for the commitment to it.  _children is a set per parent: repeating an  *)
(* entry of the list only repeats an assignment of decommissionDID.  The   *)
(* depth and the parent's name are stored in the child's record and no     *)
(* function reads them back; they are left out, with the bound on depth.   *)
(***************************************************************************)
EXTENDS Integers

CONSTANTS
  DIDString,  \* the DID strings
  Account,    \* msg.sender
  Hash,       \* document hashes
  Key,        \* keys to rotate to; a commitment is the hash of one
  MAX_NONCE,  \* the largest uint32; `+= 1` on it reverts
  NoDID       \* the empty record, owner = address(0)

ACTIVE == 0
DEACTIVATED == 1
DECOMMISSIONED == 2

DIDRecord ==
  [owner : Account, status : {ACTIVE, DEACTIVATED, DECOMMISSIONED},
   nonce : 0 .. MAX_NONCE, documentHash : Hash, preRotationCommitment : Key]

ASSUME MaxNonceAssumption == MAX_NONCE \in Nat
ASSUME NoDIDAssumption == NoDID \notin DIDRecord

VARIABLES
  records,    \* _records
  children,   \* _children
  ended,      \* history: the DIDs decommissioned by a transaction that names them
  published   \* history: <<DID, nonce, document hash, commitment>>, as resolve answers

registryVars == <<records, children, ended, published>>

Exists(d) == records[d] # NoDID
OwnedBy(a, d) == Exists(d) /\ records[d].owner = a
Status(d) == records[d].status

RegistryInit ==
  /\ records = [d \in DIDString |-> NoDID]
  /\ children = [d \in DIDString |-> {}]
  /\ ended = {}
  /\ published = {}

(* Store a record, and note what resolve answers from now on. *)
Store(d, record) ==
  /\ records' = [records EXCEPT ![d] = record]
  /\ published' =
       published \cup
         {<<d, record.nonce, record.documentHash, record.preRotationCommitment>>}
  /\ UNCHANGED <<children, ended>>

CreateDID(a, d, hash, commitment) ==
  /\ ~Exists(d)
  /\ Store(d, [owner |-> a, status |-> ACTIVE, nonce |-> 0,
               documentHash |-> hash, preRotationCommitment |-> commitment])

(* Bug: an unchecked increment. *)
BugNewDocument(d, hash, commitment) ==
  Store(d, [records[d] EXCEPT !.documentHash = hash,
                              !.preRotationCommitment = commitment,
                              !.nonce = (@ + 1) % (MAX_NONCE + 1)])

(* What updateDID and rotateKey both end with. *)
NewDocument(d, hash, commitment) ==
  /\ records[d].nonce < MAX_NONCE
  /\ Store(d, [records[d] EXCEPT !.documentHash = hash,
                                 !.preRotationCommitment = commitment,
                                 !.nonce = @ + 1])

UpdateDID(a, d, hash) ==
  /\ OwnedBy(a, d)
  /\ Status(d) = ACTIVE
  /\ NewDocument(d, hash, records[d].preRotationCommitment)

DeactivateDID(a, d) ==
  /\ OwnedBy(a, d)
  /\ Status(d) = ACTIVE
  /\ Store(d, [records[d] EXCEPT !.status = DEACTIVATED])

(* The DID and the children listed under it, and no further. *)
DecommissionDID(a, d) ==
  /\ OwnedBy(a, d)
  /\ Status(d) # DECOMMISSIONED
  /\ records' = [x \in DIDString |-> IF x \in {d} \cup children[d]
                                 THEN [records[x] EXCEPT !.status = DECOMMISSIONED]
                                 ELSE records[x]]
  /\ ended' = ended \cup {d}
  /\ UNCHANGED <<children, published>>

RotateKey(a, d, hash, proof, commitment) ==
  /\ OwnedBy(a, d)
  /\ Status(d) = ACTIVE
  /\ proof = records[d].preRotationCommitment
  /\ NewDocument(d, hash, commitment)

(* Bug: the parent's status is not asked for. *)
BugRegisterDelegation(a, p, c) ==
  /\ OwnedBy(a, p)
  /\ Exists(c)
  /\ children' = [children EXCEPT ![p] = @ \cup {c}]
  /\ UNCHANGED <<records, ended, published>>

(* Nothing is asked of the child but that it exists. *)
RegisterDelegation(a, p, c) ==
  /\ OwnedBy(a, p)
  /\ Status(p) = ACTIVE
  /\ Exists(c)
  /\ children' = [children EXCEPT ![p] = @ \cup {c}]
  /\ UNCHANGED <<records, ended, published>>

RegistryNext ==
  \E a \in Account, d \in DIDString :
    \/ \E hash \in Hash, key \in Key : CreateDID(a, d, hash, key)
    \/ \E hash \in Hash : UpdateDID(a, d, hash)
    \/ DeactivateDID(a, d)
    \/ DecommissionDID(a, d)
    \/ \E hash \in Hash, proof, key \in Key : RotateKey(a, d, hash, proof, key)
    \/ \E c \in DIDString : RegisterDelegation(a, d, c)

RegistrySpec == RegistryInit /\ [][RegistryNext]_registryVars

-----------------------------------------------------------------------------
(* The types of the contract's storage. *)
RegistryTypeOK ==
  /\ records \in [DIDString -> DIDRecord \cup {NoDID}]
  /\ children \in [DIDString -> SUBSET DIDString]
  /\ ended \subseteq DIDString
  /\ published \subseteq DIDString \X (0 .. MAX_NONCE) \X Hash \X Key

(* Under a DID decommissioned by its own transaction no listed child is left *)
(* active or deactivated, then or later: the one-level cascade of            *)
(* decommissionDID reaches all of them and no child is listed afterwards.    *)
(* Below a DID that a cascade took there may well be others.                 *)
EndedFamilies ==
  \A p \in ended : \A c \in children[p] : Exists(c) /\ Status(c) = DECOMMISSIONED

(* A pair of DID and nonce stands for one document hash and one commitment   *)
(* for ever, so that a reader who has a document and its nonce knows whether *)
(* it is still the current one.                                              *)
NonceNamesDocument ==
  \A x, y \in published : x[1] = y[1] /\ x[2] = y[2] => x = y

(* No transaction takes a DID's status back, and one that is not active keeps *)
(* its owner, document and commitment, whatever its parents' owners do.       *)
ForwardOnly(d) ==
  Exists(d) =>
    /\ Exists(d)' /\ Status(d)' >= Status(d)
    /\ Status(d) # ACTIVE =>
         \E s \in {DEACTIVATED, DECOMMISSIONED} :
           records'[d] = [records[d] EXCEPT !.status = s]

StatusGoesForward == [][\A d \in DIDString : ForwardOnly(d)]_registryVars
==============================================================================
