------------------------------ MODULE DIDMethod ------------------------------
(***************************************************************************)
(* TrustAgentMethod over the three ledger drivers.  Each driver keeps a    *)
(* map from DIDs to documents behind a lock that its operations hold from  *)
(* start to end.  `update` is not one operation but two: it retrieves the  *)
(* document, applies its operations to the copy, and hands the copy to the *)
(* driver to be stored whole.                                              *)
(*                                                                         *)
(* The drivers differ after `deactivate`: KERI and web set a flag and      *)
(* refuse further changes, EVM marks the document and refuses nothing.     *)
(***************************************************************************)
EXTENDS Lifecycle, Naturals, FiniteSets, SequencesExt

CONSTANTS
  DID,         \* the identifiers that `create` may draw
  Id,          \* the ids of verification methods and services
  Auth,        \* "auth-1", the id of the first verification method
  Owner,       \* the controllers and parents
  NoOwner,     \* a document without a controller
  Capabilities,\* the lists of capabilities
  Network,     \* Network[d] : <<"evm", chain>>, <<"keri">> or <<"web", domain>>
  EmptyDomain, \* the domain of an identifier that has none
  Drivers,     \* the networks that a driver was registered for
  Requests,    \* the options clients create identities with
  Operations,  \* the lists of operations clients ask for
  Task,        \* the concurrent calls
  MaxAnchored, \* bound: how many DIDs are created
  Unanchored,  \* the driver has no entry
  Refused,     \* an operation failed
  NoUpdate     \* a task has no update under way

(* What is kept of a DIDDocument; entries are known by id. *)
Document ==
  [id : DID, controller : Owner \cup {NoOwner}, parent_did : Owner \cup {NoOwner},
   verification_method : SUBSET Id, authentication : SUBSET Id,
   assertion_method : SUBSET Id, service : SUBSET Id,
   capabilities : Capabilities, lifecycle : LifecycleState]

CreateOptions ==
  [network : Seq(STRING), parent_did : Owner \cup {NoOwner},
   capabilities : Capabilities, services : SUBSET Id]

UpdateOp ==
  [type : {"addVerificationMethod", "removeVerificationMethod"}, id : Id]
    \cup [type : {"addService", "removeService"}, id : Id]
    \cup [type : {"setController"}, controller : Owner]
    \cup [type : {"updateCapabilities"}, capabilities : Capabilities]
    \cup [type : {"setLifecycle"}, state : LifecycleState]

NetworkKind == {"evm", "keri", "web"}

ASSUME NetworkAssumption ==
  \A d \in DID : Network[d] \in Seq(STRING) /\ Network[d][1] \in NetworkKind
ASSUME RequestsAssumption == Requests \subseteq CreateOptions
ASSUME OperationsAssumption == Operations \subseteq Seq(UpdateOp)

VARIABLES
  store,  \* the drivers' maps
  call,   \* call[t]: t's update, between its retrieve and its store
  serial, \* history: the documents as they would be without concurrency
  stale   \* history: DIDs where an update was stored over a version it had not seen

methodVars == <<store, call, serial, stale>>

(* can_transition_to is asked of the copy the operation works on. *)
ApplyUpdate(doc, op) ==
  CASE op.type = "addVerificationMethod" ->
         [doc EXCEPT !.verification_method = @ \cup {op.id}]
    [] op.type = "removeVerificationMethod" ->
         [doc EXCEPT !.verification_method = @ \ {op.id}]
    [] op.type = "addService" -> [doc EXCEPT !.service = @ \cup {op.id}]
    [] op.type = "removeService" -> [doc EXCEPT !.service = @ \ {op.id}]
    [] op.type = "setController" -> [doc EXCEPT !.controller = op.controller]
    [] op.type = "updateCapabilities" -> [doc EXCEPT !.capabilities = op.capabilities]
    [] op.type = "setLifecycle" ->
         IF <<doc.lifecycle, op.state>> \in CanTransition
           THEN [doc EXCEPT !.lifecycle = op.state]
           ELSE Refused

(* The first operation that fails ends the update with nothing stored. *)
ApplyAll(doc, ops) ==
  FoldLeft(LAMBDA d, op : IF d = Refused THEN Refused ELSE ApplyUpdate(d, op), doc, ops)

Anchored == {d \in DID : store[d] # Unanchored}

Evm(d) == Network[d][1] = "evm"

Web(d) == Network[d][1] = "web"

-----------------------------------------------------------------------------
(* The documents of new identities. *)

NewDocument(d, caps) ==
  [id |-> d, controller |-> NoOwner, parent_did |-> NoOwner,
   verification_method |-> {}, authentication |-> {}, assertion_method |-> {},
   service |-> {}, capabilities |-> caps, lifecycle |-> "created"]

AddVerificationMethod(doc, id) ==
  [doc EXCEPT !.verification_method = @ \cup {id},
              !.authentication = @ \cup {id},
              !.assertion_method = @ \cup {id}]

BuildDIDDocument(d, options) ==
  [AddVerificationMethod(NewDocument(d, options.capabilities), Auth) EXCEPT
     !.lifecycle = "active",
     !.controller = options.parent_did,
     !.parent_did = options.parent_did,
     !.service = options.services]

ASSUME DocumentAssumption ==
  /\ \A d \in DID, o \in Requests : BuildDIDDocument(d, o) \in Document
  /\ Refused \notin Document

-----------------------------------------------------------------------------
(* The drivers.  A network has one, so that one map does for all of them.   *)

DefaultWeb == <<"web", "default">>

(* The network's own driver; for a domain without one, the default. *)
DriverFor(network) ==
  CASE network \in Drivers -> network
    [] network \notin Drivers /\ network[1] = "web" /\ DefaultWeb \in Drivers -> DefaultWeb
    [] OTHER -> Refused

(* Every DID of a domain has the same URL. *)
ResolveUrl(d) ==
  IF Network[d][2] = EmptyDomain
    THEN Refused
    ELSE [domain |-> Network[d][2], path |-> "/.well-known/did.json"]

(* SHA-256 of the serialised document: equal for equal documents only. *)
DocumentHash(doc) == <<"sha256", doc>>

EvmAnchored(doc) == [document |-> doc, document_hash |-> DocumentHash(doc)]

KeriAnchored(doc) == [document |-> doc, deactivated |-> FALSE]

WebAnchored(d, doc) == [document |-> doc, url |-> ResolveUrl(d), deactivated |-> FALSE]

(* None of the drivers lets a document take the place of another. *)
Anchorable(d) == store[d] = Unanchored /\ (Web(d) => ResolveUrl(d) # Refused)

AnchoredAs(d, doc) ==
  CASE Evm(d) -> EvmAnchored(doc)
    [] Web(d) -> WebAnchored(d, doc)
    [] OTHER  -> KeriAnchored(doc)

(* What a driver keeps of a DID. *)
Entry(d) ==
  CASE Evm(d) -> [document : Document, document_hash : {"sha256"} \X Document]
    [] Web(d) -> [document : Document, url : {ResolveUrl(d)}, deactivated : BOOLEAN]
    [] OTHER  -> [document : Document, deactivated : BOOLEAN]

ASSUME EntryAssumption == \A d \in DID : Unanchored \notin Entry(d)

Retrieve(d) == IF store[d] = Unanchored THEN Refused ELSE store[d].document

Resolve(d) == IF DriverFor(Network[d]) = Refused THEN Refused ELSE Retrieve(d)

(* Bug: the flag is not looked at. *)
BugRefuses(d) == FALSE

(* Err(AgentDecommissioned); the EVM driver has no such test. *)
Refuses(d) == ~Evm(d) /\ store[d].deactivated

Updated(d, doc) ==
  IF Evm(d) THEN [document |-> doc, document_hash |-> DocumentHash(doc)]
            ELSE [store[d] EXCEPT !.document = doc]

(* Bug: the record is flagged and its document says nothing of it. *)
BugDeactivated(d) ==
  IF Evm(d) THEN store[d] ELSE [store[d] EXCEPT !.deactivated = TRUE]

(* The lifecycle is set whatever it was; EVM does not hash the new document. *)
Marked(d) == [store[d] EXCEPT !.document.lifecycle = "deactivated"]

Deactivated(d) ==
  IF Evm(d) THEN Marked(d) ELSE [Marked(d) EXCEPT !.deactivated = TRUE]

-----------------------------------------------------------------------------
MethodInit ==
  /\ store = [d \in DID |-> Unanchored]
  /\ call = [t \in Task |-> NoUpdate]
  /\ serial = [d \in DID |-> Unanchored]
  /\ stale = {}

(* The identifier is a new public key on the network the options name; a   *)
(* network without a driver ends the call before anything is stored.       *)
Create(d, options) ==
  /\ Network[d] = options.network
  /\ DriverFor(options.network) # Refused
  /\ Anchorable(d)
  /\ Cardinality(Anchored) < MaxAnchored
  /\ LET doc == BuildDIDDocument(d, options) IN
       /\ store' = [store EXCEPT ![d] = AnchoredAs(d, doc)]
       /\ serial' = [serial EXCEPT ![d] = doc]
  /\ UNCHANGED <<call, stale>>

(* The copies of d that other updates work on have been overtaken. *)
Overtake(t, d) ==
  [u \in Task |-> IF u # t /\ call[u] # NoUpdate /\ call[u].did = d
                    THEN [call[u] EXCEPT !.fresh = FALSE]
                    ELSE call[u]]

(* An update between its two halves: fresh while its copy is the newest. *)
UpdateCall == [did : DID, ops : Operations, document : Document, fresh : BOOLEAN]

ASSUME UpdateAssumption == NoUpdate \notin UpdateCall

(* update, first half: retrieve under the read lock and apply to the copy.   *)
StartUpdate(t, d, ops) ==
  /\ call[t] = NoUpdate
  /\ Resolve(d) # Refused
  /\ LET doc == ApplyAll(Resolve(d), ops) IN
       /\ doc # Refused
       /\ call' = [call EXCEPT ![t] =
            [did |-> d, ops |-> ops, document |-> doc, fresh |-> TRUE]]
  /\ UNCHANGED <<store, serial, stale>>

(* update, second half: the driver stores the copy, or refuses it. *)
StoreUpdate(t) ==
  /\ call[t] # NoUpdate
  /\ LET d == call[t].did IN
       /\ ~Refuses(d)
       /\ store' = [store EXCEPT ![d] = Updated(d, call[t].document)]
       /\ call' = [Overtake(t, d) EXCEPT ![t] = NoUpdate]
       /\ serial' = [serial EXCEPT ![d] = ApplyAll(@, call[t].ops)]
       /\ stale' = IF call[t].fresh THEN stale ELSE stale \cup {d}

RefuseUpdate(t) ==
  /\ call[t] # NoUpdate
  /\ Refuses(call[t].did)
  /\ call' = [call EXCEPT ![t] = NoUpdate]
  /\ UNCHANGED <<store, serial, stale>>

(* deactivate: one operation of the driver. *)
Deactivate(t, d) ==
  /\ call[t] = NoUpdate
  /\ Resolve(d) # Refused
  /\ ~Refuses(d)
  /\ store' = [store EXCEPT ![d] = Deactivated(d)]
  /\ call' = Overtake(t, d)
  /\ serial' = [serial EXCEPT ![d] =
                  IF @ = Refused THEN Refused ELSE [@ EXCEPT !.lifecycle = "deactivated"]]
  /\ UNCHANGED stale

MethodNext ==
  \/ \E d \in DID, options \in Requests : Create(d, options)
  \/ \E t \in Task :
       \/ \E d \in DID, ops \in Operations : StartUpdate(t, d, ops)
       \/ StoreUpdate(t)
       \/ RefuseUpdate(t)
       \/ \E d \in DID : Deactivate(t, d)

MethodSpec == MethodInit /\ [][MethodNext]_methodVars

-----------------------------------------------------------------------------
LifecycleOf(d) == store[d].document.lifecycle

(* A copy that has been overtaken replaces the newer document. *)
StaleStore(d) ==
  \E t \in Task : StoreUpdate(t) /\ call[t].did = d /\ ~call[t].fresh

(* As long as no update of a DID was overtaken, its document is what the      *)
(* accepted updates and deactivations give when applied one after the other:  *)
(* no acknowledged operation is lost, and none of a refused update is there.  *)
(* The hash the EVM driver keeps is that of the document it keeps, or of the  *)
(* document before it was marked as deactivated: no other change is unhashed. *)
NoUpdateLost ==
  /\ \A d \in Anchored \ stale : store[d].document = serial[d]
  /\ \A d \in Anchored : Evm(d) =>
       \E s \in LifecycleState :
         /\ LifecycleOf(d) \in {s, "deactivated"}
         /\ store[d].document_hash = DocumentHash([store[d].document EXCEPT !.lifecycle = s])

(* An identity that has ended stays ended on every ledger, and on KERI and *)
(* web nothing in its record changes any more once `deactivate` has        *)
(* answered, not even by an update that had retrieved the document before. *)
(* Elsewhere only an overtaken update writes its old lifecycle back.       *)
EndedStaysEnded ==
  [][\A d \in Anchored :
       /\ ~Evm(d) /\ store[d].deactivated => store'[d] = store[d]
       /\ LifecycleOf(d) \in {"deactivated", "decommissioned"} =>
            LifecycleOf(d)' \in {"deactivated", "decommissioned"} \/ StaleStore(d)]_methodVars
==============================================================================
