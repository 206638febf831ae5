----------------------------- MODULE MCIdentities -----------------------------
(***************************************************************************)
(* Documents behind the method and key event logs, on the ledgers that are *)
(* not a contract.  The KERI driver incepts a controller for each DID that *)
(* it anchors and touches it no more, neither in update nor in deactivate, *)
(* so that documents and logs share no state: one is explored while the    *)
(* other stands still, and aspect says which.                              *)
(***************************************************************************)
EXTENDS DIDMethod, KeriController

CONSTANTS e, f, k, w, v, auth, inbox, parent, org, noOwner, caps, noCaps, c1, c2, h1, d1

(* Two chains and two domains: one of each has a driver of its own. *)
MCNetwork ==
  (e :> <<"evm", "137">>) @@ (f :> <<"evm", "1">>) @@ (k :> <<"keri">>)
    @@ (w :> <<"web", "example.com">>) @@ (v :> <<"web", "">>)

MCDrivers == {<<"evm", "137">>, <<"keri">>, <<"web", "default">>}

(* With a parent on EVM, with a service on the web. *)
MCRequests ==
  {[network |-> MCNetwork[d],
    parent_did |-> IF d = e THEN parent ELSE noOwner,
    capabilities |-> caps,
    services |-> IF d = w THEN {inbox} ELSE {}] : d \in DID}

To(s) == [type |-> "setLifecycle", state |-> s]
On(type, id) == [type |-> type, id |-> id]

(* Every kind of operation; one list that fails half way when the document *)
(* is not suspended, and one that ends the identity in a single update.    *)
MCOperations ==
  {<<On("addService", inbox)>>,
   <<On("removeService", inbox), [type |-> "setController", controller |-> org]>>,
   <<To("suspended")>>,
   <<[type |-> "updateCapabilities", capabilities |-> noCaps], To("active")>>,
   <<To("deactivated"), To("decommissioned")>>,
   <<On("addVerificationMethod", inbox), On("removeVerificationMethod", auth)>>}

(* One list of two keys, the list of one key with the same bytes, another. *)
MCKeyList == {<< <<1>>, <<2>> >>, << <<1, 2>> >>, << <<3>> >>}

-----------------------------------------------------------------------------
VARIABLE aspect

identityVars == <<methodVars, keriVars, aspect>>

IdentityInit == MethodInit /\ KeriInit /\ aspect \in {"documents", "keys"}

IdentityNext ==
  /\ UNCHANGED aspect
  /\ \/ aspect = "documents" /\ MethodNext /\ UNCHANGED keriVars
     \/ aspect = "keys" /\ KeriNext /\ UNCHANGED methodVars

IdentitySpec == IdentityInit /\ [][IdentityNext]_identityVars
==============================================================================
