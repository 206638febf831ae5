------------------------ MODULE CredentialPresentation ------------------------
(****************************************************************************)
(* The flow of OID4VP: a verifier's requests, and what wallets answer.  The *)
(* library lets a wallet answer with any words; the verifier's check takes  *)
(* a definition and a submission and compares ids.  Nothing ties the two to *)
(* one request, as nonce and state are carried along and not compared, and  *)
(* what a descriptor asks of a credential is left to the wallet.  Some of   *)
(* the wallets are assumed to be honest; nothing is assumed of the others.  *)
(****************************************************************************)
EXTENDS CredentialIssuance, FiniteSets

CONSTANTS
  Honest,        \* the wallets that answer a request from what they hold
  DefinitionId,  \* ids of presentation definitions
  DescriptorId,  \* ids of input descriptors
  URL,           \* client ids, redirect URIs and nonces
  ShownOffers,   \* bound: the offers made where credentials are shown as well
  MaxRequests,   \* bound: the requests made
  MaxResponses   \* bound: the responses made

ASSUME HonestAssumption == Honest \subseteq Wallet

VARIABLES
  requests,   \* the presentation definitions asked for
  responses,  \* the submissions that wallets made
  accepted    \* history: <<definition, wallet>> of each submission accepted

presentationVars == <<requests, responses, accepted>>

PresentationInit == requests = {} /\ responses = {} /\ accepted = {}

(* What a descriptor's constraints ask of a credential is the kind of it. *)
InputDescriptor == [id : DescriptorId, constraints : Definition]

PresentationDefinition(id, descriptors) ==
  [id |-> id, input_descriptors |-> descriptors]

(* PresentationDefinition::validate *)
ValidDefinition(def) ==
  /\ def.id # Empty
  /\ def.input_descriptors # {}
  /\ \A desc \in def.input_descriptors : desc.id # Empty

AuthorizationRequest ==
  [response_type : {"vp_token"}, client_id : URL, redirect_uri : URL, nonce : URL]

(* AuthorizationRequest::validate *)
ValidRequest(request, def) ==
  /\ request.response_type = "vp_token"
  /\ request.client_id # Empty
  /\ request.redirect_uri # Empty
  /\ request.nonce # Empty
  /\ ValidDefinition(def)

CreateRequest(request, def) ==
  /\ Cardinality(requests) < MaxRequests
  /\ ValidRequest(request, def)
  /\ requests' = requests \cup {def}
  /\ UNCHANGED <<responses, accepted>>

PresentationSubmission(w, id, map) ==
  [from |-> w, definition_id |-> id, descriptor_map |-> map]

(* create_response looks at nothing but whether the map is empty. *)
CreateResponse(w, id, map) ==
  /\ Cardinality(responses) < MaxResponses
  /\ map # {}
  /\ responses' = responses \cup {PresentationSubmission(w, id, map)}
  /\ UNCHANGED <<requests, accepted>>

(* What an honest wallet answers: of the descriptors of one request, some  *)
(* that it holds a credential for.                                         *)
Answers(w, id, map) ==
  \E def \in requests :
    /\ id = def.id
    /\ map \subseteq {desc.id : desc \in {x \in def.input_descriptors : x.constraints \in held[w]}}

(* Bug: one descriptor that is met is enough. *)
BugVerifySubmission(def, s) ==
  /\ s.definition_id = def.id
  /\ \E desc \in def.input_descriptors : desc.id \in s.descriptor_map
  /\ accepted' = accepted \cup {<<def, s.from>>}
  /\ UNCHANGED <<requests, responses>>

VerifySubmission(def, s) ==
  /\ s.definition_id = def.id
  /\ \A desc \in def.input_descriptors : desc.id \in s.descriptor_map
  /\ accepted' = accepted \cup {<<def, s.from>>}
  /\ UNCHANGED <<requests, responses>>

PresentationNext ==
  \/ \E request \in AuthorizationRequest,
        id \in DefinitionId, descriptors \in SUBSET InputDescriptor :
       CreateRequest(request, PresentationDefinition(id, descriptors))
  \/ \E w \in Wallet, id \in DefinitionId, map \in SUBSET DescriptorId :
       /\ w \in Honest => Answers(w, id, map)
       /\ CreateResponse(w, id, map)
  \/ \E def \in requests, s \in responses : VerifySubmission(def, s)

ExchangeInit == IssuanceInit /\ PresentationInit

ExchangeNext ==
  \/ IssuanceNext /\ offers' <= ShownOffers /\ UNCHANGED presentationVars
  \/ PresentationNext /\ UNCHANGED issuanceVars

ExchangeSpec == ExchangeInit /\ [][ExchangeNext]_<<issuanceVars, presentationVars>>

-----------------------------------------------------------------------------
(* From the issuer to the verifier: an honest wallet is accepted for a     *)
(* definition only if one request with the definition's id asked, under    *)
(* the id of each of its descriptors, for a credential that the wallet was *)
(* served (presentation.rs, "every input descriptor is satisfied").  The   *)
(* verifier's check asks for all descriptors, so that a wallet which holds *)
(* some of what it asks is refused.  The request that was answered need    *)
(* not be the one that the submission is held against, and of a wallet     *)
(* that is not honest acceptance says nothing.                             *)
HonestAcceptedMeansServed ==
  \A a \in accepted : a[2] \in Honest =>
    \E def \in requests :
      /\ def.id = a[1].id
      /\ \A desc \in a[1].input_descriptors : \E asked \in def.input_descriptors :
           asked.id = desc.id /\ asked.constraints \in held[a[2]]
==============================================================================
