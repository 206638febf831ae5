-------------------- MODULE CredentialsAndBillingProofs ---------------------
(***************************************************************************)
(* What becomes of credentials, for every set of wallets, offers, clocks   *)
(* and tokens: what an issuer serves, what a verifier accepts, what the    *)
(* engine's verify reports, what a verifier learns of a token that is      *)
(* disclosed in part.  And what becomes of the payment service's table,    *)
(* whatever Stripe sends it and however often.                             *)
(***************************************************************************)
EXTENDS CredentialPresentation, VCEngine, Billing, SDJWT, Induction,
        SequenceTheorems

-----------------------------------------------------------------------------
(* The issuer's flow. *)

(* An offer that stands is the last one made. *)
OfferIsLast == offers \in Nat /\ (current_offer # None => current_offer.serial = offers)

(* The token there is was given for a code; when it is the standing offer's *)
(* own, with a PIN where that one requires it.                              *)
TokenExplained ==
  access_token # None =>
    /\ access_token \in 0 .. offers
    /\ \E x \in exchanges :
         /\ x.offer = access_token
         /\ x.offer = offers => (current_offer.of.grants.user_pin_required => x.pin)

(* An exchange leaves a token, and offers stay in their places. *)
ExchangeLeavesToken == exchanges # {} => access_token # None /\ current_offer # None

IssuanceInv == OfferIsLast /\ TokenExplained /\ ExchangeLeavesToken /\ ServedExplained

LEMMA IssuanceInvInit == IssuanceInit => IssuanceInv
BY DEF IssuanceInit, IssuanceInv, OfferIsLast, TokenExplained, ExchangeLeavesToken,
       ServedExplained

LEMMA IssuanceInvNext == IssuanceInv /\ [IssuanceNext]_issuanceVars => IssuanceInv'
<1> SUFFICES ASSUME IssuanceInv, [IssuanceNext]_issuanceVars
             PROVE  IssuanceInv'
  OBVIOUS
<1> USE NoneAssumption DEF IssuanceInv
<1>1. ASSUME NEW creds \in SUBSET Definition, NEW code \in Code, NEW required \in BOOLEAN,
             CreateOffer(creds, code, required)
      PROVE  IssuanceInv'
  <2> DEFINE offer == CredentialOffer(creds, PreAuthorizedCodeGrant(code, required))
             current == [serial |-> offers + 1, of |-> offer]
  <2>1. /\ offers' = offers + 1 /\ current_offer' = current
        /\ UNCHANGED <<access_token, exchanges, served>>
    BY <1>1 DEF CreateOffer
  <2>2. offer \in Offer
    BY DEF Offer, CredentialOffer, PreAuthorizedCodeGrant
  <2>3. current # None /\ current.serial = offers + 1 /\ offers \in Nat
    BY <2>2 DEF OfferIsLast
  <2> HIDE DEF current
  <2>4. OfferIsLast' /\ ExchangeLeavesToken'
    BY <2>1, <2>3 DEF OfferIsLast, ExchangeLeavesToken
  <2>5. TokenExplained'
    <3>1. ASSUME access_token # None
          PROVE  access_token \in 0 .. offers + 1 /\ access_token # offers + 1
      BY <2>3, <3>1 DEF TokenExplained
    <3> QED
      BY <2>1, <2>3, <3>1 DEF TokenExplained
  <2>6. ServedExplained'
    BY <2>1 DEF ServedExplained
  <2> QED
    BY <2>4, <2>5, <2>6
<1>2. ASSUME NEW w, NEW request, ExchangeToken(w, request)
      PROVE  IssuanceInv'
  <2> DEFINE x == [wallet |-> w, offer |-> current_offer.serial,
                   pin |-> request.user_pin # None]
  <2>1. /\ access_token' = offers /\ exchanges' = exchanges \cup {x}
        /\ offers \in Nat /\ current_offer # None
        /\ UNCHANGED <<current_offer, offers, served>>
    BY <1>2 DEF ExchangeToken, TokenResponse, OfferIsLast
  <2>2. x.offer = offers /\ (current_offer.of.grants.user_pin_required => x.pin)
    BY <1>2, <2>1 DEF ExchangeToken, OfferIsLast
  <2> HIDE DEF x
  <2>3. OfferIsLast' /\ ExchangeLeavesToken' /\ TokenExplained'
    BY <2>1, <2>2 DEF OfferIsLast, ExchangeLeavesToken, TokenExplained
  <2>4. ServedExplained'
    BY <2>1 DEF ServedExplained
  <2> QED
    BY <2>3, <2>4
<1>3. ASSUME NEW w, NEW d, RequestCredential(w, d)
      PROVE  IssuanceInv'
  <2> DEFINE s == [offer |-> current_offer.serial,
                   pin |-> current_offer.of.grants.user_pin_required]
  <2>1. UNCHANGED <<current_offer, access_token, offers, exchanges>>
    BY <1>3 DEF RequestCredential
  <2>2. OfferIsLast' /\ ExchangeLeavesToken' /\ TokenExplained'
    BY <2>1 DEF OfferIsLast, ExchangeLeavesToken, TokenExplained
  <2>3. CASE Granted(d)
    <3>1. served' = served \cup {s}
      BY <1>3, <2>3 DEF RequestCredential, CredentialResponse
    <3>2. PICK x \in exchanges :
            /\ x.offer = access_token /\ access_token \in 0 .. offers
            /\ x.offer = offers => (current_offer.of.grants.user_pin_required => x.pin)
      BY <2>3 DEF Granted, TokenExplained
    <3>3. s.offer = offers /\ offers \in Nat
      BY <2>3 DEF Granted, OfferIsLast
    <3>4. x.offer < s.offer \/ (x.offer = s.offer /\ (s.pin => x.pin))
      BY <3>2, <3>3
    <3> QED
      BY <2>1, <2>2, <3>1, <3>4 DEF ServedExplained
  <2>4. CASE ~Granted(d)
    BY <1>3, <2>1, <2>2, <2>4 DEF RequestCredential, ServedExplained
  <2> QED
    BY <2>3, <2>4
<1>4. CASE UNCHANGED issuanceVars
  BY <1>4 DEF issuanceVars, OfferIsLast, TokenExplained, ExchangeLeavesToken, ServedExplained
<1> QED
  BY <1>1, <1>2, <1>3, <1>4 DEF IssuanceNext

LEMMA IssuanceInvariant == IssuanceSpec => []IssuanceInv
BY IssuanceInvInit, IssuanceInvNext, PTL DEF IssuanceSpec

(* Nothing is served of an offer before somebody showed its code, or that  *)
(* of an offer before it.                                                  *)
THEOREM ServingIsExplained == IssuanceSpec => []ServedExplained
BY IssuanceInvariant, PTL DEF IssuanceInv

(* Who exchanged the standing offer's code is refused nothing it names. *)
THEOREM OffersAreKept == IssuanceSpec => OfferIsKept
<1>1. ASSUME IssuanceInv, [IssuanceNext]_issuanceVars, answer' # answer, ~answer'.granted,
             NEW x \in exchanges
      PROVE  \/ x.wallet # answer'.to
             \/ x.offer # current_offer.serial
             \/ answer'.for \notin current_offer.of.credentials
  <2>1. PICK w \in Wallet, d \in Definition : RequestCredential(w, d)
    BY <1>1 DEF IssuanceNext, issuanceVars, CreateOffer, ExchangeToken, TokenResponse
  <2>2. ~Granted(d) /\ answer'.for = d
    BY <1>1, <2>1 DEF RequestCredential
  <2> QED
    BY <1>1, <2>2 DEF Granted, IssuanceInv, ExchangeLeavesToken
<1>2. IssuanceInv /\ [IssuanceNext]_issuanceVars =>
        (answer' # answer /\ ~answer'.granted =>
           \A x \in exchanges :
             \/ x.wallet # answer'.to
             \/ x.offer # current_offer.serial
             \/ answer'.for \notin current_offer.of.credentials)
  BY <1>1
<1> QED
  BY <1>2, IssuanceInvariant, PTL DEF IssuanceSpec, OfferIsKept

-----------------------------------------------------------------------------
(* The verifier's flow. *)

(* One request of the id asks for all that is mapped, and it is held. *)
Backed(id, ids, w) ==
  \E def \in requests :
    /\ def.id = id
    /\ \A i \in ids : \E request \in def.input_descriptors :
         request.id = i /\ request.constraints \in held[w]

SubmissionsBacked ==
  \A s \in responses :
    /\ s.from \in Wallet
    /\ s.from \in Honest => Backed(s.definition_id, s.descriptor_map, s.from)

AcceptedBacked ==
  \A a \in accepted :
    /\ a[2] \in Wallet
    /\ a[2] \in Honest => Backed(a[1].id, {desc.id : desc \in a[1].input_descriptors}, a[2])

ExchangeInv ==
  held \in [Wallet -> SUBSET Definition] /\ SubmissionsBacked /\ AcceptedBacked

LEMMA ExchangeInvInit == ExchangeInit => ExchangeInv
BY DEF ExchangeInit, IssuanceInit, PresentationInit, ExchangeInv, SubmissionsBacked,
       AcceptedBacked

(* Requests and what is held only grow. *)
LEMMA BackedStays ==
  ASSUME NEW w \in Wallet, held[w] \subseteq held'[w], requests \subseteq requests',
         NEW id, NEW ids, Backed(id, ids, w)
  PROVE  Backed(id, ids, w)'
BY DEF Backed

LEMMA ExchangeInvNext ==
  ExchangeInv /\ [ExchangeNext]_<<issuanceVars, presentationVars>> => ExchangeInv'
<1> SUFFICES ASSUME ExchangeInv, [ExchangeNext]_<<issuanceVars, presentationVars>>
             PROVE  ExchangeInv'
  OBVIOUS
<1>1. ASSUME held' \in [Wallet -> SUBSET Definition],
             \A w \in Wallet : held[w] \subseteq held'[w], requests \subseteq requests',
             \A s \in responses' \ responses :
               /\ s.from \in Wallet
               /\ s.from \in Honest => Backed(s.definition_id, s.descriptor_map, s.from),
             \A a \in accepted' \ accepted :
               /\ a[2] \in Wallet
               /\ a[2] \in Honest =>
                    Backed(a[1].id, {desc.id : desc \in a[1].input_descriptors}, a[2])
      PROVE  ExchangeInv'
  <2>1. SubmissionsBacked'
    BY <1>1, BackedStays DEF ExchangeInv, SubmissionsBacked
  <2>2. AcceptedBacked'
    BY <1>1, BackedStays DEF ExchangeInv, AcceptedBacked
  <2> QED
    BY <1>1, <2>1, <2>2 DEF ExchangeInv
<1>2. ASSUME [IssuanceNext]_issuanceVars, UNCHANGED presentationVars
      PROVE  ExchangeInv'
  <2>1. /\ held' \in [Wallet -> SUBSET Definition]
        /\ \A w \in Wallet : held[w] \subseteq held'[w]
    BY <1>2 DEF IssuanceNext, issuanceVars, CreateOffer, ExchangeToken, TokenResponse,
                RequestCredential, CredentialResponse, ExchangeInv
  <2> QED
    BY <1>1, <1>2, <2>1 DEF presentationVars
<1>3. ASSUME NEW request, NEW def, CreateRequest(request, def), UNCHANGED issuanceVars
      PROVE  ExchangeInv'
  BY <1>1, <1>3 DEF CreateRequest, issuanceVars, ExchangeInv
<1>4. ASSUME NEW w \in Wallet, NEW id, NEW map, w \in Honest => Answers(w, id, map),
             CreateResponse(w, id, map), UNCHANGED issuanceVars
      PROVE  ExchangeInv'
  <2> DEFINE s == PresentationSubmission(w, id, map)
  <2>1. s.from = w /\ s.definition_id = id /\ s.descriptor_map = map
    BY DEF PresentationSubmission
  <2>2. Answers(w, id, map) => Backed(id, map, w)
    BY DEF Answers, Backed
  <2> QED
    BY <1>1, <1>4, <2>1, <2>2 DEF CreateResponse, issuanceVars, ExchangeInv
<1>5. ASSUME NEW def \in requests, NEW s \in responses, VerifySubmission(def, s),
             UNCHANGED issuanceVars
      PROVE  ExchangeInv'
  <2> DEFINE a == <<def, s.from>>
             ids == {desc.id : desc \in def.input_descriptors}
  <2>1. s.definition_id = def.id /\ ids \subseteq s.descriptor_map
    BY <1>5 DEF VerifySubmission
  <2>2. s.from \in Wallet /\ (s.from \in Honest => Backed(def.id, s.descriptor_map, s.from))
    BY <2>1 DEF ExchangeInv, SubmissionsBacked
  <2>3. s.from \in Honest => Backed(def.id, ids, s.from)
    BY <2>1, <2>2 DEF Backed
  <2>4. accepted' = accepted \cup {a} /\ UNCHANGED <<requests, responses, held>>
    BY <1>5 DEF VerifySubmission, issuanceVars
  <2>5. \A b \in accepted' \ accepted : b[1] = def /\ b[2] = s.from
    BY <2>4
  <2> QED
    BY <1>1, <2>2, <2>3, <2>4, <2>5 DEF ExchangeInv
<1>6. CASE UNCHANGED <<issuanceVars, presentationVars>>
  BY <1>2, <1>6
<1> QED
  BY <1>2, <1>3, <1>4, <1>5, <1>6 DEF ExchangeNext, PresentationNext

(* Whoever answers honestly and is accepted was served what one request of *)
(* the definition's id asked for.                                          *)
THEOREM HonestAcceptanceIsServed == ExchangeSpec => []HonestAcceptedMeansServed
<1>1. ExchangeInv => HonestAcceptedMeansServed
  BY DEF ExchangeInv, AcceptedBacked, Backed, HonestAcceptedMeansServed
<1> QED
  BY <1>1, ExchangeInvInit, ExchangeInvNext, PTL DEF ExchangeSpec

-----------------------------------------------------------------------------
(* The engine's verify. *)

Bound == Nat \cup {Absent}

CredentialType ==
  [id : Nat \cup {Absent}, issuer : Issuer \cup {EngineDID, Absent}, valid_from : Bound,
   valid_until : Bound, proof : SUBSET [verification_method : {EngineDID}]]

CheckType ==
  [vc : CredentialType, pc : {"expiry", "window", "revocation", "reported"},
   errors : SUBSET {"proof_exists", "not_expired", "valid_time", "not_revoked"}]

VCTypeOK ==
  /\ credentials \in Seq(CredentialType)
  /\ clock \in Nat
  /\ check \in CheckType \cup {Absent}
  /\ holding \subseteq BOOLEAN

Under == check # Absent

(* A failure found is a moment the credential did not hold.  Without one,  *)
(* past the look at the clock, there was a moment it did, unless it is     *)
(* revoked by now, which the last check will find.                         *)
FailuresWitnessed == Under /\ check.errors # {} => FALSE \in holding

SuccessWitnessed ==
  Under /\ check.errors = {} =>
    /\ check.vc.proof # {}
    /\ check.pc = "revocation" => TRUE \in holding \/ check.vc.id \in revoked
    /\ check.pc = "reported" => TRUE \in holding

NowRecorded == Under => Holds(check.vc) \in holding

VCInv == VCTypeOK /\ NowRecorded /\ FailuresWitnessed /\ SuccessWitnessed

LEMMA VCInvInit == VCInit => VCInv
BY DEF VCInit, VCInv, VCTypeOK, NowRecorded, FailuresWitnessed, SuccessWitnessed, Under

(* Time and revocations pass the watched call by. *)
LEMMA WorldStep ==
  ASSUME VCInv, credentials' \in Seq(CredentialType), clock' \in Nat,
         revoked \subseteq revoked', check' = check, holding' = Watched(holding)
  PROVE  VCInv'
<1>1. CASE ~Under
  BY <1>1 DEF Under, VCInv, VCTypeOK, NowRecorded, FailuresWitnessed, SuccessWitnessed, Watched
<1>2. CASE Under
  <2>1. holding' = holding \cup {Holds(check.vc)'}
    BY <1>2 DEF Under, Watched
  <2>2. Holds(check.vc)' \in BOOLEAN
    BY DEF Holds
  <2>3. VCTypeOK' /\ NowRecorded'
    BY <2>1, <2>2 DEF VCInv, VCTypeOK, NowRecorded
  <2>4. FailuresWitnessed' /\ SuccessWitnessed'
    BY <1>2, <2>1 DEF VCInv, FailuresWitnessed, SuccessWitnessed, Under
  <2> QED
    BY <2>3, <2>4 DEF VCInv
<1> QED
  BY <1>1, <1>2

(* What the engine puts into a builder: its bounds stay. *)
LEMMA IssuedType ==
  ASSUME NEW builder, NEW issuer, NEW from \in Bound, NEW until \in Bound,
         builder = Builder(issuer, from, until), NEW id \in Nat,
         NEW proof \in SUBSET [verification_method : {EngineDID}]
  PROVE  [builder EXCEPT !.id = id, !.issuer = EngineDID, !.proof = proof] \in CredentialType
<1>1. builder = [id |-> Absent, issuer |-> issuer, valid_from |-> from, valid_until |-> until,
                 proof |-> {}]
  BY DEF Builder
<1>2. builder.valid_from = from /\ builder.valid_until = until
  BY <1>1
<1>3. builder \in [id : {Absent}, issuer : {issuer}, valid_from : Bound, valid_until : Bound,
                   proof : {{}}]
  BY <1>1
<1> HIDE DEF Bound
<1> QED
  BY <1>3 DEF CredentialType

(* A builder that gives a type gives a credential. *)
LEMMA IssueStep ==
  ASSUME VCInv, NEW issuer, NEW from \in Bound, NEW until \in Bound,
         Issue(Builder(issuer, from, until))
  PROVE  VCInv'
<1>1. Len(credentials) + 1 \in Nat /\ CreateProof \in SUBSET [verification_method : {EngineDID}]
  BY DEF VCInv, VCTypeOK, CreateProof
<1> DEFINE builder == Builder(issuer, from, until)
           vc == [builder EXCEPT !.id = Len(credentials) + 1, !.issuer = EngineDID,
                                 !.proof = CreateProof]
<1>2. vc \in CredentialType
  BY <1>1, IssuedType
<1>3. credentials' = Append(credentials, vc)
  BY DEF Issue
<1> HIDE DEF vc
<1>4. credentials' \in Seq(CredentialType)
  BY <1>2, <1>3 DEF VCInv, VCTypeOK
<1> QED
  BY <1>4 DEF Issue, VCInv, VCTypeOK, NowRecorded, Holds, IsValidAt, Under, FailuresWitnessed,
              SuccessWitnessed

LEMMA ShownType ==
  ASSUME VCTypeOK, NEW vc \in Shown
  PROVE  vc \in CredentialType
<1>1. PICK i \in DOMAIN credentials :
        vc \in {credentials[i], [credentials[i] EXCEPT !.proof = {}],
                [credentials[i] EXCEPT !.id = Absent]}
  BY DEF Shown
<1>2. credentials[i] \in CredentialType
  BY DEF VCTypeOK
<1> QED
  BY <1>1, <1>2 DEF CredentialType

LEMMA VerifyStep ==
  ASSUME VCInv, NEW vc \in CredentialType, Verify(vc)
  PROVE  VCInv'
<1> DEFINE c == [vc |-> vc, pc |-> "expiry",
                 errors |-> IF vc.proof # {} THEN {} ELSE {"proof_exists"}]
<1>1. check' = c /\ holding' = {Holds(vc)} /\ UNCHANGED <<credentials, revoked, clock>>
  BY DEF Verify
<1>2. c \in CheckType
  BY DEF CheckType
<1>3. VCTypeOK'
  BY <1>1, <1>2 DEF VCInv, VCTypeOK, Holds
<1>4. Holds(vc)' = Holds(vc)
  BY <1>1 DEF Holds, IsValidAt
<1>5. vc.proof = {} => Holds(vc) = FALSE
  BY DEF Holds
<1> QED
  BY <1>1, <1>3, <1>4, <1>5
  DEF VCInv, NowRecorded, FailuresWitnessed, SuccessWitnessed, Under

(* A check that goes on with what it found. *)
LEMMA PassedStep ==
  ASSUME VCInv, NEW from, NEW to \in {"window", "revocation", "reported"},
         NEW name \in {"not_expired", "valid_time", "not_revoked"}, NEW ok \in BOOLEAN,
         Passed(from, to, name, ok),
         ~ok => Holds(check.vc) = FALSE,
         to # "window" /\ ok /\ check.errors = {} =>
           \/ TRUE \in holding
           \/ to = "revocation" /\ check.vc.id \in revoked
  PROVE  VCInv'
<1> DEFINE errors == IF ok THEN check.errors ELSE check.errors \cup {name}
<1>1. /\ Under /\ check \in CheckType
      /\ check' = [check EXCEPT !.pc = to, !.errors = errors]
      /\ UNCHANGED <<credentials, revoked, clock, holding>>
  BY DEF Passed, Under, VCInv, VCTypeOK
<1>2. /\ check' \in CheckType
      /\ check'.vc = check.vc /\ check'.pc = to /\ check'.errors = errors
  BY <1>1 DEF CheckType
<1>3. VCTypeOK'
  BY <1>1, <1>2 DEF VCInv, VCTypeOK
<1>4. Holds(check.vc)' = Holds(check.vc)
  BY <1>1, <1>2 DEF Holds, IsValidAt
<1>5. NowRecorded'
  BY <1>1, <1>4 DEF VCInv, NowRecorded
<1>6. FailuresWitnessed'
  BY <1>1, <1>2 DEF VCInv, NowRecorded, FailuresWitnessed
<1>7. SuccessWitnessed'
  <2>1. ASSUME errors = {}
        PROVE  ok /\ check.errors = {}
    BY <2>1
  <2>2. Under' /\ check'.errors = {} =>
          /\ check.vc.proof # {}
          /\ to = "revocation" => TRUE \in holding \/ check.vc.id \in revoked
          /\ to = "reported" => TRUE \in holding
    <3> SUFFICES ASSUME check'.errors = {}
                 PROVE  /\ check.vc.proof # {}
                        /\ to = "revocation" => TRUE \in holding \/ check.vc.id \in revoked
                        /\ to = "reported" => TRUE \in holding
      OBVIOUS
    <3>1. ok /\ check.errors = {}
      BY <1>2, <2>1
    <3>2. check.vc.proof # {}
      BY <1>1, <3>1 DEF VCInv, SuccessWitnessed
    <3>3. to # "window" => \/ TRUE \in holding
                           \/ to = "revocation" /\ check.vc.id \in revoked
      BY <3>1
    <3> QED
      BY <3>2, <3>3
  <2>3. UNCHANGED <<revoked, holding>> /\ check'.vc = check.vc /\ check'.pc = to
    BY <1>1, <1>2
  <2> QED
    BY <2>2, <2>3 DEF SuccessWitnessed
<1> QED
  BY <1>3, <1>5, <1>6, <1>7 DEF VCInv

LEMMA VCInvNext == VCInv /\ [VCNext]_vcVars => VCInv'
<1> SUFFICES ASSUME VCInv, [VCNext]_vcVars
             PROVE  VCInv'
  OBVIOUS
<1>1. ASSUME NEW issuer, NEW from \in Instant \cup {Absent}, NEW until \in Instant \cup {Absent},
             Issue(Builder(issuer, from, until))
      PROVE  VCInv'
  BY <1>1, IssueStep DEF Instant, Bound
<1>2. ASSUME NEW issuer, Issue(Builder(issuer, clock, Absent))
      PROVE  VCInv'
  BY <1>2, IssueStep DEF Bound, VCInv, VCTypeOK
<1>3. ASSUME NEW id, Revoke(id)
      PROVE  VCInv'
  BY <1>3, WorldStep DEF Revoke, VCInv, VCTypeOK
<1>4. CASE Tick
  BY <1>4, WorldStep DEF Tick, VCInv, VCTypeOK
<1>5. ASSUME NEW vc \in Shown, Verify(vc)
      PROVE  VCInv'
  BY <1>5, ShownType, VerifyStep DEF VCInv
<1>6. ASSUME Under
      PROVE  /\ check.vc.valid_from \in Bound /\ check.vc.valid_until \in Bound
             /\ clock \in Nat
    BY <1>6 DEF Under, VCInv, VCTypeOK, CheckType, CredentialType
<1>7. CASE CheckExpiry
  <2>1. IsExpired(check.vc) => Holds(check.vc) = FALSE
    BY <1>6, <1>7 DEF CheckExpiry, Passed, Under, IsExpired, Holds, IsValidAt, Bound
  <2>2. IsExpired(check.vc) \in BOOLEAN
    BY DEF IsExpired
  <2> QED
    BY <1>7, <2>1, <2>2, PassedStep DEF CheckExpiry
<1>8. CASE CheckWindow
  <2>1. Under /\ IsValidAt(check.vc, clock) \in BOOLEAN
    BY <1>8 DEF CheckWindow, Passed, Under, IsValidAt
  <2>2. ~IsValidAt(check.vc, clock) => Holds(check.vc) = FALSE
    BY DEF Holds
  <2>3. IsValidAt(check.vc, clock) /\ check.errors = {} =>
          Holds(check.vc) = TRUE \/ check.vc.id \in revoked
    BY <2>1 DEF Holds, VCInv, SuccessWitnessed
  <2> QED
    BY <1>8, <2>1, <2>2, <2>3, PassedStep DEF CheckWindow, VCInv, NowRecorded
<1>9. CASE CheckRevoked
  <2>1. Under /\ check.pc = "revocation"
    BY <1>9 DEF CheckRevoked, Passed, Under
  <2>2. check.vc.id \in revoked => Holds(check.vc) = FALSE
    BY DEF Holds
  <2>3. check.errors = {} => TRUE \in holding \/ check.vc.id \in revoked
    BY <2>1 DEF VCInv, SuccessWitnessed
  <2> QED
    BY <1>9, <2>1, <2>2, <2>3, PassedStep DEF CheckRevoked
<1>10. CASE UNCHANGED vcVars
  BY <1>10 DEF vcVars, VCInv, VCTypeOK, NowRecorded, FailuresWitnessed, SuccessWitnessed, Under,
               Holds, IsValidAt
<1> QED
  BY <1>1, <1>2, <1>3, <1>4, <1>5, <1>7, <1>8, <1>9, <1>10
  DEF VCNext, IssueDelegation, IssueCapability

(* A report of verify is true of one moment between its call and its answer. *)
THEOREM ReportsAreOfOneMoment == VCSpec => []ReportedOfOneMoment
<1>1. VCInv => ReportedOfOneMoment
  BY DEF VCInv, FailuresWitnessed, SuccessWitnessed, ReportedOfOneMoment, Under
<1> QED
  BY <1>1, VCInvInit, VCInvNext, PTL DEF VCSpec

-----------------------------------------------------------------------------
(* Selective disclosure: the n-th token of its history, and what its holder *)
(* makes of it for a verifier.                                              *)

MadeType == [claims : ClaimsArg, hidden : HiddenArg]

(* The names a token can disclose, and a disclosure of one. *)
Names(m) == DOMAIN m.claims \cap m.hidden
Of(history, a) == Disclosure(a[1], a[2], history[a[1]].claims[a[2]])
Given(n, m) == {Disclosure(n, x, m.claims[x]) : x \in Names(m)}

Payloads(n, m) == Payload(m.claims, {DigestOf(d) : d \in Given(n, m)}, m.hidden)

TokenOf(n, m) ==
  [jwt_payload |-> Payloads(n, m), disclosures |-> Given(n, m), key_binding_jwt |-> Nothing]

Token == {TokenOf(n, m) : n \in Nat, m \in MadeType}

(* Sets of pairs of a token and a name that it can disclose. *)
Agreement(history, A) ==
  /\ IsFiniteSet(A)
  /\ \A a \in A : \E k \in DOMAIN history : \E x \in Names(history[k]) : a = <<k, x>>

ShownOf(history, n, A, k) ==
  [token |-> [jwt_payload |-> Payloads(n, history[n]), disclosures |-> {Of(history, a) : a \in A},
              key_binding_jwt |-> k],
   agreed |-> A]

Sent(it) == [parts |-> Compact(it.token), agreed |-> it.agreed]

IsShown(history, it) ==
  \E n \in DOMAIN history : \E A, k : Agreement(history, A) /\ it = ShownOf(history, n, A, k)

SDInv ==
  /\ made \in Seq(MadeType) /\ issued \in Seq(Token)
  /\ Len(made) <= MaxTokens /\ Len(issued) = Len(made)
  /\ \A n \in DOMAIN made : issued[n] = TokenOf(n, made[n])
  /\ shown # Nothing => IsShown(made, shown)
  /\ message # Nothing => \E it : IsShown(made, it) /\ message = Sent(it)

LEMMA SDInvInit == SDInit => SDInv
BY NothingAssumption DEF SDInit, SDInv

LEMMA NewToken ==
  ASSUME SDInv, NEW claims \in ClaimsArg, NEW hidden \in HiddenArg, IssueSdJwt(claims, hidden)
  PROVE  SDInv'
<1> DEFINE n == Len(made) + 1
           m == [claims |-> claims, hidden |-> hidden]
<1>1. /\ made \in Seq(MadeType) /\ issued \in Seq(Token)
      /\ Len(made) <= MaxTokens /\ Len(issued) = Len(made)
      /\ \A i \in DOMAIN made : issued[i] = TokenOf(i, made[i])
  BY DEF SDInv
<1>2. m \in MadeType /\ m.claims = claims /\ m.hidden = hidden
  BY DEF MadeType
<1>3. {Disclosure(n, x, claims[x]) : x \in DOMAIN claims \cap hidden} = Given(n, m)
  BY <1>2 DEF Given, Names
<1>4. /\ issued' = Append(issued, TokenOf(n, m)) /\ made' = Append(made, m)
      /\ shown' = shown /\ message' = message /\ Len(made) < MaxTokens
  <2>1. issued' = Append(issued,
          [jwt_payload |-> Payload(claims, {DigestOf(x) : x \in Given(n, m)}, hidden),
           disclosures |-> Given(n, m), key_binding_jwt |-> Nothing])
    BY <1>3 DEF IssueSdJwt
  <2> HIDE DEF m, n
  <2>2. issued' = Append(issued, TokenOf(n, m))
    BY <1>2, <2>1 DEF TokenOf, Payloads
  <2> QED
    BY <2>2 DEF IssueSdJwt, m, n
<1>5. n \in Nat /\ TokenOf(n, m) \in Token
  BY <1>1, <1>2 DEF Token
<1> HIDE DEF m
<1>6. made' \in Seq(MadeType) /\ issued' \in Seq(Token) /\ Len(made') = n /\ Len(issued') = n
  BY <1>1, <1>2, <1>4, <1>5
<1>7. \A i \in DOMAIN made : i \in DOMAIN made' /\ made'[i] = made[i] /\ issued'[i] = issued[i]
  BY <1>1, <1>2, <1>4, <1>5
<1>8. \A i \in DOMAIN made' : issued'[i] = TokenOf(i, made'[i])
  <2>1. made'[n] = m /\ issued'[n] = TokenOf(n, m)
    BY <1>1, <1>2, <1>4, <1>5
  <2>2. \A i \in DOMAIN made' : i = n \/ i \in DOMAIN made
    BY <1>1, <1>6
  <2> QED
    BY <1>1, <1>7, <2>1, <2>2
<1>9. ASSUME NEW it, IsShown(made, it)
      PROVE  IsShown(made', it)
  <2>1. PICK i, A, k : i \in DOMAIN made /\ Agreement(made, A) /\ it = ShownOf(made, i, A, k)
    BY <1>9 DEF IsShown
  <2>2. Agreement(made', A)
    BY <1>7, <2>1 DEF Agreement
  <2>3. \A a \in A : Of(made', a) = Of(made, a)
    BY <1>7, <2>1 DEF Of, Agreement
  <2>4. {Of(made', a) : a \in A} = {Of(made, a) : a \in A}
    BY <2>3
  <2>5. it = ShownOf(made', i, A, k)
    BY <1>7, <2>1, <2>4 DEF ShownOf
  <2> QED
    BY <1>7, <2>1, <2>2, <2>5 DEF IsShown
<1>10. Len(made') <= MaxTokens /\ Len(issued') = Len(made')
  BY <1>1, <1>4, <1>6, NothingAssumption
<1> QED
  BY <1>4, <1>6, <1>8, <1>9, <1>10 DEF SDInv

(* The holder chooses among the disclosures there are. *)
LEMMA ChoiceIsShown ==
  ASSUME SDInv, NEW names \in HiddenArg, Present(names)
  PROVE  IsShown(made, shown')
<1>1. CASE \E n \in DOMAIN issued :
             shown' = [token |-> [issued[n] EXCEPT !.disclosures = Selected(issued[n], names)],
                       agreed |-> {n} \X (names \cap made[n].hidden \cap DOMAIN made[n].claims)]
  <2>1. PICK n \in DOMAIN issued :
          shown' = [token |-> [issued[n] EXCEPT !.disclosures = Selected(issued[n], names)],
                    agreed |-> {n} \X (names \cap made[n].hidden \cap DOMAIN made[n].claims)]
    BY <1>1
  <2>2. n \in DOMAIN made /\ issued[n] = TokenOf(n, made[n]) /\ made[n] \in MadeType
    BY DEF SDInv
  <2> DEFINE X == names \cap made[n].hidden \cap DOMAIN made[n].claims
             A == {n} \X X
  <2>3. Agreement(made, A)
    <3>1. IsFiniteSet(DOMAIN made[n].claims)
      BY <2>2, ClaimsAssumption DEF MadeType
    <3>2. IsFiniteSet(X)
      BY <3>1, FS_Subset
    <3>3. IsFiniteSet(A)
      BY <3>2, FS_Singleton, FS_Product
    <3> QED
      BY <2>2, <3>3 DEF Agreement, Names
  <2>4. Selected(issued[n], names) = {Of(made, a) : a \in A}
    <3>1. Selected(issued[n], names) = {Disclosure(n, x, made[n].claims[x]) : x \in X}
      BY <2>2 DEF Selected, TokenOf, Given, Names, Disclosure
    <3>2. \A x \in X : <<n, x>> \in A /\ Of(made, <<n, x>>) = Disclosure(n, x, made[n].claims[x])
      BY DEF Of
    <3>3. \A a \in A : \E x \in X : a = <<n, x>>
      OBVIOUS
    <3> HIDE DEF A, X
    <3> QED
      BY <3>1, <3>2, <3>3
  <2> HIDE DEF A
  <2>5. [issued[n] EXCEPT !.disclosures = Selected(issued[n], names)]
          = ShownOf(made, n, A, Nothing).token
    BY <2>2, <2>4 DEF ShownOf, TokenOf
  <2>6. shown' = ShownOf(made, n, A, Nothing)
    BY <2>1, <2>5 DEF ShownOf, A
  <2> QED
    BY <2>2, <2>3, <2>6 DEF IsShown
<1>2. CASE /\ shown # Nothing
           /\ shown' = [token |-> [shown.token EXCEPT
                                     !.disclosures = Selected(shown.token, names)],
                        agreed |-> {a \in shown.agreed : a[2] \in names}]
  <2>1. PICK n, A, k : n \in DOMAIN made /\ Agreement(made, A) /\ shown = ShownOf(made, n, A, k)
    BY <1>2 DEF SDInv, IsShown
  <2> DEFINE B == {a \in A : a[2] \in names}
  <2>2. Agreement(made, B)
    BY <2>1, FS_Subset DEF Agreement
  <2>3. Selected(shown.token, names) = {Of(made, a) : a \in B}
    BY <2>1 DEF ShownOf, Selected, Of, Disclosure
  <2> HIDE DEF B
  <2>4. shown' = ShownOf(made, n, B, k)
    BY <1>2, <2>1, <2>3 DEF ShownOf, B
  <2> QED
    BY <2>1, <2>2, <2>4 DEF IsShown
<1> QED
  BY <1>1, <1>2 DEF Present

LEMMA AttachmentIsShown ==
  ASSUME SDInv, Attach
  PROVE  IsShown(made, shown')
<1>1. PICK n, A, k : n \in DOMAIN made /\ Agreement(made, A) /\ shown = ShownOf(made, n, A, k)
  BY DEF SDInv, IsShown, Attach
<1>2. CASE shown' = [shown EXCEPT !.token.key_binding_jwt = KeyJWT]
  <2>1. shown' = ShownOf(made, n, A, KeyJWT)
    BY <1>1, <1>2 DEF ShownOf
  <2> QED
    BY <1>1, <2>1 DEF IsShown
<1>3. ASSUME NEW t \in Range(issued), NEW d \in t.disclosures,
             shown' = [shown EXCEPT !.token.disclosures = @ \cup {d},
                                    !.agreed = @ \cup {<<d.salt, d.claim_name>>}]
      PROVE  IsShown(made, shown')
  <2>1. PICK i \in DOMAIN made : t = TokenOf(i, made[i])
    BY DEF SDInv, Range
  <2>2. PICK x \in Names(made[i]) : d = Disclosure(i, x, made[i].claims[x])
    BY <2>1 DEF TokenOf, Given
  <2>3. d.salt = i /\ d.claim_name = x /\ d = Of(made, <<i, x>>)
    BY <2>2 DEF Disclosure, Of
  <2> DEFINE B == A \cup {<<i, x>>}
  <2>4. Agreement(made, B)
    BY <1>1, FS_AddElement DEF Agreement
  <2>5. {Of(made, a) : a \in B} = {Of(made, a) : a \in A} \cup {d}
    BY <2>3
  <2> HIDE DEF B
  <2>6. shown' = ShownOf(made, n, B, k)
    BY <1>1, <1>3, <2>3, <2>5 DEF ShownOf, B
  <2> QED
    BY <1>1, <2>4, <2>6 DEF IsShown
<1> QED
  BY <1>2, <1>3 DEF Attach

LEMMA SDInvNext == SDInv /\ [SDNext]_sdVars => SDInv'
<1> SUFFICES ASSUME SDInv, [SDNext]_sdVars
             PROVE  SDInv'
  OBVIOUS
<1>1. ASSUME NEW claims \in ClaimsArg, NEW hidden \in HiddenArg, IssueSdJwt(claims, hidden)
      PROVE  SDInv'
  BY <1>1, NewToken
<1>2. ASSUME NEW names \in HiddenArg, Present(names)
      PROVE  SDInv'
  <2>1. UNCHANGED <<issued, message, made>>
    BY <1>2 DEF Present
  <2> QED
    BY <1>2, <2>1, ChoiceIsShown DEF SDInv
<1>3. CASE Attach
  <2>1. UNCHANGED <<issued, message, made>>
    BY <1>3 DEF Attach
  <2> QED
    BY <1>3, <2>1, AttachmentIsShown DEF SDInv
<1>4. CASE Send
  <2>1. UNCHANGED <<issued, shown, made>> /\ shown # Nothing /\ message' = Sent(shown)
    BY <1>4 DEF Send, Sent
  <2> QED
    BY <2>1 DEF SDInv
<1>5. CASE UNCHANGED sdVars
  BY <1>5 DEF SDInv, sdVars
<1> QED
  BY <1>1, <1>2, <1>3, <1>4, <1>5 DEF SDNext

(* What is sent is what arrives. *)
LEMMA WireKeeps ==
  ASSUME NEW t, NEW D, IsFiniteSet(D), t.disclosures = D,
         \A d \in D : Decode(Encode(d)) = d /\ Encode(d) # Nothing
  PROVE  /\ Parse(Compact(t)).jwt_payload = t.jwt_payload
         /\ Parse(Compact(t)).disclosures = D
<1> DEFINE E == {Encode(d) : d \in D}
           list == SetToSeq(E)
           U == E \cup {t.jwt_payload, t.key_binding_jwt}
           parts == <<t.jwt_payload>> \o list \o <<t.key_binding_jwt>>
<1>1. IsFiniteSet(E)
  <2> DEFINE f == [d \in D |-> Encode(d)]
  <2>1. f \in Surjection(D, E)
    BY DEF Surjection
  <2> HIDE DEF f, E
  <2> QED
    BY <2>1, FS_Surjection
<1>2. Compact(t) = parts
  BY DEF Compact
<1> HIDE DEF E
<1>3. {list[i] : i \in DOMAIN list} = E /\ list \in Seq(E)
  BY <1>1, ListHolds
<1> HIDE DEF list
<1>4. list \in Seq(U) /\ <<t.jwt_payload>> \in Seq(U) /\ <<t.key_binding_jwt>> \in Seq(U)
  <2>1. \A i \in 1 .. Len(list) : list[i] \in U
    BY <1>3, ElementOfSeq
  <2> QED
    BY <1>3, <2>1
<1>5. /\ parts[1] = t.jwt_payload /\ Len(parts) = Len(list) + 2
      /\ \A j \in 2 .. Len(list) + 1 : parts[j] = list[j - 1]
  BY <1>4
<1>6. Len(list) \in Nat /\ DOMAIN list = 1 .. Len(list)
  BY <1>3
<1> HIDE DEF parts
<1>7. {parts[j] : j \in 2 .. Len(parts) - 1} = E
  <2>1. \A j \in 2 .. Len(parts) - 1 : parts[j] = list[j - 1] /\ j - 1 \in DOMAIN list
    BY <1>5, <1>6
  <2>2. \A i \in DOMAIN list : list[i] = parts[i + 1] /\ i + 1 \in 2 .. Len(parts) - 1
    BY <1>5, <1>6
  <2>3. ASSUME NEW j \in 2 .. Len(parts) - 1
        PROVE  parts[j] \in E
    BY <1>3, <2>1
  <2>4. ASSUME NEW e \in E
        PROVE  \E j \in 2 .. Len(parts) - 1 : e = parts[j]
    <3>1. PICK i \in DOMAIN list : e = list[i]
      BY <1>3
    <3>2. i + 1 \in 2 .. Len(parts) - 1 /\ e = parts[i + 1]
      BY <2>2, <3>1
    <3> QED
      BY <3>2
  <2> QED
    BY <2>3, <2>4
<1>8. \A j \in 2 .. Len(parts) - 1 : parts[j] # Nothing
  BY <1>7 DEF E
<1>9. {Decode(parts[j]) : j \in {i \in 2 .. Len(parts) - 1 : parts[i] # Nothing}} = D
  <2>1. {Decode(parts[j]) : j \in 2 .. Len(parts) - 1} = {Decode(e) : e \in E}
    BY <1>7
  <2>2. {Decode(e) : e \in E} = D
    BY DEF E
  <2>3. {j \in 2 .. Len(parts) - 1 : parts[j] # Nothing} = 2 .. Len(parts) - 1
    BY <1>8
  <2> QED
    BY <2>1, <2>2, <2>3
<1> QED
  BY <1>2, <1>5, <1>9 DEF Parse

(* What a payload says of a claim, and where the digests are. *)
Says(p, c, D, hidden) ==
  /\ DOMAIN p = (DOMAIN c \ hidden) \cup {"iss", "_sd_alg"}
                  \cup (IF D = {} THEN {} ELSE {"_sd"})
  /\ p["iss"] = IssuerDID /\ (D # {} => p["_sd"] = D)
  /\ D = {} /\ "_sd" \in DOMAIN c \ hidden => p["_sd"] = c["_sd"]
  /\ \A x \in DOMAIN c \ hidden : x \notin {"iss", "_sd_alg", "_sd"} => p[x] = c[x]

LEMMA PayloadSays ==
  ASSUME NEW c \in ClaimsArg, NEW D, NEW hidden
  PROVE  Says(Payload(c, D, hidden), c, D, hidden)
<1> DEFINE plain == [n \in DOMAIN c \ hidden |-> c[n]]
           signed == Extend(plain, "iss", IssuerDID)
           listed == IF D = {} THEN signed ELSE Extend(signed, "_sd", D)
           p == Extend(listed, "_sd_alg", "sha-256")
<1>1. Payload(c, D, hidden) = p
  BY DEF Payload
<1>2. /\ DOMAIN signed = (DOMAIN c \ hidden) \cup {"iss"} /\ signed["iss"] = IssuerDID
      /\ \A x \in DOMAIN c \ hidden : x # "iss" => signed[x] = c[x]
  BY DEF Extend
<1> HIDE DEF signed
<1>3. /\ DOMAIN listed = DOMAIN signed \cup (IF D = {} THEN {} ELSE {"_sd"})
      /\ D # {} => listed["_sd"] = D
      /\ \A x \in DOMAIN signed : x # "_sd" \/ D = {} => listed[x] = signed[x]
  BY DEF Extend
<1> HIDE DEF listed
<1>4. /\ DOMAIN p = DOMAIN listed \cup {"_sd_alg"}
      /\ \A x \in DOMAIN listed : x # "_sd_alg" => p[x] = listed[x]
  BY DEF Extend
<1> HIDE DEF p
<1>5. Says(p, c, D, hidden)
  BY <1>2, <1>3, <1>4 DEF Says
<1> QED
  BY <1>1, <1>5 DEF p

(* What a verifier makes of a token that is shown. *)
LEMMA VerifierLearns ==
  ASSUME made \in Seq(MadeType), Len(made) <= MaxTokens, NEW n \in DOMAIN made, NEW A,
         Agreement(made, A), NEW t, t.jwt_payload = Payloads(n, made[n]),
         t.disclosures = {Of(made, a) : a \in A}
  PROVE  VerifySdJwt(t) = Expected(n, A)
<1> DEFINE m == made[n]
           c == m.claims
           D == {DigestOf(d) : d \in Given(n, m)}
           p == Payload(c, D, m.hidden)
           digests == IF "_sd" \in DOMAIN p THEN p["_sd"] ELSE {}
           plain == DOMAIN p \ Reserved
           B == {Of(made, a) : a \in A}
           Spoilt == "_sd" \in DOMAIN c /\ DOMAIN c \cap m.hidden = {}
           names == (DOMAIN c \ (m.hidden \cup Reserved)) \cup {a[2] : a \in A}
           verified ==
             [x \in plain \cup {d.claim_name : d \in B} |->
                IF x \in plain THEN p[x]
                ELSE (CHOOSE d \in B : d.claim_name = x).claim_value]
           expected == [x \in names \cup {"iss"} |-> IF x = "iss" THEN IssuerDID ELSE c[x]]
<1>1. m \in MadeType /\ c \in ClaimsArg /\ n \in 1 .. MaxTokens
  <2>1. Len(made) \in Nat /\ n \in 1 .. Len(made)
    OBVIOUS
  <2>2. made[n] \in MadeType
    BY <2>1, ElementOfSeq
  <2>3. n \in 1 .. MaxTokens
    BY <2>1, NothingAssumption
  <2> QED
    BY <2>2, <2>3 DEF MadeType
<1>2. c \in [DOMAIN c -> Value]
  BY <1>1, ClaimsAssumption
<1>3. D \notin Value /\ {} \notin Value
  <2>1. ASSUME NEW x \in Names(m)
        PROVE  DigestOf(Disclosure(n, x, c[x])) \in Digests
    <3>1. x \in UNION {DOMAIN e : e \in ClaimsArg} /\ c[x] \in Value
      BY <1>1, <1>2 DEF Names
    <3> QED
      BY <1>1, <3>1 DEF Digests
  <2>2. D \in SUBSET Digests
    BY <2>1 DEF Given
  <2> QED
    BY <2>2, ValueAssumption
<1>4. D = {} <=> DOMAIN c \cap m.hidden = {}
  BY DEF Given, Names
<1> HIDE DEF D
<1>5. /\ DOMAIN p = (DOMAIN c \ m.hidden) \cup {"iss", "_sd_alg"}
                      \cup (IF D = {} THEN {} ELSE {"_sd"})
      /\ p["iss"] = IssuerDID /\ (D # {} => p["_sd"] = D)
      /\ D = {} /\ "_sd" \in DOMAIN c \ m.hidden => p["_sd"] = c["_sd"]
      /\ \A x \in DOMAIN c \ m.hidden : x \notin {"iss", "_sd_alg", "_sd"} => p[x] = c[x]
  <2> HIDE DEF c
  <2>1. Says(p, c, D, m.hidden)
    BY <1>1, PayloadSays
  <2> HIDE DEF p, m
  <2> QED
    BY <2>1 DEF Says
<1>6. t.jwt_payload = p /\ t.disclosures = B
  BY DEF Payloads, D
<1> HIDE DEF p
<1>7. VerifySdJwt(t) =
        CASE digests \in Value -> Malformed
          [] digests \notin Value /\ ~({DigestOf(d) : d \in B} \subseteq digests) -> Mismatch
          [] OTHER -> verified
  BY <1>6 DEF VerifySdJwt
<1>8. Expected(n, A) = IF Spoilt THEN Malformed
                       ELSE IF \E a \in A : a[1] # n THEN Mismatch ELSE expected
  BY DEF Expected
<1>9. digests \in Value <=> Spoilt
  <2>1. CASE D = {} /\ "_sd" \in DOMAIN c
    BY <1>2, <1>4, <1>5, <2>1
  <2>2. CASE D = {} /\ "_sd" \notin DOMAIN c
    BY <1>3, <1>5, <2>2
  <2>3. CASE D # {}
    BY <1>3, <1>4, <1>5, <2>3
  <2> QED
    BY <2>1, <2>2, <2>3
<1>10. ASSUME ~Spoilt
       PROVE  digests = D
  <2>1. CASE D = {}
    BY <1>4, <1>5, <1>10, <2>1
  <2>2. CASE D # {}
    BY <1>5, <2>2
  <2> QED
    BY <2>1, <2>2
<1>11. \A a \in A : \E k \in DOMAIN made : \E x \in Names(made[k]) :
         a = <<k, x>> /\ Of(made, a) = Disclosure(k, x, made[k].claims[x])
  BY DEF Agreement, Of
<1>12. {DigestOf(d) : d \in B} \subseteq D <=> \A a \in A : a[1] = n
  <2>1. ASSUME NEW a \in A, a[1] = n
        PROVE  DigestOf(Of(made, a)) \in D
    BY <1>11, <2>1 DEF D, Given
  <2>2. ASSUME NEW a \in A, DigestOf(Of(made, a)) \in D
        PROVE  a[1] = n
    <3>1. PICK x \in Names(m) : DigestOf(Of(made, a)) = DigestOf(Disclosure(n, x, c[x]))
      BY <2>2 DEF D, Given
    <3> QED
      BY <1>11, <3>1 DEF DigestOf, Encode, Disclosure
  <2> QED
    BY <2>1, <2>2
<1>13. ASSUME \A a \in A : a[1] = n
       PROVE  verified = expected
  <2>1. \A a \in A : /\ a[2] \in Names(m) /\ Of(made, a).claim_name = a[2]
                      /\ Of(made, a).claim_value = c[a[2]]
    BY <1>11, <1>13 DEF Disclosure
  <2>2. {d.claim_name : d \in B} = {a[2] : a \in A}
    BY <2>1
  <2>3. plain = (DOMAIN c \ (m.hidden \cup Reserved)) \cup {"iss"}
    BY <1>5 DEF Reserved
  <2>4. ASSUME NEW x \in plain
        PROVE  p[x] = IF x = "iss" THEN IssuerDID ELSE c[x]
    BY <1>5, <2>3 DEF Reserved
  <2>5. ASSUME NEW x, x \in {d.claim_name : d \in B}
        PROVE  (CHOOSE d \in B : d.claim_name = x).claim_value = c[x]
    <3>1. \E d : d \in B /\ d.claim_name = x
      BY <2>5
    <3>2. PICK d : d = CHOOSE e \in B : e.claim_name = x
      OBVIOUS
    <3>3. d \in B /\ d.claim_name = x
      BY <3>1, <3>2
    <3>4. d.claim_value = c[x]
      BY <2>1, <3>3
    <3> QED
      BY <3>2, <3>4
  <2>6. "iss" \in plain
    BY <2>3
  <2>7. plain \cup {d.claim_name : d \in B} = names \cup {"iss"}
    BY <2>2, <2>3
  <2> HIDE DEF plain, B, names
  <2>8. ASSUME NEW x \in names \cup {"iss"}
        PROVE  (IF x \in plain THEN p[x] ELSE (CHOOSE d \in B : d.claim_name = x).claim_value)
                 = IF x = "iss" THEN IssuerDID ELSE c[x]
    <3>1. CASE x \in plain
      BY <2>4, <3>1
    <3>2. CASE x \notin plain
      <4>1. x \in {d.claim_name : d \in B} /\ x # "iss"
        BY <2>6, <2>7, <3>2
      <4> QED
        BY <2>5, <3>2, <4>1
    <3> QED
      BY <3>1, <3>2
  <2> QED
    BY <2>7, <2>8
<1> QED
  BY <1>7, <1>8, <1>9, <1>10, <1>12, <1>13

(* A verifier learns what its holder agreed to and what was never hidden, as *)
(* it was issued, and nothing else; no other token's disclosure passes.      *)
THEOREM NoMoreIsLearned == SDSpec => []DisclosedExactly
<1>1. SDInv => DisclosedExactly
  <2> SUFFICES ASSUME SDInv, message # Nothing
               PROVE  \E n \in DOMAIN issued :
                        /\ Parse(message.parts).jwt_payload = issued[n].jwt_payload
                        /\ VerifySdJwt(Parse(message.parts)) = Expected(n, message.agreed)
    BY DEF DisclosedExactly
  <2>1. PICK it : IsShown(made, it) /\ message = Sent(it)
    BY DEF SDInv
  <2>2. PICK n, A, k : n \in DOMAIN made /\ Agreement(made, A) /\ it = ShownOf(made, n, A, k)
    BY <2>1 DEF IsShown
  <2> DEFINE B == {Of(made, a) : a \in A}
             t == [jwt_payload |-> Payloads(n, made[n]), disclosures |-> B, key_binding_jwt |-> k]
  <2>3. message.parts = Compact(t) /\ message.agreed = A
    BY <2>1, <2>2 DEF Sent, ShownOf
  <2>4. made \in Seq(MadeType) /\ Len(made) <= MaxTokens /\ DOMAIN issued = DOMAIN made
    BY DEF SDInv
  <2>5. IsFiniteSet(B)
    <3> DEFINE f == [a \in A |-> Of(made, a)]
    <3>1. IsFiniteSet(A) /\ f \in Surjection(A, B)
      BY <2>2 DEF Agreement, Surjection
    <3> HIDE DEF f, B
    <3> QED
      BY <3>1, FS_Surjection
  <2>6. ASSUME NEW d \in B
        PROVE  Decode(Encode(d)) = d /\ Encode(d) # Nothing
    <3>1. PICK i, x : /\ i \in DOMAIN made /\ x \in Names(made[i])
                      /\ d = Disclosure(i, x, made[i].claims[x])
      BY <2>2 DEF Agreement, Of
    <3>2. DigestOf(d) \in Digests
      <4>1. i \in Nat /\ Len(made) \in Nat /\ i \in 1 .. Len(made)
        BY <2>4, <3>1
      <4>2. made[i] \in MadeType
        BY <2>4, <4>1, ElementOfSeq
      <4>3. PICK c : c = made[i].claims /\ c \in ClaimsArg /\ x \in DOMAIN c
        BY <3>1, <4>2 DEF MadeType, Names
      <4>4. c[x] \in Value
        BY <4>3, ClaimsAssumption
      <4>5. i \in 1 .. MaxTokens
        BY <2>4, <4>1, NothingAssumption
      <4> QED
        BY <3>1, <4>3, <4>4, <4>5 DEF Digests
    <3> QED
      BY <3>1, <3>2, NothingAssumption DEF DigestOf, Encode, Decode, Disclosure
  <2>7. t.jwt_payload = Payloads(n, made[n]) /\ t.disclosures = B
    OBVIOUS
  <2> HIDE DEF t, B
  <2>8. Parse(Compact(t)).jwt_payload = Payloads(n, made[n]) /\ Parse(Compact(t)).disclosures = B
    BY <2>5, <2>6, <2>7, WireKeeps
  <2>9. VerifySdJwt(Parse(Compact(t))) = Expected(n, A)
    <3>1. PICK u : u = Parse(Compact(t))
      OBVIOUS
    <3>2. u.jwt_payload = Payloads(n, made[n]) /\ u.disclosures = {Of(made, a) : a \in A}
      BY <2>8, <3>1 DEF B
    <3>3. VerifySdJwt(u) = Expected(n, A)
      BY <2>2, <2>4, <3>2, VerifierLearns
    <3> QED
      BY <3>1, <3>3
  <2>10. issued[n].jwt_payload = Payloads(n, made[n])
    <3>1. issued[n] = TokenOf(n, made[n])
      BY <2>2 DEF SDInv
    <3> QED
      BY <3>1 DEF TokenOf
  <2> QED
    BY <2>2, <2>3, <2>4, <2>8, <2>9, <2>10
<1> QED
  BY <1>1, SDInvInit, SDInvNext, PTL DEF SDSpec

-----------------------------------------------------------------------------
(* The payment service: its table, and what Stripe sends. *)

Row ==
  [customer_did : DID, stripe_subscription_id : StripeId \cup {Free}, plan_id : Plan,
   status : SubscriptionStatus, usage : SUBSET {UsageRecord}]

StripeEvent ==
  {Event("checkout.session.completed", "active"), Event("invoice.payment_failed", "past_due"),
   Event("invoice.paid", "active"), Event("customer.subscription.deleted", "canceled")}
  \cup {Event("customer.subscription.updated", status) : status \in StripeStatus \ {"canceled"}}

BillingTypes ==
  /\ rows \in Seq(Row)
  /\ checkout \in [StripeId -> SUBSET [customer_did : DID \cup {NoDID}, plan_id : Plan]]
  /\ sent \in [StripeId -> Seq(StripeEvent)]
  /\ seen \in [StripeId -> Nat] /\ orderly \in [StripeId -> BOOLEAN]

(* A subscription begins with the one session there is of it, and a        *)
(* deletion is its last event.                                             *)
StripeInOrder ==
  \A s \in StripeId :
    /\ \A c, x \in checkout[s] : c = x
    /\ sent[s] # <<>> => checkout[s] # {}
    /\ seen[s] <= Len(sent[s])
    /\ \A i \in DOMAIN sent[s] :
         /\ i = 1 <=> sent[s][i].type = "checkout.session.completed"
         /\ sent[s][i].status = "canceled" => i = Len(sent[s])

(* A row is of a session of its customer, and of a status that it was      *)
(* given by an event, unless it is the one it began with.                  *)
OutOfOrder(s) == \E i \in DOMAIN sent[s] : FromStr(sent[s][i].status) # "active"

RowExplained(row) ==
  LET s == row.stripe_subscription_id
  IN  IF s = Free THEN row.status = "active"
      ELSE /\ sent[s] # <<>>
           /\ \E c \in checkout[s] : c.customer_did = row.customer_did
           /\ row.status # "active" => OutOfOrder(s)

RowsExplained == \A i \in DOMAIN rows : RowExplained(rows[i])

(* The rows of a subscription follow the events applied, from the first. *)
Mine(s) == {i \in DOMAIN rows : rows[i].stripe_subscription_id = s}

Mirrored(s, i) ==
  /\ Mine(s) = {i}
  /\ rows[i].customer_did = Session(s).customer_did
  /\ rows[i].status = FromStr(sent[s][seen[s]].status)
  /\ rows[i].plan_id =
       IF sent[s][seen[s]].status = "canceled" THEN "developer" ELSE "startup"

Mirrors ==
  \A s \in StripeId :
    orderly[s] =>
      IF seen[s] = 0 \/ Session(s).customer_did = NoDID THEN Mine(s) = {}
      ELSE \E i \in DOMAIN rows : Mirrored(s, i)

BillingInv == BillingTypes /\ StripeInOrder /\ RowsExplained /\ Mirrors

LEMMA BillingInvInit == BillingInit => BillingInv
<1> SUFFICES ASSUME BillingInit
             PROVE  BillingInv
  OBVIOUS
<1> USE DEF BillingInit
<1>1. <<>> \in Seq(Row) /\ <<>> \in Seq(StripeEvent) /\ Len(<<>>) = 0 /\ DOMAIN <<>> = {}
  OBVIOUS
<1>2. BillingTypes
  BY <1>1 DEF BillingTypes
<1>3. StripeInOrder
  BY <1>1 DEF StripeInOrder
<1>4. RowsExplained
  BY <1>1 DEF RowsExplained
<1>5. Mirrors
  BY <1>1 DEF Mirrors, Mine
<1> QED
  BY <1>2, <1>3, <1>4, <1>5 DEF BillingInv

(* An event that Stripe sends is one more of its subscription. *)
LEMMA EventSent ==
  ASSUME BillingInv, NEW s \in StripeId, NEW e \in StripeEvent, Emit(s, e),
         checkout[s] # {}, sent[s] # <<>> => Last(sent[s]).status # "canceled",
         sent[s] = <<>> <=> e.type = "checkout.session.completed"
  PROVE  BillingInv'
<1> USE DEF BillingInv
<1>1. /\ sent' = [sent EXCEPT ![s] = Append(@, e)]
      /\ UNCHANGED <<rows, service, durable, checkout, seen, orderly>>
  BY DEF Emit, serviceVars, historyVars
<1>2. /\ sent'[s] = Append(sent[s], e) /\ \A x \in StripeId \ {s} : sent'[x] = sent[x]
      /\ \A x \in StripeId : sent[x] \in Seq(StripeEvent)
  BY <1>1 DEF BillingTypes
<1>3. /\ sent'[s] \in Seq(StripeEvent) /\ Len(sent[s]) \in Nat
      /\ Len(sent'[s]) = Len(sent[s]) + 1 /\ sent'[s][Len(sent[s]) + 1] = e
      /\ DOMAIN sent[s] = 1 .. Len(sent[s]) /\ DOMAIN sent'[s] = 1 .. Len(sent[s]) + 1
      /\ \A i \in DOMAIN sent[s] : sent'[s][i] = sent[s][i]
      /\ sent'[s] # <<>>
      /\ sent[s] # <<>> <=> Len(sent[s]) # 0
  BY <1>2, AppendProperties
<1>4. BillingTypes'
  BY <1>1, <1>2, <1>3 DEF BillingTypes
<1>5. StripeInOrder'
  <2>1. ASSUME NEW i \in DOMAIN sent'[s]
        PROVE  /\ i = 1 <=> sent'[s][i].type = "checkout.session.completed"
               /\ sent'[s][i].status = "canceled" => i = Len(sent'[s])
    <3>1. CASE i \in DOMAIN sent[s]
      <4>1. sent[s] # <<>> /\ Last(sent[s]) = sent[s][Len(sent[s])]
        BY <1>3, <3>1 DEF Last
      <4> QED
        BY <1>3, <3>1, <4>1 DEF StripeInOrder
    <3>2. CASE i = Len(sent[s]) + 1
      BY <1>3, <3>2
    <3> QED
      BY <1>3, <2>1, <3>1, <3>2
  <2>2. ASSUME NEW x \in StripeId
        PROVE  seen[x] <= Len(sent'[x])
    <3>1. seen[x] \in Nat /\ seen[x] <= Len(sent[x])
      BY DEF StripeInOrder, BillingTypes
    <3> QED
      BY <1>2, <1>3, <3>1
  <2> QED
    BY <1>1, <1>2, <1>3, <2>1, <2>2 DEF StripeInOrder
<1>6. RowsExplained'
  <2>1. \A x \in StripeId : /\ OutOfOrder(x) => OutOfOrder(x)'
                            /\ sent[x] # <<>> => sent'[x] # <<>>
    BY <1>2, <1>3 DEF OutOfOrder
  <2>2. \A i \in DOMAIN rows : rows[i] \in Row
    BY DEF BillingTypes
  <2>3. \A i \in DOMAIN rows : rows[i].stripe_subscription_id \in StripeId \cup {Free}
    BY <2>2 DEF Row
  <2> QED
    BY <1>1, <2>1, <2>3 DEF RowsExplained, RowExplained
<1>7. Mirrors'
  <2>1. ASSUME NEW x \in StripeId, seen[x] # 0
        PROVE  sent'[x][seen[x]] = sent[x][seen[x]]
    <3>1. seen[x] \in Nat /\ seen[x] <= Len(sent[x]) /\ sent[x] \in Seq(StripeEvent)
      BY DEF StripeInOrder, BillingTypes
    <3>2. seen[x] \in DOMAIN sent[x]
      BY <2>1, <3>1
    <3> QED
      BY <1>2, <1>3, <3>2
  <2>2. \A x : Session(x)' = Session(x) /\ Mine(x)' = Mine(x)
    BY <1>1 DEF Session, Mine
  <2>3. \A x \in StripeId : \A i : seen[x] # 0 /\ Mirrored(x, i) => Mirrored(x, i)'
    BY <1>1, <2>1, <2>2 DEF Mirrored
  <2> QED
    BY <1>1, <2>2, <2>3 DEF Mirrors
<1> QED
  BY <1>4, <1>5, <1>6, <1>7

(* A session opens before anything is known of the subscription. *)
LEMMA SessionOpened ==
  ASSUME BillingInv, NEW s \in StripeId, NEW d \in DID \cup {NoDID}, NEW plan \in Plan,
         OpenSession(s, d, plan)
  PROVE  BillingInv'
<1> USE DEF BillingInv
<1> DEFINE c == [customer_did |-> d, plan_id |-> plan]
<1>1. /\ checkout[s] = {} /\ checkout' = [checkout EXCEPT ![s] = {c}]
      /\ UNCHANGED <<rows, sent, seen, orderly>>
  BY DEF OpenSession, serviceVars, historyVars
<1>2. checkout'[s] = {c} /\ \A x \in StripeId \ {s} : checkout'[x] = checkout[x]
  BY <1>1 DEF BillingTypes
<1>3. c \in [customer_did : DID \cup {NoDID}, plan_id : Plan]
  OBVIOUS
<1> HIDE DEF c
<1>4. BillingTypes'
  BY <1>1, <1>3 DEF BillingTypes
<1>5. StripeInOrder'
  BY <1>1, <1>2 DEF StripeInOrder
<1>6. sent[s] = <<>>
  BY <1>1 DEF StripeInOrder
<1>7. RowsExplained'
  <2>1. \A i \in DOMAIN rows : rows[i] \in Row
    BY DEF BillingTypes
  <2>2. \A i \in DOMAIN rows : rows[i].stripe_subscription_id \in StripeId \cup {Free}
    BY <2>1 DEF Row
  <2>3. \A x : OutOfOrder(x)' <=> OutOfOrder(x)
    BY <1>1 DEF OutOfOrder
  <2> QED
    BY <1>1, <1>2, <1>6, <2>2, <2>3 DEF RowsExplained, RowExplained
<1>8. Mirrors'
  <2>1. \A x \in StripeId \ {s} : Session(x)' = Session(x)
    BY <1>2 DEF Session
  <2>2. \A x : Mine(x)' = Mine(x)
    BY <1>1 DEF Mine
  <2>3. seen[s] = 0
    <3>1. Len(sent[s]) = 0
      BY <1>6
    <3>2. seen[s] \in Nat /\ seen[s] <= Len(sent[s])
      BY DEF BillingTypes, StripeInOrder
    <3> QED
      BY <3>1, <3>2
  <2>4. \A x \in StripeId \ {s} : \A i : Mirrored(x, i) => Mirrored(x, i)'
    BY <1>1, <2>1, <2>2 DEF Mirrored
  <2> QED
    BY <1>1, <2>1, <2>2, <2>3, <2>4 DEF Mirrors
<1> QED
  BY <1>4, <1>5, <1>7, <1>8

(* The steps of the service change the table, and note what they applied. *)
NothingAtStripe == checkout' = checkout /\ sent' = sent

LEMMA StripeStays ==
  ASSUME BillingInv, NothingAtStripe, seen' \in [StripeId -> Nat],
         \A s \in StripeId : seen'[s] <= Len(sent[s])
  PROVE  /\ StripeInOrder'
         /\ \A s : OutOfOrder(s)' <=> OutOfOrder(s)
         /\ \A s : Session(s)' = Session(s)
         /\ \A row : RowExplained(row)' <=> RowExplained(row)
<1> USE DEF BillingInv, NothingAtStripe
<1>1. \A s : OutOfOrder(s)' <=> OutOfOrder(s)
  BY DEF OutOfOrder
<1>2. \A s : Session(s)' = Session(s)
  BY DEF Session
<1>3. \A row : RowExplained(row)' <=> RowExplained(row)
  BY <1>1 DEF RowExplained
<1>4. StripeInOrder'
  BY DEF StripeInOrder
<1> QED
  BY <1>1, <1>2, <1>3, <1>4

(* A row is added to the table, after the others. *)
LEMMA RowAdded ==
  ASSUME rows \in Seq(Row), NEW row \in Row, rows' = Append(rows, row)
  PROVE  /\ rows' \in Seq(Row) /\ Len(rows) \in Nat
         /\ DOMAIN rows = 1 .. Len(rows) /\ DOMAIN rows' = DOMAIN rows \cup {Len(rows) + 1}
         /\ Len(rows) + 1 \notin DOMAIN rows
         /\ \A i \in DOMAIN rows : rows'[i] = rows[i]
         /\ rows'[Len(rows) + 1] = row
         /\ \A s : Mine(s)' = IF s = row.stripe_subscription_id
                                THEN Mine(s) \cup {Len(rows) + 1} ELSE Mine(s)
<1>1. /\ rows' \in Seq(Row) /\ Len(rows) \in Nat
      /\ DOMAIN rows = 1 .. Len(rows) /\ DOMAIN rows' = 1 .. Len(rows) + 1
      /\ \A i \in DOMAIN rows : rows'[i] = rows[i]
      /\ rows'[Len(rows) + 1] = row
  BY AppendProperties
<1>2. DOMAIN rows' = DOMAIN rows \cup {Len(rows) + 1} /\ Len(rows) + 1 \notin DOMAIN rows
  BY <1>1
<1>3. \A s : Mine(s)' = IF s = row.stripe_subscription_id
                          THEN Mine(s) \cup {Len(rows) + 1} ELSE Mine(s)
  BY <1>1, <1>2 DEF Mine
<1> QED
  BY <1>1, <1>2, <1>3

(* A free row leaves the subscriptions' rows as they are. *)
LEMMA FreeRowAdded ==
  ASSUME BillingInv, NEW row \in Row, rows' = Append(rows, row), NothingAtStripe,
         row.stripe_subscription_id = Free, row.status = "active",
         UNCHANGED historyVars
  PROVE  BillingInv'
<1> USE DEF BillingInv, BillingTypes, historyVars
<1>1. /\ seen' \in [StripeId -> Nat] /\ \A s \in StripeId : seen'[s] <= Len(sent[s])
      /\ UNCHANGED <<seen, orderly>>
  BY DEF StripeInOrder
<1>2. BillingTypes'
  BY RowAdded DEF NothingAtStripe
<1>3. StripeInOrder'
  BY <1>1, StripeStays
<1>4. RowsExplained'
  <2>1. RowExplained(row)
    BY DEF RowExplained
  <2>2. \A i \in DOMAIN rows' : RowExplained(rows'[i])
    BY <2>1, RowAdded DEF RowsExplained
  <2> QED
    BY <1>1, <2>2, StripeStays DEF RowsExplained
<1>5. Mirrors'
  <2>1. \A s \in StripeId : Mine(s)' = Mine(s)
    BY RowAdded, NullAssumption
  <2>2. \A s \in StripeId, i \in DOMAIN rows : Mirrored(s, i) => Mirrored(s, i)'
    BY <1>1, <2>1, RowAdded, StripeStays DEF Mirrored, NothingAtStripe
  <2>3. \A s : Session(s)' = Session(s)
    BY <1>1, StripeStays
  <2>4. DOMAIN rows \subseteq DOMAIN rows'
    BY RowAdded
  <2> QED
    BY <1>1, <2>1, <2>2, <2>3, <2>4 DEF Mirrors
<1> QED
  BY <1>2, <1>3, <1>4, <1>5

(* An update changes status and plan of the subscription's rows. *)
LEMMA RowsUpdated ==
  ASSUME rows \in Seq(Row), NEW s, NEW status \in SubscriptionStatus,
         NEW plan \in [Plan -> Plan], rows' = UpdateStatus(s, status, plan)
  PROVE  /\ rows' \in Seq(Row) /\ DOMAIN rows' = DOMAIN rows
         /\ \A i \in DOMAIN rows :
              /\ rows'[i].customer_did = rows[i].customer_did
              /\ rows'[i].stripe_subscription_id = rows[i].stripe_subscription_id
              /\ rows[i].stripe_subscription_id # s => rows'[i] = rows[i]
              /\ rows[i].stripe_subscription_id = s =>
                   rows'[i].status = status /\ rows'[i].plan_id = plan[rows[i].plan_id]
         /\ \A x : Mine(x)' = Mine(x)
<1>1. DOMAIN rows' = DOMAIN rows
  BY DEF UpdateStatus
<1>2. \A i \in DOMAIN rows : rows[i] \in Row
  OBVIOUS
<1>3. ASSUME NEW i \in DOMAIN rows
      PROVE  /\ rows'[i] \in Row
             /\ rows'[i].customer_did = rows[i].customer_did
             /\ rows'[i].stripe_subscription_id = rows[i].stripe_subscription_id
             /\ rows[i].stripe_subscription_id # s => rows'[i] = rows[i]
             /\ rows[i].stripe_subscription_id = s =>
                  rows'[i].status = status /\ rows'[i].plan_id = plan[rows[i].plan_id]
  <2>1. CASE rows[i].stripe_subscription_id # s
    BY <1>2, <2>1 DEF UpdateStatus
  <2>2. CASE rows[i].stripe_subscription_id = s
    <3>1. rows'[i] = [rows[i] EXCEPT !.status = status, !.plan_id = plan[@]]
      BY <2>2 DEF UpdateStatus
    <3>2. rows[i] \in Row /\ plan[rows[i].plan_id] \in Plan
      BY <1>2 DEF Row
    <3> QED
      BY <2>2, <3>1, <3>2 DEF Row
  <2> QED
    BY <2>1, <2>2
<1>4. rows' \in Seq(Row)
  <2>1. Len(rows) \in Nat /\ DOMAIN rows = 1 .. Len(rows)
    OBVIOUS
  <2>2. rows' = [i \in 1 .. Len(rows) |-> rows'[i]]
    BY <2>1 DEF UpdateStatus
  <2>3. \A i \in 1 .. Len(rows) : rows'[i] \in Row
    BY <1>3, <2>1
  <2> QED
    BY <2>1, <2>2, <2>3
<1>5. \A x : Mine(x)' = Mine(x)
  BY <1>1, <1>3 DEF Mine
<1> QED
  BY <1>1, <1>3, <1>4, <1>5

(* What is applied out of order, or again, no longer counts as in order. *)
LEMMA EventApplied ==
  ASSUME BillingInv, NEW s \in StripeId, NEW i \in DOMAIN sent[s], Applied(s, i)
  PROVE  /\ seen' \in [StripeId -> Nat] /\ orderly' \in [StripeId -> BOOLEAN]
         /\ \A x \in StripeId : seen'[x] <= Len(sent[x])
         /\ \A x \in StripeId \ {s} : seen'[x] = seen[x] /\ orderly'[x] = orderly[x]
         /\ orderly'[s] => orderly[s] /\ i = seen[s] + 1 /\ seen'[s] = i
<1> USE DEF BillingInv
<1>1. /\ orderly' = [orderly EXCEPT ![s] = @ /\ i = seen[s] + 1]
      /\ seen' = [seen EXCEPT ![s] = IF i = @ + 1 THEN i ELSE @]
  BY DEF Applied
<1>2. /\ seen[s] \in Nat /\ i \in Nat /\ i <= Len(sent[s]) /\ orderly[s] \in BOOLEAN
      /\ \A x \in StripeId : seen[x] <= Len(sent[x])
  BY DEF BillingTypes, StripeInOrder
<1>3. seen' \in [StripeId -> Nat] /\ \A x \in StripeId \ {s} : seen'[x] = seen[x]
  BY <1>1, <1>2 DEF BillingTypes
<1>4. seen'[s] = IF i = seen[s] + 1 THEN i ELSE seen[s]
  BY <1>1 DEF BillingTypes
<1>5. /\ orderly' \in [StripeId -> BOOLEAN]
      /\ \A x \in StripeId \ {s} : orderly'[x] = orderly[x]
      /\ orderly'[s] = (orderly[s] /\ i = seen[s] + 1)
  BY <1>1 DEF BillingTypes
<1> QED
  BY <1>2, <1>3, <1>4, <1>5

(* Events and what they are of. *)
LEMMA EventIs ==
  ASSUME BillingInv, NEW s \in StripeId, NEW i \in DOMAIN sent[s]
  PROVE  /\ sent[s][i] \in StripeEvent /\ i \in Nat /\ i >= 1
         /\ FromStr(sent[s][i].status) \in SubscriptionStatus
         /\ sent[s] # <<>>
         /\ i = 1 <=> sent[s][i].type = "checkout.session.completed"
         /\ i = 1 => sent[s][i].status = "active"
         /\ i = 1 \/ sent[s][i - 1].status # "canceled"
         /\ Session(s) \in checkout[s] /\ Session(s).customer_did \in DID \cup {NoDID}
<1> USE DEF BillingInv
<1>1. /\ sent[s] \in Seq(StripeEvent) /\ Len(sent[s]) \in Nat
      /\ DOMAIN sent[s] = 1 .. Len(sent[s])
  BY DEF BillingTypes
<1>2. sent[s][i] \in StripeEvent /\ i \in Nat /\ i >= 1 /\ sent[s] # <<>>
  BY <1>1
<1>3. FromStr(sent[s][i].status) \in SubscriptionStatus
  BY DEF FromStr, SubscriptionStatus
<1>4. i = 1 <=> sent[s][i].type = "checkout.session.completed"
  BY DEF StripeInOrder
<1>5. sent[s][i].type = "checkout.session.completed" => sent[s][i].status = "active"
  BY <1>2 DEF StripeEvent, Event
<1>6. i = 1 \/ sent[s][i - 1].status # "canceled"
  <2>1. i # 1 => i - 1 \in DOMAIN sent[s] /\ i - 1 # Len(sent[s])
    BY <1>1, <1>2
  <2> QED
    BY <2>1 DEF StripeInOrder
<1>7. Session(s) \in checkout[s]
  BY <1>2 DEF StripeInOrder, Session
<1>8. Session(s).customer_did \in DID \cup {NoDID}
  BY <1>7 DEF BillingTypes
<1> QED
  BY <1>2, <1>3, <1>4, <1>5, <1>6, <1>7, <1>8

(* What the other subscriptions' rows say is left as it is. *)
Elsewhere(s) ==
  /\ seen' \in [StripeId -> Nat] /\ orderly' \in [StripeId -> BOOLEAN]
  /\ \A x \in StripeId : seen'[x] <= Len(sent[x])
  /\ \A x \in StripeId \ {s} :
       /\ seen'[x] = seen[x] /\ orderly'[x] = orderly[x]
       /\ Mine(x)' = Mine(x) /\ \A i \in Mine(x) : i \in DOMAIN rows' /\ rows'[i] = rows[i]

LEMMA OthersMirror ==
  ASSUME BillingInv, NothingAtStripe, NEW s \in StripeId, Elsewhere(s),
         NEW x \in StripeId \ {s}, orderly'[x]
  PROVE  IF seen'[x] = 0 \/ Session(x)'.customer_did = NoDID THEN Mine(x)' = {}
         ELSE \E i \in DOMAIN rows' : Mirrored(x, i)'
<1> USE DEF BillingInv, Elsewhere
<1>1. Session(x)' = Session(x)
  BY StripeStays
<1>2. \A i : Mirrored(x, i) => i \in DOMAIN rows' /\ Mirrored(x, i)'
  <2>1. ASSUME NEW i, Mirrored(x, i)
        PROVE  i \in DOMAIN rows' /\ Mirrored(x, i)'
    <3>1. i \in Mine(x)
      BY <2>1 DEF Mirrored
    <3>2. i \in DOMAIN rows' /\ rows'[i] = rows[i]
      BY <3>1
    <3> QED
      BY <1>1, <2>1, <3>2 DEF Mirrored, NothingAtStripe
  <2> QED
    BY <2>1
<1>3. CASE seen[x] = 0 \/ Session(x).customer_did = NoDID
  BY <1>1, <1>3 DEF Mirrors
<1>4. CASE ~(seen[x] = 0 \/ Session(x).customer_did = NoDID)
  BY <1>1, <1>2, <1>4 DEF Mirrors
<1> QED
  BY <1>3, <1>4

(* A completed checkout makes the first row of its subscription. *)
LEMMA CheckoutApplied ==
  ASSUME BillingInv, NothingAtStripe, NEW s \in StripeId, NEW i \in DOMAIN sent[s],
         sent[s][i].type = "checkout.session.completed", Session(s).customer_did # NoDID,
         NEW row \in Row, rows' = Append(rows, row), row.stripe_subscription_id = s,
         row.customer_did = Session(s).customer_did, row.status = "active",
         row.plan_id = "startup", Applied(s, i)
  PROVE  BillingInv'
<1> USE DEF BillingInv
<1>1. /\ seen' \in [StripeId -> Nat] /\ orderly' \in [StripeId -> BOOLEAN]
      /\ \A x \in StripeId : seen'[x] <= Len(sent[x])
      /\ \A x \in StripeId \ {s} : seen'[x] = seen[x] /\ orderly'[x] = orderly[x]
      /\ orderly'[s] => orderly[s] /\ i = seen[s] + 1 /\ seen'[s] = i
  BY EventApplied
<1>2. rows \in Seq(Row)
  BY DEF BillingTypes
<1>3. BillingTypes'
  BY <1>1, <1>2, RowAdded DEF BillingTypes, NothingAtStripe
<1>4. StripeInOrder'
  BY <1>1, StripeStays
<1>5. i = 1 /\ sent[s][i].status = "active" /\ sent[s] # <<>> /\ Session(s) \in checkout[s]
  BY EventIs
<1>6. RowsExplained'
  <2>1. RowExplained(row)
    BY <1>5, NullAssumption DEF RowExplained
  <2>2. \A k \in DOMAIN rows' : RowExplained(rows'[k])
    BY <1>2, <2>1, RowAdded DEF RowsExplained
  <2> QED
    BY <1>1, <2>2, StripeStays DEF RowsExplained
<1>7. Elsewhere(s)
  <2>1. \A x : Mine(x) \subseteq DOMAIN rows
    BY DEF Mine
  <2> QED
    BY <1>1, <1>2, <2>1, RowAdded DEF Elsewhere
<1>8. PICK at : at = Len(rows) + 1
  OBVIOUS
<1>9. ASSUME orderly'[s]
      PROVE  seen'[s] = 1 /\ Mirrored(s, at)' /\ at \in DOMAIN rows'
  <2>1. seen'[s] = 1 /\ seen[s] = 0 /\ orderly[s]
    BY <1>1, <1>5, <1>9 DEF BillingTypes
  <2>2. Mine(s) = {}
    BY <2>1 DEF Mirrors
  <2>3. Mine(s)' = {at} /\ rows'[at] = row
    BY <1>2, <1>8, <2>2, RowAdded
  <2>4. FromStr("active") = "active"
    BY DEF FromStr
  <2>5. Session(s)' = Session(s)
    BY <1>1, StripeStays
  <2>6. at \in DOMAIN rows'
    BY <1>2, <1>8, RowAdded
  <2>7. sent' = sent
    BY DEF NothingAtStripe
  <2> QED
    BY <1>5, <2>1, <2>3, <2>4, <2>5, <2>6, <2>7 DEF Mirrored
<1>10. Mirrors'
  <2>1. Session(s)' = Session(s)
    BY <1>1, StripeStays
  <2>2. ASSUME NEW x \in StripeId, orderly'[x]
        PROVE  IF seen'[x] = 0 \/ Session(x)'.customer_did = NoDID THEN Mine(x)' = {}
               ELSE \E k \in DOMAIN rows' : Mirrored(x, k)'
    <3>1. CASE x = s
      <4>1. Session(s)'.customer_did # NoDID /\ seen'[s] # 0
        BY <1>9, <2>1, <2>2, <3>1
      <4> QED
        BY <1>9, <2>2, <3>1, <4>1
    <3>2. CASE x # s
      BY <1>7, <2>2, <3>2, OthersMirror
    <3> QED
      BY <3>1, <3>2
  <2> QED
    BY <2>2 DEF Mirrors
<1> QED
  BY <1>3, <1>4, <1>6, <1>10

(* One that names no customer is passed over. *)
LEMMA CheckoutDropped ==
  ASSUME BillingInv, NothingAtStripe, NEW s \in StripeId, NEW i \in DOMAIN sent[s],
         Session(s).customer_did = NoDID, rows' = rows, Applied(s, i)
  PROVE  BillingInv'
<1> USE DEF BillingInv
<1>1. /\ seen' \in [StripeId -> Nat] /\ orderly' \in [StripeId -> BOOLEAN]
      /\ \A x \in StripeId : seen'[x] <= Len(sent[x])
      /\ \A x \in StripeId \ {s} : seen'[x] = seen[x] /\ orderly'[x] = orderly[x]
      /\ orderly'[s] => orderly[s] /\ i = seen[s] + 1 /\ seen'[s] = i
  BY EventApplied
<1>2. BillingTypes' /\ StripeInOrder'
  BY <1>1, StripeStays DEF BillingTypes, NothingAtStripe
<1>3. RowsExplained'
  BY <1>1, StripeStays DEF RowsExplained
<1>4. \A x : Mine(x)' = Mine(x) /\ Mine(x) \subseteq DOMAIN rows
  BY DEF Mine
<1>5. Elsewhere(s)
  BY <1>1, <1>4 DEF Elsewhere
<1>6. Session(s)' = Session(s)
  BY <1>1, StripeStays
<1>7. orderly'[s] => Mine(s) = {}
  BY <1>1 DEF Mirrors
<1>8. Mirrors'
  <2>1. ASSUME NEW x \in StripeId, orderly'[x]
        PROVE  IF seen'[x] = 0 \/ Session(x)'.customer_did = NoDID THEN Mine(x)' = {}
               ELSE \E k \in DOMAIN rows' : Mirrored(x, k)'
    <3>1. CASE x = s
      BY <1>4, <1>6, <1>7, <2>1, <3>1
    <3>2. CASE x # s
      BY <1>5, <2>1, <3>2, OthersMirror
    <3> QED
      BY <3>1, <3>2
  <2> QED
    BY <2>1 DEF Mirrors
<1> QED
  BY <1>2, <1>3, <1>8

(* Every other event is an update, to the status that the event is of. *)
PlanAfter(e) == IF e.status = "canceled" THEN Downgrade ELSE SamePlan

LEMMA DispatchIs ==
  ASSUME NEW s, NEW e \in StripeEvent, e.type # "checkout.session.completed"
  PROVE  /\ DispatchEvent(s, e) = UpdateStatus(s, FromStr(e.status), PlanAfter(e))
         /\ PlanAfter(e) \in [Plan -> Plan]
         /\ PlanAfter(e)["startup"] = IF e.status = "canceled" THEN "developer" ELSE "startup"
<1>1. FromStr("canceled") = "canceled" /\ FromStr("past_due") = "past_due"
      /\ FromStr("active") = "active"
  BY DEF FromStr, SubscriptionStatus
<1>2. DispatchEvent(s, e) = UpdateStatus(s, FromStr(e.status), PlanAfter(e))
  <2>1. CASE e = Event("invoice.payment_failed", "past_due")
    BY <1>1, <2>1 DEF DispatchEvent, PaymentFailed, PlanAfter, Event
  <2>2. CASE e = Event("invoice.paid", "active")
    BY <1>1, <2>2 DEF DispatchEvent, InvoicePaid, PlanAfter, Event
  <2>3. CASE e = Event("customer.subscription.deleted", "canceled")
    BY <1>1, <2>3 DEF DispatchEvent, SubscriptionDeleted, PlanAfter, Event
  <2>4. ASSUME NEW status \in StripeStatus \ {"canceled"},
               e = Event("customer.subscription.updated", status)
        PROVE  DispatchEvent(s, e) = UpdateStatus(s, FromStr(e.status), PlanAfter(e))
    BY <2>4 DEF DispatchEvent, SubscriptionUpdated, PlanAfter, Event
  <2>5. e # Event("checkout.session.completed", "active")
    BY DEF Event
  <2> QED
    BY <2>1, <2>2, <2>3, <2>4, <2>5 DEF StripeEvent
<1>3. PlanAfter(e) \in [Plan -> Plan]
  BY DEF PlanAfter, Downgrade, SamePlan, Plan
<1>4. PlanAfter(e)["startup"] = IF e.status = "canceled" THEN "developer" ELSE "startup"
  BY DEF PlanAfter, Downgrade, SamePlan, Plan
<1> QED
  BY <1>2, <1>3, <1>4

LEMMA NothingChanges ==
  ASSUME BillingInv, UNCHANGED <<rows, checkout, sent, seen, orderly>>
  PROVE  BillingInv'
<1> USE DEF BillingInv
<1>1. BillingTypes' /\ StripeInOrder'
  BY DEF BillingTypes, StripeInOrder
<1>2. RowsExplained'
  BY DEF RowsExplained, RowExplained, OutOfOrder
<1>3. \A s : Session(s)' = Session(s) /\ Mine(s)' = Mine(s)
  BY DEF Mine, Session
<1>4. \A s, i : Mirrored(s, i)' <=> Mirrored(s, i)
  BY <1>3 DEF Mirrored
<1>5. Mirrors'
  BY <1>3, <1>4 DEF Mirrors
<1> QED
  BY <1>1, <1>2, <1>5

LEMMA UpdateApplied ==
  ASSUME BillingInv, NothingAtStripe, NEW s \in StripeId, NEW i \in DOMAIN sent[s],
         sent[s][i].type # "checkout.session.completed",
         rows' = DispatchEvent(s, sent[s][i]), Applied(s, i)
  PROVE  BillingInv'
<1> USE DEF BillingInv
<1> DEFINE e == sent[s][i]
<1>1. /\ seen' \in [StripeId -> Nat] /\ orderly' \in [StripeId -> BOOLEAN]
      /\ \A x \in StripeId : seen'[x] <= Len(sent[x])
      /\ \A x \in StripeId \ {s} : seen'[x] = seen[x] /\ orderly'[x] = orderly[x]
      /\ orderly'[s] => orderly[s] /\ i = seen[s] + 1 /\ seen'[s] = i
  BY EventApplied
<1>2. /\ e \in StripeEvent /\ i \in Nat /\ i > 1
      /\ FromStr(e.status) \in SubscriptionStatus
      /\ sent[s][i - 1].status # "canceled"
      /\ sent[s] # <<>>
  BY EventIs
<1>3. /\ rows' = UpdateStatus(s, FromStr(e.status), PlanAfter(e))
      /\ PlanAfter(e) \in [Plan -> Plan]
      /\ PlanAfter(e)["startup"] = IF e.status = "canceled" THEN "developer" ELSE "startup"
  BY <1>2, DispatchIs
<1> HIDE DEF e
<1>4. rows \in Seq(Row)
  BY DEF BillingTypes
<1>5. /\ rows' \in Seq(Row) /\ DOMAIN rows' = DOMAIN rows
      /\ \A k \in DOMAIN rows :
           /\ rows'[k].customer_did = rows[k].customer_did
           /\ rows'[k].stripe_subscription_id = rows[k].stripe_subscription_id
           /\ rows[k].stripe_subscription_id # s => rows'[k] = rows[k]
           /\ rows[k].stripe_subscription_id = s =>
                /\ rows'[k].status = FromStr(e.status)
                /\ rows'[k].plan_id = PlanAfter(e)[rows[k].plan_id]
      /\ \A x : Mine(x)' = Mine(x)
  BY <1>2, <1>3, <1>4, RowsUpdated
<1>6. BillingTypes'
  BY <1>1, <1>5 DEF BillingTypes, NothingAtStripe
<1>7. StripeInOrder'
  BY <1>1, StripeStays
<1>8. RowsExplained'
  <2>1. ASSUME NEW k \in DOMAIN rows
        PROVE  RowExplained(rows'[k])
    <3>1. RowExplained(rows[k])
      BY DEF RowsExplained
    <3>2. CASE rows[k].stripe_subscription_id # s
      BY <1>5, <3>1, <3>2
    <3>3. CASE rows[k].stripe_subscription_id = s
      <4>1. FromStr(e.status) # "active" => OutOfOrder(s)
        BY DEF OutOfOrder, e
      <4> QED
        BY <1>5, <3>1, <3>3, <4>1, NullAssumption DEF RowExplained
    <3> QED
      BY <3>2, <3>3
  <2> QED
    BY <1>1, <1>5, <2>1, StripeStays DEF RowsExplained
<1>9. Elsewhere(s)
  BY <1>1, <1>5 DEF Elsewhere, Mine
<1>10. Session(s)' = Session(s)
  BY <1>1, StripeStays
<1>11. ASSUME orderly'[s], Session(s).customer_did # NoDID
       PROVE  seen'[s] # 0 /\ \E k \in DOMAIN rows' : Mirrored(s, k)'
  <2>1. orderly[s] /\ seen[s] = i - 1 /\ seen[s] # 0 /\ seen'[s] = i
    BY <1>1, <1>2, <1>11 DEF BillingTypes
  <2>2. PICK k \in DOMAIN rows : Mirrored(s, k)
    BY <1>11, <2>1 DEF Mirrors
  <2>3. /\ rows[k].stripe_subscription_id = s /\ rows[k].plan_id = "startup"
        /\ Mine(s) = {k} /\ rows[k].customer_did = Session(s).customer_did
    BY <1>2, <2>1, <2>2 DEF Mirrored, Mine
  <2>4. sent'[s][seen'[s]] = e
    BY <2>1 DEF NothingAtStripe, e
  <2>5. Mirrored(s, k)'
    BY <1>3, <1>5, <1>10, <2>3, <2>4 DEF Mirrored
  <2> QED
    BY <1>2, <1>5, <2>1, <2>5
<1>12. ASSUME orderly'[s], Session(s).customer_did = NoDID
       PROVE  Mine(s)' = {}
  BY <1>1, <1>5, <1>12 DEF Mirrors
<1>13. Mirrors'
  <2>1. ASSUME NEW x \in StripeId, orderly'[x]
        PROVE  IF seen'[x] = 0 \/ Session(x)'.customer_did = NoDID THEN Mine(x)' = {}
               ELSE \E k \in DOMAIN rows' : Mirrored(x, k)'
    <3>1. CASE x = s
      BY <1>10, <1>11, <1>12, <2>1, <3>1
    <3>2. CASE x # s
      BY <1>9, <2>1, <3>2, OthersMirror
    <3> QED
      BY <3>1, <3>2
  <2> QED
    BY <2>1 DEF Mirrors
<1> QED
  BY <1>6, <1>7, <1>8, <1>13

(* What the inserts write, with the usage record or without. *)
LEMMA RowsMade ==
  ASSUME NEW d \in DID, NEW s \in StripeId \cup {Free}, NEW plan \in Plan
  PROVE  LET sub == Subscription(d, s, plan)
             used == [sub EXCEPT !.usage = {UsageRecord}]
         IN  /\ sub \in Row /\ used \in Row
             /\ \A row \in {sub, used} :
                  /\ row.customer_did = d /\ row.stripe_subscription_id = s
                  /\ row.plan_id = plan /\ row.status = "active"
BY DEF Subscription, Row, SubscriptionStatus

(* A delivery of an event, whichever it is. *)
LEMMA WebhookKeeps ==
  ASSUME BillingInv, NEW s \in StripeId, NEW i \in DOMAIN sent[s], NEW delivery,
         Webhook(s, i, delivery)
  PROVE  BillingInv'
<1>1. NothingAtStripe
  BY DEF Webhook, stripeVars, NothingAtStripe
<1>2. Session(s).customer_did \in DID \cup {NoDID}
  BY EventIs
<1>3. CASE sent[s][i].type = "checkout.session.completed" /\ Session(s).customer_did # NoDID
  <2> DEFINE sub == CheckoutCompleted(s)
             used == [sub EXCEPT !.usage = {UsageRecord}]
  <2>1. /\ sub \in Row /\ used \in Row
        /\ \A row \in {sub, used} :
             /\ row.customer_did = Session(s).customer_did /\ row.stripe_subscription_id = s
             /\ row.plan_id = "startup" /\ row.status = "active"
    <3>1. "startup" \in Plan /\ Session(s).customer_did \in DID
      BY <1>2, <1>3 DEF Plan
    <3> QED
      BY <3>1, RowsMade DEF CheckoutCompleted, DeterminePlan
  <2>2. \/ rows' = Append(rows, used) /\ Applied(s, i)
        \/ rows' = Append(rows, sub) /\ Applied(s, i)
        \/ rows' = rows /\ UNCHANGED historyVars
    BY <1>3 DEF Webhook, CreateSubscription, InsertPanics
  <2> HIDE DEF sub, used
  <2>3. CASE rows' = Append(rows, used) /\ Applied(s, i)
    BY <1>1, <1>3, <2>1, <2>3, CheckoutApplied
  <2>4. CASE rows' = Append(rows, sub) /\ Applied(s, i)
    BY <1>1, <1>3, <2>1, <2>4, CheckoutApplied
  <2>5. CASE rows' = rows /\ UNCHANGED historyVars
    BY <1>1, <2>5, NothingChanges DEF historyVars, NothingAtStripe
  <2> QED
    BY <2>2, <2>3, <2>4, <2>5
<1>4. CASE sent[s][i].type = "checkout.session.completed" /\ Session(s).customer_did = NoDID
  <2>1. rows' = rows /\ Applied(s, i)
    BY <1>4 DEF Webhook
  <2> QED
    BY <1>1, <1>4, <2>1, CheckoutDropped
<1>5. CASE sent[s][i].type # "checkout.session.completed"
  <2>1. rows' = DispatchEvent(s, sent[s][i]) /\ Applied(s, i)
    BY <1>5 DEF Webhook
  <2> QED
    BY <1>1, <1>5, <2>1, UpdateApplied
<1> QED
  BY <1>3, <1>4, <1>5

(* A restart keeps the table, or starts another with nothing in order that *)
(* was applied before.                                                     *)
LEMMA RestartKeeps ==
  ASSUME BillingInv, Restart
  PROVE  BillingInv'
<1> USE DEF BillingInv
<1>1. /\ rows' = IF durable THEN rows ELSE <<>>
      /\ orderly' = [s \in StripeId |-> orderly[s] /\ (durable \/ seen[s] = 0)]
      /\ NothingAtStripe /\ seen' = seen
  BY DEF Restart, stripeVars, NothingAtStripe
<1>2. StripeInOrder' /\ \A row : RowExplained(row)' <=> RowExplained(row)
  BY <1>1, StripeStays DEF BillingTypes, StripeInOrder
<1>3. orderly' \in [StripeId -> BOOLEAN]
  <2>1. \A s \in StripeId : (orderly[s] /\ (durable \/ seen[s] = 0)) \in BOOLEAN
    OBVIOUS
  <2> QED
    BY <1>1, <2>1
<1>4. <<>> \in Seq(Row) /\ DOMAIN <<>> = {}
  OBVIOUS
<1>5. \A s \in StripeId : orderly'[s] = (orderly[s] /\ (durable \/ seen[s] = 0))
  BY <1>1
<1>6. BillingTypes'
  BY <1>1, <1>3, <1>4 DEF BillingTypes, NothingAtStripe
<1>7. CASE durable
  <2>1. rows' = rows /\ \A s \in StripeId : orderly'[s] = orderly[s]
    BY <1>1, <1>5, <1>7 DEF BillingTypes
  <2>2. RowsExplained'
    BY <1>2, <2>1 DEF RowsExplained
  <2>3. Mirrors'
    BY <1>1, <2>1 DEF Mirrors, Mirrored, Mine, Session, NothingAtStripe
  <2> QED
    BY <1>2, <1>6, <2>2, <2>3
<1>8. CASE ~durable
  <2>1. rows' = <<>> /\ \A s \in StripeId : orderly'[s] => seen[s] = 0
    BY <1>1, <1>5, <1>8
  <2>2. RowsExplained' /\ \A s : Mine(s)' = {}
    BY <1>4, <2>1 DEF RowsExplained, Mine
  <2>3. Mirrors'
    BY <1>1, <2>1, <2>2 DEF Mirrors
  <2> QED
    BY <1>2, <1>6, <2>2, <2>3
<1> QED
  BY <1>7, <1>8

(* The newest row of a customer is one of its rows. *)
LEMMA NewestRow ==
  ASSUME BillingInv, NEW d, RowsOf(d) # {}
  PROVE  /\ SubscriptionOf(d) \in Row
         /\ \E i \in DOMAIN rows : SubscriptionOf(d) = rows[i] /\ rows[i].customer_did = d
<1>1. rows \in Seq(Row)
  BY DEF BillingInv, BillingTypes
<1>2. Len(rows) \in Nat /\ DOMAIN rows = 1 .. Len(rows)
  BY <1>1
<1>3. RowsOf(d) \in SUBSET (0 .. Len(rows))
  BY <1>2 DEF RowsOf
<1>4. Max(RowsOf(d)) \in RowsOf(d)
  BY <1>2, <1>3, GreatestMember
<1>5. PICK i : i = Max(RowsOf(d))
  OBVIOUS
<1>6. i \in DOMAIN rows /\ rows[i].customer_did = d
  BY <1>4, <1>5 DEF RowsOf
<1>7. SubscriptionOf(d) = rows[i]
  BY <1>5 DEF SubscriptionOf
<1> QED
  BY <1>1, <1>6, <1>7

LEMMA BillingInvNext == BillingInv /\ [BillingNext]_billingVars => BillingInv'
<1> SUFFICES ASSUME BillingInv, [BillingNext]_billingVars
             PROVE  BillingInv'
  OBVIOUS
<1> USE DEF BillingInv
<1>1. PriceMap \subseteq Plan /\ "developer" \in Plan
  BY PriceMapAssumption DEF Plan
<1>2. ASSUME NEW s \in StripeId, OpenElsewhere(s)
      PROVE  BillingInv'
  BY <1>1, <1>2, SessionOpened DEF OpenElsewhere
<1>3. ASSUME NEW s \in StripeId, Paid(s)
      PROVE  BillingInv'
  <2>1. Event("checkout.session.completed", "active") \in StripeEvent
    BY DEF StripeEvent
  <2> QED
    BY <1>3, <2>1, EventSent DEF Paid, Event
<1>4. ASSUME NEW s \in StripeId, NEW e \in StripeEvent,
             e.type # "checkout.session.completed", sent[s] # <<>>,
             Last(sent[s]).status # "canceled", Emit(s, e)
      PROVE  BillingInv'
  <2>1. checkout[s] # {}
    BY <1>4 DEF StripeInOrder
  <2> QED
    BY <1>4, <2>1, EventSent
<1>5. ASSUME NEW s \in StripeId, Change(s)
      PROVE  BillingInv'
  <2>1. \A status \in StripeStatus \ {"canceled"} :
          /\ Event("customer.subscription.updated", status) \in StripeEvent
          /\ Event("customer.subscription.updated", status).type
               # "checkout.session.completed"
    BY DEF StripeEvent, Event
  <2>2. \A e \in {Event("invoice.payment_failed", "past_due"), Event("invoice.paid", "active"),
                  Event("customer.subscription.deleted", "canceled")} :
          e \in StripeEvent /\ e.type # "checkout.session.completed"
    BY DEF StripeEvent, Event
  <2>3. PICK e \in StripeEvent : e.type # "checkout.session.completed" /\ Emit(s, e)
    BY <1>5, <2>1, <2>2 DEF Change
  <2> QED
    BY <1>4, <1>5, <2>3 DEF Change
<1>6. ASSUME NEW s \in StripeId, NEW i \in DOMAIN sent[s], NEW delivery \in Delivery,
             Webhook(s, i, delivery)
      PROVE  BillingInv'
  BY <1>6, WebhookKeeps
<1>7. ASSUME NEW d \in DID, NEW plan \in Plan, CreateCheckoutSession(d, plan)
      PROVE  BillingInv'
  <2>1. ASSUME NEW s \in StripeId, OpenSession(s, d, plan)
        PROVE  BillingInv'
    BY <2>1, SessionOpened
  <2>2. CASE /\ CreateSubscription(FreeTier(d)) \/ InsertPanics(FreeTier(d))
             /\ UNCHANGED <<durable, stripeVars, historyVars, registrarVars>>
    <3> DEFINE sub == FreeTier(d)
               used == [sub EXCEPT !.usage = {UsageRecord}]
    <3>1. /\ sub \in Row /\ used \in Row
          /\ \A row \in {sub, used} :
               row.stripe_subscription_id = Free /\ row.status = "active"
      BY <1>1, RowsMade DEF FreeTier
    <3>2. rows' = Append(rows, used) \/ rows' = Append(rows, sub) \/ rows' = rows
      BY <2>2 DEF CreateSubscription, InsertPanics
    <3>3. NothingAtStripe /\ UNCHANGED historyVars
      BY <2>2 DEF NothingAtStripe, stripeVars
    <3> HIDE DEF sub, used
    <3>4. CASE rows' = Append(rows, used)
      BY <3>1, <3>3, <3>4, FreeRowAdded
    <3>5. CASE rows' = Append(rows, sub)
      BY <3>1, <3>3, <3>5, FreeRowAdded
    <3>6. CASE rows' = rows
      BY <3>3, <3>6, NothingChanges DEF NothingAtStripe, historyVars
    <3> QED
      BY <3>2, <3>4, <3>5, <3>6
  <2> QED
    BY <1>7, <2>1, <2>2 DEF CreateCheckoutSession
<1>8. ASSUME NEW d \in DID, CreatePortalSession(d)
      PROVE  BillingInv'
  <2> DEFINE s == SubscriptionOf(d).stripe_subscription_id
  <2>1. SubscriptionOf(d) \in Row /\ \E i \in DOMAIN rows : SubscriptionOf(d) = rows[i]
    BY <1>8, NewestRow DEF CreatePortalSession
  <2>2. /\ s # Free /\ Last(sent[s]).status # "canceled"
        /\ Emit(s, Event("customer.subscription.deleted", "canceled"))
    BY <1>8 DEF CreatePortalSession, PortalSession
  <2>3. s \in StripeId /\ sent[s] # <<>>
    BY <2>1, <2>2 DEF Row, RowsExplained, RowExplained
  <2>4. /\ Event("customer.subscription.deleted", "canceled") \in StripeEvent
        /\ Event("customer.subscription.deleted", "canceled").type
             # "checkout.session.completed"
    BY DEF StripeEvent, Event
  <2> HIDE DEF s
  <2> QED
    BY <1>4, <2>2, <2>3, <2>4
<1>9. ASSUME NEW d \in DID, Ask(d) \/ CreateAgent(d)
      PROVE  BillingInv'
  BY <1>9, NothingChanges DEF Ask, CreateAgent, serviceVars, stripeVars, historyVars
<1>10. CASE Restart
  BY <1>10, RestartKeeps
<1>11. CASE UNCHANGED billingVars
  BY <1>11, NothingChanges DEF billingVars, serviceVars, stripeVars, historyVars
<1> QED
  BY <1>2, <1>3, <1>5, <1>6, <1>7, <1>8, <1>9, <1>10, <1>11 DEF BillingNext

LEMMA BillingInvariant == BillingSpec => []BillingInv
BY BillingInvInit, BillingInvNext, PTL DEF BillingSpec

(* Of a subscription whose events came once and in order there is one row, *)
(* of its customer, with Stripe's status and the plan that goes with it,   *)
(* whatever becomes of other subscriptions; or none, if it names nobody.   *)
THEOREM RowsFollowStripe == BillingSpec => []FollowsStripe
<1>1. ASSUME BillingInv
      PROVE  FollowsStripe
  <2>1. ASSUME NEW s \in StripeId, orderly[s], seen[s] > 0, Session(s).customer_did # NoDID
        PROVE  \E i \in DOMAIN rows : Mirrored(s, i)
    <3>1. seen[s] # 0
      BY <2>1
    <3> QED
      BY <1>1, <2>1, <3>1 DEF BillingInv, Mirrors
  <2>2. ASSUME NEW s \in StripeId, orderly[s], seen[s] > 0, Session(s).customer_did = NoDID
        PROVE  Mine(s) = {}
    BY <1>1, <2>2 DEF BillingInv, Mirrors
  <2> QED
    BY <2>1, <2>2 DEF FollowsStripe, Mirrored, Mine
<1> QED
  BY <1>1, BillingInvariant, PTL

(* A customer is refused only for a subscription of its own that has been   *)
(* out of order at Stripe: neither lost, late or repeated events nor panics *)
(* and restarts, nor another customer, can bring it about.                  *)
THEOREM RefusalsHaveReasons == BillingSpec => []RefusedForAReason
<1>1. ASSUME BillingInv, NEW d \in DID, ~Validate(d)
      PROVE  \E s \in StripeId :
               /\ \E c \in checkout[s] : c.customer_did = d
               /\ \E i \in DOMAIN sent[s] : FromStr(sent[s][i].status) # "active"
  <2> DEFINE sub == SubscriptionOf(d)
  <2>1. RowsOf(d) # {} /\ ~(sub.status = "active" /\
          \A limit \in GetPlan(sub.plan_id).did_limit : DidsCreated(sub) < limit)
    BY <1>1 DEF Validate
  <2>2. sub \in Row /\ \E i \in DOMAIN rows : sub = rows[i] /\ rows[i].customer_did = d
    BY <1>1, <2>1, NewestRow
  <2> HIDE DEF sub
  <2>3. DidsCreated(sub) = 0
    <3>1. sub.usage = {} \/ sub.usage = {UsageRecord}
      BY <2>2 DEF Row
    <3>2. \A u \in {UsageRecord} : u.dids_created = 0
      BY DEF UsageRecord
    <3>3. sub.usage # {} => (CHOOSE u \in sub.usage : TRUE) \in {UsageRecord}
      BY <3>1
    <3> QED
      BY <3>2, <3>3 DEF DidsCreated
  <2>4. \A limit \in GetPlan(sub.plan_id).did_limit : 0 < limit
    <3>1. sub.plan_id \in Plan
      BY <2>2 DEF Row
    <3> QED
      BY <3>1 DEF GetPlan, AllPlans
  <2>5. sub.status # "active"
    BY <2>1, <2>3, <2>4
  <2>6. RowExplained(sub)
    BY <1>1, <2>2 DEF BillingInv, RowsExplained
  <2>7. sub.stripe_subscription_id \in StripeId
    BY <2>2, <2>5, <2>6 DEF Row, RowExplained
  <2> QED
    BY <2>2, <2>5, <2>6, <2>7, NullAssumption DEF RowExplained, OutOfOrder
<1>2. BillingInv => RefusedForAReason
  BY <1>1 DEF RefusedForAReason
<1> QED
  BY <1>2, BillingInvariant, PTL
==============================================================================
