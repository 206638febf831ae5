-------------------------- MODULE CredentialIssuance --------------------------
(***************************************************************************)
(* An issuer's flow of OID4VCI (OID4VCIFlow): one current offer and one    *)
(* access token, which several wallets may meet.  The value of a token is  *)
(* never compared, so that a token is the offer it was made under; the     *)
(* value of a PIN is not compared either, only that there is one.          *)
(***************************************************************************)
EXTENDS Naturals

CONSTANTS
  Wallet,
  Definition,  \* CredentialDefinition: a format and types
  Code,        \* pre-authorized codes
  Empty,       \* the empty string, as a code, a URL or an id
  IssuerURL,
  MaxOffers,   \* bound: the offers made
  None         \* no offer, no token, no PIN, no answer

Offer ==
  [credential_issuer : {IssuerURL}, credentials : SUBSET Definition,
   grants : [pre_authorized_code : Code, user_pin_required : BOOLEAN]]

ASSUME NoneAssumption == None \notin Nat \cup [serial : Nat, of : Offer]

VARIABLES
  current_offer,
  access_token,  \* the serial of the offer it was made under
  held,          \* wallet -> the definitions it was served a credential of
  answer,        \* the last answer of request_credential
  offers,        \* history: the number of offers made
  exchanges,     \* history: who exchanged which offer's code, with a PIN or not
  served         \* history: the offers that something was served of

issuanceVars ==
  <<current_offer, access_token, held, answer, offers, exchanges, served>>

IssuanceInit ==
  /\ current_offer = None /\ access_token = None /\ answer = None
  /\ held = [w \in Wallet |-> {}]
  /\ offers = 0 /\ exchanges = {} /\ served = {}

PreAuthorizedCodeGrant(code, required) ==
  [pre_authorized_code |-> code, user_pin_required |-> required]

CredentialOffer(credentials, grants) ==
  [credential_issuer |-> IssuerURL, credentials |-> credentials, grants |-> grants]

(* CredentialOffer::validate *)
ValidOffer(offer) ==
  /\ offer.credential_issuer # Empty
  /\ offer.credentials # {}
  /\ offer.grants.pre_authorized_code # Empty

(* create_offer: an offer that is not valid changes nothing; a valid one   *)
(* takes the place of the one before and leaves its token where it is.     *)
CreateOffer(credentials, code, required) ==
  LET offer == CredentialOffer(credentials, PreAuthorizedCodeGrant(code, required)) IN
    /\ offers < MaxOffers
    /\ ValidOffer(offer)
    /\ offers' = offers + 1
    /\ current_offer' = [serial |-> offers + 1, of |-> offer]
    /\ UNCHANGED <<access_token, held, answer, exchanges, served>>

PRE_AUTHORIZED_CODE_GRANT_TYPE == "pre-authorized_code"

TokenRequest ==
  [grant_type : {PRE_AUTHORIZED_CODE_GRANT_TYPE, "authorization_code"},
   pre_authorized_code : Code,
   user_pin : {None, "pin"}]

(* The token is the flow's from now on; when it expires is written in the  *)
(* response and nowhere else.                                              *)
TokenResponse(w, request) ==
  /\ access_token' = current_offer.serial
  /\ exchanges' = exchanges \cup
       {[wallet |-> w, offer |-> current_offer.serial, pin |-> request.user_pin # None]}
  /\ UNCHANGED <<current_offer, held, answer, offers, served>>

(* Bug: nobody asks whether a PIN is required. *)
BugExchangeToken(w, request) ==
  /\ request.grant_type = PRE_AUTHORIZED_CODE_GRANT_TYPE
  /\ current_offer # None
  /\ request.pre_authorized_code = current_offer.of.grants.pre_authorized_code
  /\ TokenResponse(w, request)

(* exchange_token: the code is not spent, and any PIN will do. *)
ExchangeToken(w, request) ==
  /\ request.grant_type = PRE_AUTHORIZED_CODE_GRANT_TYPE
  /\ current_offer # None
  /\ request.pre_authorized_code = current_offer.of.grants.pre_authorized_code
  /\ current_offer.of.grants.user_pin_required => request.user_pin # None
  /\ TokenResponse(w, request)

(* request_credential.  A CredentialRequest is the definition it names; its *)
(* proof of possession is not looked at.                                    *)
Granted(d) ==
  /\ access_token # None
  /\ current_offer # None
  /\ d \in current_offer.of.credentials

CredentialResponse(w, d) ==
  /\ held' = [held EXCEPT ![w] = @ \cup {d}]
  /\ served' = served \cup
       {[offer |-> current_offer.serial,
         pin |-> current_offer.of.grants.user_pin_required]}

(* Bug: the token is spent by the first request it serves. *)
BugRequestCredential(w, d) ==
  /\ answer' = [to |-> w, for |-> d, granted |-> Granted(d)]
  /\ IF Granted(d)
       THEN CredentialResponse(w, d) /\ access_token' = None
       ELSE UNCHANGED <<held, served, access_token>>
  /\ UNCHANGED <<current_offer, offers, exchanges>>

RequestCredential(w, d) ==
  /\ answer' = [to |-> w, for |-> d, granted |-> Granted(d)]
  /\ IF Granted(d) THEN CredentialResponse(w, d) ELSE UNCHANGED <<held, served>>
  /\ UNCHANGED <<current_offer, access_token, offers, exchanges>>

IssuanceNext ==
  \/ \E creds \in SUBSET Definition, code \in Code, required \in BOOLEAN :
       CreateOffer(creds, code, required)
  \/ \E w \in Wallet :
       \/ \E request \in TokenRequest : ExchangeToken(w, request)
       \/ \E d \in Definition : RequestCredential(w, d)

IssuanceSpec == IssuanceInit /\ [][IssuanceNext]_issuanceVars

-----------------------------------------------------------------------------
(* Whatever is served of an offer, somebody had exchanged a code for: the  *)
(* offer's own, with a PIN where the offer requires one, or that of an     *)
(* earlier offer, whose token outlives it (issuance.rs, "call              *)
(* exchange_token first").                                                 *)
ServedExplained ==
  \A s \in served : \E x \in exchanges :
    x.offer < s.offer \/ (x.offer = s.offer /\ (s.pin => x.pin))

(* A wallet that exchanged the code of the offer that stands is not refused *)
(* what the offer names, whatever other wallets did in between: a code and  *)
(* a token serve as often as they are used.                                 *)
OfferIsKept ==
  [][answer' # answer /\ ~answer'.granted =>
       \A x \in exchanges :
         \/ x.wallet # answer'.to
         \/ x.offer # current_offer.serial
         \/ answer'.for \notin current_offer.of.credentials]_issuanceVars
==============================================================================
