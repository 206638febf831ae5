-------------------------------- MODULE SDJWT --------------------------------
(***************************************************************************)
(* Selective disclosure.  An issuer takes some of the claims out of the    *)
(* payload and puts digests of disclosures in their place; a holder passes *)
(* the payload on with some of the disclosures; a verifier puts the claims *)
(* together again.  Claims are functions from names to values; the salt of *)
(* a disclosure stands as the number of its token, since it is drawn anew  *)
(* for each.                                                               *)
(***************************************************************************)
EXTENDS Naturals, Sequences, FiniteSets, SequencesExt

CONSTANTS
  ClaimsArg,  \* the claims that issuers are given
  HiddenArg,  \* the names they are to hide
  Value,      \* the values of claims
  IssuerDID,
  KeyJWT,     \* a key binding JWT
  Nothing,    \* no such JWT, no token, nothing between two separators
  Malformed,  \* verify's InvalidFormat
  Mismatch,   \* verify's DigestMismatch
  MaxTokens   \* bound: the tokens issued

VARIABLES
  issued,   \* the SD-JWTs their holder has, in order
  shown,    \* the SD-JWT made of one of them for a verifier
  message,  \* its compact form on the way
  made      \* history: the claims each was issued with, and the names hidden

(* shown and message have a history beside them: "agreed" is what the      *)
(* holder chose to disclose, as pairs of a token and a name.               *)

sdVars == <<issued, shown, message, made>>

SDInit ==
  /\ issued = <<>> /\ made = <<>>
  /\ shown = Nothing /\ message = Nothing

(* The names the format uses for itself. *)
Reserved == {"_sd", "_sd_alg"}

Disclosure(salt, n, v) == [salt |-> salt, claim_name |-> n, claim_value |-> v]

(* encode and decode: a JSON array of three. *)
Encode(d) == <<d.salt, d.claim_name, d.claim_value>>
Decode(array) == Disclosure(array[1], array[2], array[3])

(* Equal for equal disclosures only: SHA-256 of the encoded form. *)
DigestOf(d) == <<"sha256", Encode(d)>>

(* What the values of claims are not: a set of digests, where one is looked *)
(* for; and a disclosure on the wire is something.                          *)
Digests ==
  {DigestOf(Disclosure(salt, n, v)) :
     salt \in 1 .. MaxTokens, n \in UNION {DOMAIN c : c \in ClaimsArg}, v \in Value}

ASSUME ClaimsAssumption ==
  \A c \in ClaimsArg : IsFiniteSet(DOMAIN c) /\ c \in [DOMAIN c -> Value]
ASSUME ValueAssumption == \A digests \in SUBSET Digests : digests \notin Value
ASSUME NothingAssumption == MaxTokens \in Nat /\ \A digest \in Digests : digest[2] # Nothing

Extend(f, n, v) == [x \in DOMAIN f \cup {n} |-> IF x = n THEN v ELSE f[x]]

(* The payload: the claims that are not hidden, the issuer whatever was    *)
(* given, the digests where there are any, and the algorithm.              *)
Payload(claims, digests, hidden) ==
  LET plain == [n \in DOMAIN claims \ hidden |-> claims[n]]
      signed == Extend(plain, "iss", IssuerDID)
      listed == IF digests = {} THEN signed ELSE Extend(signed, "_sd", digests)
  IN  Extend(listed, "_sd_alg", "sha-256")

IssueSdJwt(claims, hidden) ==
  LET d == {Disclosure(Len(made) + 1, n, claims[n]) : n \in DOMAIN claims \cap hidden}
  IN  /\ Len(made) < MaxTokens
      /\ issued' = Append(issued,
           [jwt_payload |-> Payload(claims, {DigestOf(x) : x \in d}, hidden),
            disclosures |-> d,
            key_binding_jwt |-> Nothing])
      /\ made' = Append(made, [claims |-> claims, hidden |-> hidden])
      /\ UNCHANGED <<shown, message>>

(* Bug: nothing chosen is taken for everything. *)
BugSelected(t, names) ==
  {d \in t.disclosures : names = {} \/ d.claim_name \in names}

Selected(t, names) == {d \in t.disclosures : d.claim_name \in names}

(* present, of a token as it was issued or as it is already shown. *)
Present(names) ==
  /\ \/ \E n \in DOMAIN issued :
          shown' = [token |-> [issued[n] EXCEPT !.disclosures = Selected(issued[n], names)],
                    agreed |-> {n} \X (names \cap made[n].hidden \cap DOMAIN made[n].claims)]
     \/ /\ shown # Nothing
        /\ shown' = [token |-> [shown.token EXCEPT
                                  !.disclosures = Selected(shown.token, names)],
                     agreed |-> {a \in shown.agreed : a[2] \in names}]
  /\ UNCHANGED <<issued, message, made>>

(* The fields of a token are its holder's to set: a key binding JWT, or the *)
(* disclosure of another token.                                             *)
Attach ==
  /\ shown # Nothing
  /\ \/ shown' = [shown EXCEPT !.token.key_binding_jwt = KeyJWT]
     \/ \E t \in Range(issued) : \E d \in t.disclosures :
          shown' = [shown EXCEPT !.token.disclosures = @ \cup {d},
                                 !.agreed = @ \cup {<<d.salt, d.claim_name>>}]
  /\ UNCHANGED <<issued, message, made>>

(* compact: the payload, the disclosures, and after the last separator the *)
(* key binding JWT or nothing.                                             *)
Compact(t) ==
  <<t.jwt_payload>> \o SetToSeq({Encode(d) : d \in t.disclosures}) \o <<t.key_binding_jwt>>

Parse(parts) ==
  [jwt_payload |-> parts[1],
   disclosures |-> {Decode(parts[i]) : i \in {j \in 2 .. Len(parts) - 1 : parts[j] # Nothing}},
   key_binding_jwt |-> parts[Len(parts)]]

Send ==
  /\ shown # Nothing
  /\ message' = [parts |-> Compact(shown.token), agreed |-> shown.agreed]
  /\ UNCHANGED <<issued, shown, made>>

(* verify: a claim of the payload takes the place of a disclosed one of the *)
(* same name.                                                               *)
VerifySdJwt(t) ==
  LET payload == t.jwt_payload
      digests == IF "_sd" \in DOMAIN payload THEN payload["_sd"] ELSE {}
      plain == DOMAIN payload \ Reserved
  IN  CASE digests \in Value -> Malformed
        [] digests \notin Value /\ ~({DigestOf(d) : d \in t.disclosures} \subseteq digests) -> Mismatch
        [] OTHER ->
             [n \in plain \cup {d.claim_name : d \in t.disclosures} |->
                IF n \in plain
                  THEN payload[n]
                  ELSE (CHOOSE d \in t.disclosures : d.claim_name = n).claim_value]

SDNext ==
  \/ \E claims \in ClaimsArg, hidden \in HiddenArg : IssueSdJwt(claims, hidden)
  \/ \E names \in HiddenArg : Present(names)
  \/ Attach
  \/ Send

SDSpec == SDInit /\ [][SDNext]_sdVars

-----------------------------------------------------------------------------
(* What a verifier has to make of the n-th token when its holder agreed to *)
(* disclose the pairs of agreed: a claim named _sd, issued with nothing    *)
(* hidden, stands where the digests would be and spoils the token.         *)
Expected(n, agreed) ==
  LET c == made[n].claims
      names == (DOMAIN c \ (made[n].hidden \cup Reserved)) \cup {a[2] : a \in agreed}
  IN  IF "_sd" \in DOMAIN c /\ DOMAIN c \cap made[n].hidden = {} THEN Malformed
      ELSE IF \E a \in agreed : a[1] # n THEN Mismatch
      ELSE [x \in names \cup {"iss"} |-> IF x = "iss" THEN IssuerDID ELSE c[x]]

(* Of a token that went through any choices of its holder and over the wire *)
(* a verifier learns the claims that were never hidden and those its holder *)
(* agreed to disclose, each with the value it was issued with, the issuer   *)
(* as the issuer's own, and nothing else; a disclosure of another token is  *)
(* refused, be it of the same claim and value (verifier.rs, "Checks that    *)
(* the digest is present in the `_sd` array").                              *)
DisclosedExactly ==
  message # Nothing =>
    \E n \in DOMAIN issued :
      /\ Parse(message.parts).jwt_payload = issued[n].jwt_payload
      /\ VerifySdJwt(Parse(message.parts)) = Expected(n, message.agreed)
==============================================================================
