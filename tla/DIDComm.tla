------------------------------- MODULE DIDComm -------------------------------
(****************************************************************************)
(* Messages between agents: what they carry, how they are packed, and how a *)
(* router finds the handler that answers them.  A body is what a handler    *)
(* reads of it; an attachment is there or not; times are left out, since    *)
(* no handler asks whether a message has expired.  In this version of the   *)
(* envelope the payload is encoded and not encrypted: packing adds a header *)
(* and a tag, which is a signature or a digest.                             *)
(****************************************************************************)
EXTENDS Naturals, Sequences, SequencesExt

CONSTANTS
  DID,           \* the agents; a DID's key goes by its name
  async_routes,  \* agent -> message type -> handler, as it set up its router
  sync_routes,
  Absent         \* an optional field without a value, an error

TRUST_PING == "trust-ping/2.0/ping"
TRUST_PING_RESPONSE == "trust-ping/2.0/ping-response"
AGENT_AUTH_REQUEST == "agent-auth/1.0/request"
AGENT_AUTH_RESPONSE == "agent-auth/1.0/response"

(* An attachment holds JSON, base64 or links. *)
JsonAttachment(id, value) == [id |-> id, type |-> "json", value |-> value]

(* The builder: what is not given is absent.  response_requested is what   *)
(* the protocols put into the body; one attachment is all they make.       *)
Builder(id, type) ==
  [id |-> id, type |-> type, from |-> Absent, to |-> <<>>, thid |-> Absent,
   response_requested |-> Absent, attachment |-> Absent]

TrustPing(id, from, to, requested) ==
  [Builder(id, TRUST_PING) EXCEPT
     !.from = from, !.to = to, !.response_requested = requested]

TrustPingResponse(id, from, to, thid) ==
  [Builder(id, TRUST_PING_RESPONSE) EXCEPT !.from = from, !.to = <<to>>, !.thid = thid]

AuthRequest(id, from, to) ==
  [Builder(id, AGENT_AUTH_REQUEST) EXCEPT !.from = from, !.to = to]

AuthResponse(id, from, to, thid, proof) ==
  [Builder(id, AGENT_AUTH_RESPONSE) EXCEPT
     !.from = from, !.to = <<to>>, !.thid = thid, !.attachment = JsonAttachment("delegation-chain", proof)]

(* The builder's thid: the message goes on in a thread that is there. *)
InThread(m, thid) == [m EXCEPT !.thid = thid]

(* A message starts a thread when it is in none. *)
ThreadId(m) == IF m.thid = Absent THEN m.id ELSE m.thid

ExtractDelegationProof(m) ==
  IF /\ m.type = AGENT_AUTH_RESPONSE /\ m.attachment # Absent
     /\ m.attachment.id = "delegation-chain" /\ m.attachment.type = "json"
    THEN m.attachment.value
    ELSE Absent

(* to.first()? and from.as_ref()? *)
CanAnswer(m) == m.to # <<>> /\ m.from # Absent

(* Bug: no answer unless one is asked for. *)
BugHandlePing(id, m) ==
  IF m.type = TRUST_PING /\ m.response_requested = TRUE /\ CanAnswer(m)
    THEN TrustPingResponse(id, Head(m.to), m.from, m.id)
    ELSE Absent

(* A response is requested unless the body says that it is not.  It names  *)
(* the ping's id as its thread, in whatever thread the ping is.            *)
HandlePing(id, m) ==
  IF m.type = TRUST_PING /\ m.response_requested # FALSE /\ CanAnswer(m)
    THEN TrustPingResponse(id, Head(m.to), m.from, m.id)
    ELSE Absent

HandleAuthRequest(id, m, proof) ==
  IF m.type = AGENT_AUTH_REQUEST /\ CanAnswer(m)
    THEN AuthResponse(id, Head(m.to), m.from, m.id, proof)
    ELSE Absent

(* Router::route: an async handler before a sync one for the same type. *)
Route(d, type) ==
  CASE type \in DOMAIN async_routes[d] -> async_routes[d][type]
    [] type \notin DOMAIN async_routes[d] /\ type \in DOMAIN sync_routes[d] ->
         sync_routes[d][type]
    [] OTHER -> "NoHandler"

(* What agent d sends back; its handlers call the protocols'. *)
Response(id, d, m) ==
  CASE Route(d, m.type) = "TrustPing" -> HandlePing(id, m)
    [] Route(d, m.type) = "AgentAuth" -> HandleAuthRequest(id, m, d)
    [] OTHER -> Absent

-----------------------------------------------------------------------------
(* A signature stands as the key it was made with. *)
SignPayload(key) == key
VerifyPayload(key, signature) == signature = key

KeyId(key) == <<"sha256", key>>

ASSUME AbsentAssumption == Absent \notin DID \cup {KeyId(d) : d \in DID}

PackMode == {"Authcrypt", "Anoncrypt", "Signed"}

ProtectedHeader(mode, key) ==
  [alg  |-> IF mode = "Signed" THEN "EdDSA" ELSE "ECDH-ES+A256KW",
   skid |-> IF mode = "Anoncrypt" THEN Absent ELSE KeyId(key)]

(* The envelope of one of the three modes; the two with a sender need its  *)
(* key.                                                                    *)
Pack(m, key, mode) ==
  IF mode # "Anoncrypt" /\ key = Absent
    THEN Absent
    ELSE [protected |-> ProtectedHeader(mode, key),
          ciphertext |-> m,
          tag |-> IF mode = "Anoncrypt" THEN "digest" ELSE SignPayload(key)]

(* Bug: only what is signed and not encrypted is checked. *)
BugUnpack(e, senderKey) ==
  IF senderKey # Absent /\ e.protected.alg = "EdDSA" /\ ~VerifyPayload(senderKey, e.tag)
    THEN Absent
    ELSE e.ciphertext

(* A signature is checked when the receiver gives a key to check it with;  *)
(* the digest of an anonymous envelope never is.                           *)
Unpack(e, senderKey) ==
  IF /\ senderKey # Absent
     /\ e.protected.alg = "EdDSA" \/ e.protected.skid # Absent
     /\ ~VerifyPayload(senderKey, e.tag)
    THEN Absent
    ELSE e.ciphertext
==============================================================================
