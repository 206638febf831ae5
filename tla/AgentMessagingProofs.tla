------------------------ MODULE AgentMessagingProofs ------------------------
(***************************************************************************)
(* Theorems on agents that talk through the mediator, for every set of     *)
(* agents and routes, forms of envelope, and requests.                     *)
(***************************************************************************)
EXTENDS AgentMessaging, Induction, SequenceTheorems, FiniteSetTheorems

-----------------------------------------------------------------------------
(* Lemmas: what the builder makes, what a body says and for whom. *)

(* The message with these fields, as the only member of its set. *)
Only(id, type, from, to, thid, requested, attachment) ==
  [id : {id}, type : {type}, from : {from}, to : {to}, thid : {thid},
   response_requested : {requested}, attachment : {attachment}]

LEMMA BuilderMakes ==
  ASSUME NEW id, NEW type
  PROVE  Builder(id, type) \in Only(id, type, Absent, <<>>, Absent, Absent, Absent)
BY DEF Builder, Only

LEMMA TrustPingMakes ==
  ASSUME NEW id, NEW from, NEW to, NEW requested
  PROVE  TrustPing(id, from, to, requested)
           \in Only(id, TRUST_PING, from, to, Absent, requested, Absent)
<1> DEFINE m == Builder(id, TRUST_PING)
<1>1. m \in Only(id, TRUST_PING, Absent, <<>>, Absent, Absent, Absent)
  BY BuilderMakes
<1> HIDE DEF m
<1>2. [m EXCEPT !.from = from, !.to = to, !.response_requested = requested]
        \in Only(id, TRUST_PING, from, to, Absent, requested, Absent)
  BY <1>1 DEF Only
<1> QED
  BY <1>2 DEF TrustPing, m

LEMMA TrustPingResponseMakes ==
  ASSUME NEW id, NEW from, NEW to, NEW thid
  PROVE  TrustPingResponse(id, from, to, thid)
           \in Only(id, TRUST_PING_RESPONSE, from, <<to>>, thid, Absent, Absent)
<1> DEFINE m == Builder(id, TRUST_PING_RESPONSE)
<1>1. m \in Only(id, TRUST_PING_RESPONSE, Absent, <<>>, Absent, Absent, Absent)
  BY BuilderMakes
<1> HIDE DEF m
<1>2. [m EXCEPT !.from = from, !.to = <<to>>, !.thid = thid]
        \in Only(id, TRUST_PING_RESPONSE, from, <<to>>, thid, Absent, Absent)
  BY <1>1 DEF Only
<1> QED
  BY <1>2 DEF TrustPingResponse, m

LEMMA AuthRequestMakes ==
  ASSUME NEW id, NEW from, NEW to
  PROVE  AuthRequest(id, from, to)
           \in Only(id, AGENT_AUTH_REQUEST, from, to, Absent, Absent, Absent)
<1> DEFINE m == Builder(id, AGENT_AUTH_REQUEST)
<1>1. m \in Only(id, AGENT_AUTH_REQUEST, Absent, <<>>, Absent, Absent, Absent)
  BY BuilderMakes
<1> HIDE DEF m
<1>2. [m EXCEPT !.from = from, !.to = to]
        \in Only(id, AGENT_AUTH_REQUEST, from, to, Absent, Absent, Absent)
  BY <1>1 DEF Only
<1> QED
  BY <1>2 DEF AuthRequest, m

LEMMA AuthResponseMakes ==
  ASSUME NEW id, NEW from, NEW to, NEW thid, NEW proof
  PROVE  AuthResponse(id, from, to, thid, proof)
           \in Only(id, AGENT_AUTH_RESPONSE, from, <<to>>, thid, Absent,
                    JsonAttachment("delegation-chain", proof))
<1> DEFINE m == Builder(id, AGENT_AUTH_RESPONSE)
           chain == JsonAttachment("delegation-chain", proof)
<1>1. m \in Only(id, AGENT_AUTH_RESPONSE, Absent, <<>>, Absent, Absent, Absent)
  BY BuilderMakes
<1> HIDE DEF m, chain
<1>2. [m EXCEPT !.from = from, !.to = <<to>>, !.thid = thid, !.attachment = chain]
        \in Only(id, AGENT_AUTH_RESPONSE, from, <<to>>, thid, Absent, chain)
  BY <1>1 DEF Only
<1> QED
  BY <1>2 DEF AuthResponse, m, chain

LEMMA InThreadMakes ==
  ASSUME NEW id, NEW type, NEW from, NEW to, NEW requested, NEW attachment, NEW thid,
         NEW m \in Only(id, type, from, to, Absent, requested, attachment)
  PROVE  InThread(m, thid) \in Only(id, type, from, to, thid, requested, attachment)
BY DEF Only, InThread

LEMMA FieldsOfOnly ==
  ASSUME NEW id, NEW type, NEW from, NEW to, NEW thid, NEW requested, NEW attachment,
         NEW m \in Only(id, type, from, to, thid, requested, attachment)
  PROVE  /\ m.id = id /\ m.type = type /\ m.from = from /\ m.to = to /\ m.thid = thid
         /\ m.response_requested = requested /\ m.attachment = attachment
BY DEF Only

(* A handler answers a request, in the name of the first of its recipients. *)
LEMMA ReplyAnswers ==
  ASSUME NEW id, NEW d, NEW m, Response(id, d, m) # Absent
  PROVE  LET reply == Response(id, d, m)
         IN  /\ m.type \in {TRUST_PING, AGENT_AUTH_REQUEST} /\ CanAnswer(m)
             /\ reply.type \notin {TRUST_PING, AGENT_AUTH_REQUEST}
             /\ reply.from = Head(m.to) /\ reply.to = <<m.from>> /\ reply.thid = m.id
             /\ ExtractDelegationProof(reply) \in {Absent, d}
<1> DEFINE ping == TrustPingResponse(id, Head(m.to), m.from, m.id)
           auth == AuthResponse(id, Head(m.to), m.from, m.id, d)
           chain == JsonAttachment("delegation-chain", d)
<1>1. ping \in Only(id, TRUST_PING_RESPONSE, Head(m.to), <<m.from>>, m.id, Absent, Absent)
  BY TrustPingResponseMakes
<1>2. auth \in Only(id, AGENT_AUTH_RESPONSE, Head(m.to), <<m.from>>, m.id, Absent, chain)
  BY AuthResponseMakes
<1>3. chain.value = d
  BY DEF JsonAttachment
<1>4. \/ Response(id, d, m) = ping /\ m.type = TRUST_PING /\ CanAnswer(m)
      \/ Response(id, d, m) = auth /\ m.type = AGENT_AUTH_REQUEST /\ CanAnswer(m)
  BY Zenon DEF Response, HandlePing, HandleAuthRequest
<1> HIDE DEF ping, auth, chain
<1>5. /\ ping.type = TRUST_PING_RESPONSE /\ ping.from = Head(m.to)
      /\ ping.to = <<m.from>> /\ ping.thid = m.id
  BY <1>1, FieldsOfOnly
<1>6. /\ auth.type = AGENT_AUTH_RESPONSE /\ auth.from = Head(m.to)
      /\ auth.to = <<m.from>> /\ auth.thid = m.id /\ auth.attachment = chain
  BY <1>2, FieldsOfOnly
<1>7. /\ TRUST_PING_RESPONSE \notin {TRUST_PING, AGENT_AUTH_REQUEST}
      /\ AGENT_AUTH_RESPONSE \notin {TRUST_PING, AGENT_AUTH_REQUEST}
      /\ TRUST_PING_RESPONSE # AGENT_AUTH_RESPONSE
  BY DEF TRUST_PING, TRUST_PING_RESPONSE, AGENT_AUTH_REQUEST, AGENT_AUTH_RESPONSE
<1>8. ExtractDelegationProof(ping) = Absent
  BY <1>5, <1>7, Zenon DEF ExtractDelegationProof
<1>9. ExtractDelegationProof(auth) \in {Absent, d}
  BY <1>3, <1>6, Zenon DEF ExtractDelegationProof
<1> QED
  BY <1>4, <1>5, <1>6, <1>7, <1>8, <1>9

-----------------------------------------------------------------------------
(* The invariants. *)

(* What the agents made: the messages, and the bodies they were put into. *)
Made == UNION {Bodies(s.by, s.message, s.form) : s \in sent}

(* A request is in its maker's name or in nobody's. *)
Signed(s) ==
  /\ s.by \in DID /\ s.form \in Form /\ s.message.to \in Seq(DID)
  /\ s.message.type \in {TRUST_PING, AGENT_AUTH_REQUEST} =>
       s.message.from \in {s.by, Absent}

(* Messages made of these bodies, each stored for d because it names d. *)
KeptFor(messages, d, bodies) ==
  /\ messages \in Seq([id : Nat, envelope : bodies])
  /\ \A i \in DOMAIN messages : ExtractRecipient(messages[i].envelope) = d

(* Only what was made is ever posted, stored, on its way or picked up, and *)
(* the mediator keeps each body for the recipient that it names.           *)
WayInv ==
  /\ outbox \subseteq Made
  /\ mailbox \in [DID -> Seq([id : Nat, envelope : Made])]
  /\ inbox \in [DID -> Seq([id : Nat, envelope : Made])]
  /\ \A d \in DID : KeptFor(mailbox[d], d, Made) /\ KeptFor(inbox[d], d, Made)
  /\ \A a \in answers : a.to \in DID /\ KeptFor(a.messages, a.to, Made)
  /\ accepted \in Seq(DID)

MessagingInv ==
  /\ \A s \in sent : Signed(s)
  /\ WayInv /\ HandledWasSent /\ RepliesCorrelate

-----------------------------------------------------------------------------
(* Lemmas on what a body says and for whom it is. *)

LEMMA ToSetOfSeq ==
  ASSUME NEW S, NEW s \in Seq(S)
  PROVE  ToSet(s) \subseteq S /\ (s # <<>> => Head(s) \in ToSet(s))
BY DEF ToSet

(* The packed message and who packed it. *)
LEMMA PackMakes ==
  ASSUME NEW m, NEW by \in DID, NEW mode
  PROVE  LET e == Pack(m, by, mode)
         IN  /\ e.ciphertext = m
             /\ mode \in PackMode \ {"Anoncrypt"} =>
                  e.tag = by /\ e.protected.skid # Absent
BY AbsentAssumption DEF Pack, ProtectedHeader, SignPayload, PackMode

LEMMA BodyNamesAgent ==
  ASSUME NEW s, Signed(s), NEW body \in Bodies(s.by, s.message, s.form)
  PROVE  ExtractRecipient(body) \in DID \cup {Absent}
<1>1. CASE s.form = "Plain"
  BY <1>1, ToSetOfSeq DEF Bodies, Signed, Plain, ExtractRecipient
<1>2. CASE s.form = "Bare"
  BY <1>2 DEF Bodies, Bare, ExtractRecipient
<1>3. CASE s.form \notin {"Plain", "Bare"}
  BY <1>3, ToSetOfSeq DEF Bodies, Signed, Wrapped, ExtractRecipient
<1> QED
  BY <1>1, <1>2, <1>3

(* What the recipient of a body reads is the message that was made, which  *)
(* names it; a key that opens a packed one is its maker's.                 *)
LEMMA OpenedWasMade ==
  ASSUME NEW s, Signed(s), NEW body \in Bodies(s.by, s.message, s.form), NEW d \in DID,
         ExtractRecipient(body) = d, NEW key, Opened(body, key) # Absent,
         body.recipient = Absent => key = Absent
  PROVE  /\ Opened(body, key) = s.message
         /\ d \in ToSet(s.message.to)
         /\ s.form \notin {"Plain", "Anoncrypt"} /\ key # Absent => key = s.by
         /\ s.message.to # <<>> /\ body.recipient \in {Absent, Head(s.message.to)} =>
              Head(s.message.to) = d
<1> DEFINE m == s.message
           e == Pack(m, s.by, s.form)
<1>1. CASE s.form = "Plain"
  <2>1. body = Plain(m)
    BY <1>1 DEF Bodies
  <2>2. body.to = m.to /\ body.recipient = Absent /\ body.content = m
    BY <2>1 DEF Plain
  <2>3. m.to # <<>> /\ Head(m.to) = d
    BY <2>2, AbsentAssumption DEF ExtractRecipient
  <2> QED
    BY <1>1, <2>2, <2>3, ToSetOfSeq DEF Opened, Signed
<1>2. CASE s.form = "Bare"
  <2>1. body.to = <<>> /\ body.recipient = Absent
    BY <1>2 DEF Bodies, Bare
  <2> QED
    BY <2>1, AbsentAssumption DEF ExtractRecipient
<1>3. CASE s.form \notin {"Plain", "Bare"}
  <2>1. PICK x \in ToSet(m.to) : body = Wrapped(e, x)
    BY <1>3 DEF Bodies
  <2>2. body.to = <<>> /\ body.recipient = x /\ body.content = e
    BY <2>1 DEF Wrapped
  <2>3. x = d /\ d # Absent
    BY <2>2, AbsentAssumption DEF ExtractRecipient
  <2>4. s.form \in PackMode
    BY <1>3, FormAssumption DEF Signed
  <2>5. /\ e.ciphertext = m
        /\ s.form # "Anoncrypt" => e.tag = s.by /\ e.protected.skid # Absent
    BY <2>4, PackMakes DEF Signed
  <2> HIDE DEF e, m
  <2>6. Opened(body, key) = Unpack(e, key)
    BY <2>2, <2>3 DEF Opened
  <2>7. Unpack(e, key) = m
    BY <2>5, <2>6 DEF Unpack
  <2>8. s.form # "Anoncrypt" /\ key # Absent => key = s.by
    BY <2>5, <2>6 DEF Unpack, VerifyPayload
  <2> QED
    BY <2>1, <2>2, <2>3, <2>6, <2>7, <2>8 DEF m
<1> QED
  BY <1>1, <1>2, <1>3

LEMMA KeptGrows ==
  ASSUME NEW messages, NEW d, NEW A, NEW B, A \subseteq B, KeptFor(messages, d, A)
  PROVE  KeptFor(messages, d, B)
<1>1. [id : Nat, envelope : A] \subseteq [id : Nat, envelope : B]
  OBVIOUS
<1>2. \A S, T : S \subseteq T => Seq(S) \subseteq Seq(T)
  OBVIOUS
<1> QED
  BY <1>1, <1>2 DEF KeptFor

LEMMA KeptParts ==
  ASSUME NEW messages, NEW d, NEW A, KeptFor(messages, d, A)
  PROVE  /\ messages # <<>> =>
              /\ Head(messages) \in [id : Nat, envelope : A]
              /\ ExtractRecipient(Head(messages).envelope) = d
              /\ KeptFor(Tail(messages), d, A)
         /\ \A m \in [id : Nat, envelope : A] :
              ExtractRecipient(m.envelope) = d => KeptFor(Append(messages, m), d, A)
         /\ \A more : KeptFor(more, d, A) => KeptFor(messages \o more, d, A)
<1>1. ASSUME messages # <<>>
      PROVE  /\ Head(messages) \in [id : Nat, envelope : A]
             /\ ExtractRecipient(Head(messages).envelope) = d
             /\ KeptFor(Tail(messages), d, A)
  <2> DEFINE S == [id : Nat, envelope : A]
  <2>1. messages \in Seq(S)
    BY DEF KeptFor
  <2> HIDE DEF S
  <2>2. /\ 1 \in DOMAIN messages /\ Head(messages) = messages[1] /\ messages[1] \in S
        /\ Tail(messages) \in Seq(S)
    BY <1>1, <2>1, HeadTailProperties
  <2>3. ASSUME NEW i \in DOMAIN Tail(messages)
        PROVE  i + 1 \in DOMAIN messages /\ Tail(messages)[i] = messages[i + 1]
    BY <1>1, <2>1, <2>3, HeadTailProperties
  <2> QED
    BY <2>2, <2>3 DEF KeptFor, S
<1>2. ASSUME NEW m \in [id : Nat, envelope : A], ExtractRecipient(m.envelope) = d
      PROVE  KeptFor(Append(messages, m), d, A)
  <2>1. messages \in Seq([id : Nat, envelope : A])
    BY DEF KeptFor
  <2>2. Append(messages, m) \in Seq([id : Nat, envelope : A])
    BY <2>1
  <2>3. ASSUME NEW i \in DOMAIN Append(messages, m)
        PROVE  ExtractRecipient(Append(messages, m)[i].envelope) = d
    BY <1>2, <2>1, <2>3, AppendProperties DEF KeptFor
  <2> QED
    BY <2>2, <2>3 DEF KeptFor
<1>3. ASSUME NEW more, KeptFor(more, d, A)
      PROVE  KeptFor(messages \o more, d, A)
  <2>1. /\ messages \in Seq([id : Nat, envelope : A])
        /\ more \in Seq([id : Nat, envelope : A])
    BY <1>3 DEF KeptFor
  <2>2. messages \o more \in Seq([id : Nat, envelope : A])
    BY <2>1, ConcatProperties
  <2>3. ASSUME NEW i \in DOMAIN (messages \o more)
        PROVE  ExtractRecipient((messages \o more)[i].envelope) = d
    BY <1>3, <2>1, <2>3, ConcatProperties DEF KeptFor
  <2> QED
    BY <2>2, <2>3 DEF KeptFor
<1> QED
  BY <1>1, <1>2, <1>3

(* What a reply must answer, and who must have made what is handled, of the *)
(* histories so far.                                                        *)
Correlated(s, requests, done) ==
  \E h \in done, r \in requests :
    /\ h.message = r.message /\ h.by = s.by
    /\ s.message.thid = r.message.id
    /\ ExtractDelegationProof(s.message) \in {Absent, s.by}
    /\ s.message.to = <<r.by>>
    /\ h.body.recipient \in {Absent, Head(r.message.to)} => s.message.from = s.by

MadeFor(h, made) ==
  \E s \in made :
    /\ s.message = h.message
    /\ h.by \in ToSet(s.message.to)
    /\ s.form \notin {"Plain", "Anoncrypt"} /\ h.key # Absent => h.key = s.by

LEMMA Histories ==
  /\ RepliesCorrelate <=>
       \A s \in sent \ Asks : Correlated(s, Asks, handled)
  /\ HandledWasSent <=> \A h \in handled : h.message # Absent => MadeFor(h, sent)
BY DEF RepliesCorrelate, HandledWasSent, Correlated, MadeFor

LEMMA HistoriesGrow ==
  ASSUME NEW A, NEW B, A \subseteq B, NEW R, NEW S, R \subseteq S
  PROVE  /\ \A s : Correlated(s, R, A) => Correlated(s, S, B)
         /\ \A h : MadeFor(h, A) => MadeFor(h, B)
BY DEF Correlated, MadeFor

-----------------------------------------------------------------------------
(* The steps. *)

LEMMA MessagingInitInv == MessagingInit => MessagingInv
<1> SUFFICES ASSUME MessagingInit
             PROVE  MessagingInv
  OBVIOUS
<1>1. \A d : KeptFor(<<>>, d, Made)
  BY DEF KeptFor
<1>2. WayInv
  BY <1>1 DEF MessagingInit, MediatorInit, WayInv
<1> QED
  BY <1>2 DEF MessagingInit, MessagingInv, HandledWasSent, RepliesCorrelate

(* A message that is made adds to what was made, and leaves the rest. *)
LEMMA SendStep ==
  ASSUME MessagingInv, NEW by \in DID, NEW m, NEW form \in Form, Send(by, m, form),
         Signed([message |-> m, by |-> by, form |-> form]),
         mailbox' = mailbox, answers' = answers, accepted' = accepted,
         inbox' = inbox \/ \E d \in DID : inbox[d] # <<>> /\ inbox' = [inbox EXCEPT ![d] = Tail(@)]
  PROVE  /\ sent \subseteq sent' /\ Asks \subseteq Asks'
         /\ \A s \in sent' : Signed(s)
         /\ WayInv'
<1> DEFINE s == [message |-> m, by |-> by, form |-> form]
<1>1. sent' = sent \cup {s} /\ s.by = by /\ s.message = m /\ s.form = form
  BY DEF Send
<1>2. Made \subseteq Made' /\ Bodies(by, m, form) \subseteq Made'
  BY <1>1 DEF Made
<1>3. \A x \in sent' : Signed(x)
  BY <1>1 DEF MessagingInv
<1>4. outbox' \subseteq Made'
  BY <1>2 DEF Send, MessagingInv, WayInv
<1>5. \A d \in DID : KeptFor(mailbox[d], d, Made')
  BY <1>2, KeptGrows DEF MessagingInv, WayInv
<1>6. \A a \in answers : a.to \in DID /\ KeptFor(a.messages, a.to, Made')
  BY <1>2, KeptGrows DEF MessagingInv, WayInv
<1>7. inbox' \in [DID -> Seq([id : Nat, envelope : Made'])]
      /\ \A d \in DID : KeptFor(inbox'[d], d, Made')
  <2>1. \A d \in DID : KeptFor(inbox[d], d, Made')
    BY <1>2, KeptGrows DEF MessagingInv, WayInv
  <2>2. inbox = [d \in DID |-> inbox[d]]
    BY DEF MessagingInv, WayInv
  <2>3. \A d \in DID : inbox[d] # <<>> => KeptFor(Tail(inbox[d]), d, Made')
    BY <2>1, KeptParts
  <2>4. inbox' = [d \in DID |-> inbox'[d]]
    BY <2>2
  <2>5. \A d \in DID : KeptFor(inbox'[d], d, Made')
    BY <2>1, <2>2, <2>3
  <2> QED
    BY <2>4, <2>5 DEF KeptFor
<1>8. mailbox \in [DID -> Seq([id : Nat, envelope : Made'])]
  BY <1>5 DEF KeptFor, MessagingInv, WayInv
<1> QED
  BY <1>1, <1>3, <1>4, <1>5, <1>6, <1>7, <1>8 DEF WayInv, Asks, MessagingInv

LEMMA AskedIsSigned ==
  ASSUME NEW d \in DID, NEW r, NEW m \in Asked(d, r), NEW form \in Form
  PROVE  /\ Signed([message |-> m, by |-> d, form |-> form])
         /\ m.type \in {TRUST_PING, AGENT_AUTH_REQUEST}
<1> DEFINE from == IF r.named THEN d ELSE Absent
<1>1. PICK x \in DID : \E to \in {<<x, d>>, <<x>>} :
        \/ m = InThread(TrustPing(NextId, from, to, r.requested), r.thid)
        \/ m = InThread(AuthRequest(NextId, from, to), r.thid)
  BY DEF Asked
<1>2. from \in {d, Absent}
  OBVIOUS
<1> HIDE DEF from
<1>3. PICK to \in {<<x, d>>, <<x>>} :
        \/ m = InThread(TrustPing(NextId, from, to, r.requested), r.thid)
        \/ m = InThread(AuthRequest(NextId, from, to), r.thid)
  BY <1>1
<1>4. to \in Seq(DID)
  <2>1. <<x, d>> \in Seq(DID) /\ <<x>> \in Seq(DID)
    OBVIOUS
  <2> QED
    BY <1>3, <2>1
<1>5. m.from = from /\ m.to = to /\ m.type \in {TRUST_PING, AGENT_AUTH_REQUEST}
  <2>1. CASE m = InThread(TrustPing(NextId, from, to, r.requested), r.thid)
    <3>1. m \in Only(NextId, TRUST_PING, from, to, r.thid, r.requested, Absent)
      BY <2>1, TrustPingMakes, InThreadMakes
    <3> QED
      BY <3>1, FieldsOfOnly
  <2>2. CASE m = InThread(AuthRequest(NextId, from, to), r.thid)
    <3>1. m \in Only(NextId, AGENT_AUTH_REQUEST, from, to, r.thid, Absent, Absent)
      BY <2>2, AuthRequestMakes, InThreadMakes
    <3> QED
      BY <3>1, FieldsOfOnly
  <2> QED
    BY <1>3, <2>1, <2>2
<1> QED
  BY <1>2, <1>4, <1>5 DEF Signed

LEMMA AskStep ==
  ASSUME MessagingInv, NEW d \in DID, NEW form \in Form, Ask(d, form)
  PROVE  MessagingInv'
<1>r. PICK r \in Request : \E m \in Asked(d, r) : Send(d, m, form)
  BY DEF Ask
<1>1. PICK m \in Asked(d, r) : Send(d, m, form)
  BY <1>r
<1> DEFINE s == [message |-> m, by |-> d, form |-> form]
<1>2. Signed(s) /\ m.type \in {TRUST_PING, AGENT_AUTH_REQUEST}
  BY AskedIsSigned
<1>3. /\ sent \subseteq sent' /\ Asks \subseteq Asks'
      /\ \A x \in sent' : Signed(x)
      /\ WayInv'
  BY <1>1, <1>2, SendStep DEF Ask, mediatorVars
<1>4. sent' = sent \cup {s} /\ s.message = m /\ handled' = handled
  BY <1>1 DEF Send, Ask
<1>5. HandledWasSent'
  BY <1>3, <1>4, Histories, HistoriesGrow DEF MessagingInv, HandledWasSent, MadeFor
<1>6. RepliesCorrelate'
  <2>1. ASSUME NEW x \in sent' \ Asks'
        PROVE  Correlated(x, Asks', handled')
    <3>1. x \in sent \ Asks
      BY <1>2, <1>3, <1>4, <2>1 DEF Asks
    <3> QED
      BY <1>3, <1>4, <3>1, Histories, HistoriesGrow DEF MessagingInv
  <2> QED
    BY <2>1 DEF RepliesCorrelate, Correlated
<1> QED
  BY <1>3, <1>5, <1>6 DEF MessagingInv

(* The mediator keeps what it accepts for the one that the body names. *)
LEMMA AcceptStep ==
  ASSUME MessagingInv, NEW body \in outbox, AcceptDidcomm(body),
         outbox' \subseteq outbox, inbox' = inbox, sent' = sent, handled' = handled
  PROVE  MessagingInv'
<1> DEFINE d == ExtractRecipient(body)
           id == Len(accepted) + 1
           m == [id |-> id, envelope |-> body]
<1>1. Made' = Made /\ Asks' = Asks
  BY DEF Made, Asks
<1>2. body \in Made /\ d \in DID \cup {Absent}
  BY BodyNamesAgent DEF MessagingInv, WayInv, Made
<1>3. RepliesCorrelate' /\ HandledWasSent' /\ \A s \in sent' : Signed(s)
  BY <1>1, Histories DEF MessagingInv, RepliesCorrelate, HandledWasSent
<1>4. CASE d = Absent
  <2>1. mailbox' = mailbox /\ answers' = answers /\ accepted' = accepted
    BY <1>4 DEF AcceptDidcomm, mediatorVars
  <2>2. WayInv'
    BY <1>1, <2>1 DEF MessagingInv, WayInv
  <2> QED
    BY <1>3, <2>2 DEF MessagingInv
<1>5. CASE d # Absent
  <2>1. /\ mailbox' = [mailbox EXCEPT ![d] = Append(@, m)]
        /\ accepted' = Append(accepted, d) /\ answers' = answers /\ d \in DID
    BY <1>2, <1>5 DEF AcceptDidcomm
  <2>2. m \in [id : Nat, envelope : Made]
    BY <1>2 DEF MessagingInv, WayInv
  <2>3. KeptFor(Append(mailbox[d], m), d, Made)
    <3>1. KeptFor(mailbox[d], d, Made) /\ m.envelope = body
      BY <2>1 DEF MessagingInv, WayInv
    <3>2. ExtractRecipient(m.envelope) = d
      BY <3>1
    <3> HIDE DEF m, d
    <3> QED
      BY <2>2, <3>1, <3>2, KeptParts
  <2>4. /\ mailbox' \in [DID -> Seq([id : Nat, envelope : Made])]
        /\ \A x \in DID : KeptFor(mailbox'[x], x, Made)
    <3> HIDE DEF m, d
    <3>1. Append(mailbox[d], m) \in Seq([id : Nat, envelope : Made])
      BY <2>3 DEF KeptFor
    <3> QED
      BY <2>1, <2>3, <3>1 DEF MessagingInv, WayInv
  <2>5. accepted' \in Seq(DID)
    BY <2>1 DEF MessagingInv, WayInv
  <2>6. outbox' \subseteq Made
    BY DEF MessagingInv, WayInv
  <2>7. WayInv'
    BY <1>1, <2>1, <2>4, <2>5, <2>6 DEF MessagingInv, WayInv
  <2> QED
    BY <1>3, <2>7 DEF MessagingInv
<1> QED
  BY <1>4, <1>5

LEMMA PickupStep ==
  ASSUME MessagingInv, NEW d \in DID, Pickup(d)
  PROVE  MessagingInv'
<1>1. Made' = Made /\ Asks' = Asks
  BY DEF Made, Asks, Pickup
<1>2. RepliesCorrelate' /\ HandledWasSent' /\ \A s \in sent' : Signed(s)
  BY <1>1, Histories DEF MessagingInv, RepliesCorrelate, HandledWasSent, Pickup
<1>3. KeptFor(<<>>, d, Made)
  BY DEF KeptFor
<1>4. /\ mailbox' = [mailbox EXCEPT ![d] = <<>>]
      /\ answers' = answers \cup {[to |-> d, messages |-> mailbox[d]]}
  BY DEF Pickup, PickupMessages
<1>5. \A a \in answers' : a.to \in DID /\ KeptFor(a.messages, a.to, Made)
  BY <1>4 DEF MessagingInv, WayInv
<1>6. /\ mailbox' \in [DID -> Seq([id : Nat, envelope : Made])]
      /\ \A x \in DID : KeptFor(mailbox'[x], x, Made)
  <2>1. <<>> \in Seq([id : Nat, envelope : Made])
    BY <1>3 DEF KeptFor
  <2> QED
    BY <1>3, <1>4, <2>1 DEF MessagingInv, WayInv
<1>7. WayInv'
  BY <1>1, <1>5, <1>6 DEF MessagingInv, WayInv, Pickup, PickupMessages
<1> QED
  BY <1>2, <1>7 DEF MessagingInv

LEMMA AnswerStep ==
  ASSUME MessagingInv, NEW a \in answers, AnswerArrives(a) \/ AnswerIsLost(a)
  PROVE  MessagingInv'
<1>1. Made' = Made /\ Asks' = Asks
  BY DEF Made, Asks, AnswerArrives, AnswerIsLost
<1>2. RepliesCorrelate' /\ HandledWasSent' /\ \A s \in sent' : Signed(s)
  BY <1>1, Histories
     DEF MessagingInv, RepliesCorrelate, HandledWasSent, AnswerArrives, AnswerIsLost
<1>3. /\ mailbox' = mailbox /\ accepted' = accepted /\ outbox' = outbox
      /\ answers' = answers \ {a}
      /\ inbox' = inbox \/ inbox' = [inbox EXCEPT ![a.to] = @ \o a.messages]
  BY DEF AnswerArrives, AnswerIsLost, Arrive, Lose
<1>4. a.to \in DID /\ KeptFor(inbox[a.to] \o a.messages, a.to, Made)
  BY KeptParts DEF MessagingInv, WayInv
<1>5. inbox[a.to] \o a.messages \in Seq([id : Nat, envelope : Made])
  BY <1>4 DEF KeptFor
<1>6. /\ inbox' \in [DID -> Seq([id : Nat, envelope : Made])]
      /\ \A d \in DID : KeptFor(inbox'[d], d, Made)
  BY <1>3, <1>4, <1>5 DEF MessagingInv, WayInv
<1>7. WayInv'
  BY <1>1, <1>3, <1>6 DEF MessagingInv, WayInv
<1> QED
  BY <1>2, <1>7 DEF MessagingInv

LEMMA HandleStep ==
  ASSUME MessagingInv, NEW d \in DID, NEW key \in DID \cup {Absent}, Handle(d, key)
  PROVE  MessagingInv'
<1>1. PICK stored \in {Head(inbox[d])} : TRUE
  OBVIOUS
<1>2. PICK m \in {Opened(stored.envelope, key)} : TRUE
  OBVIOUS
<1>3. PICK reply \in {IF m = Absent THEN Absent ELSE Response(NextId, d, m)} : TRUE
  OBVIOUS
<1>4. PICK h \in {[id |-> stored.id, by |-> d, key |-> key, body |-> stored.envelope,
                   message |-> m]} : TRUE
  OBVIOUS
<1>5. /\ inbox[d] # <<>>
      /\ stored.envelope.recipient = Absent => key = Absent
      /\ inbox' = [inbox EXCEPT ![d] = Tail(@)] /\ handled' = handled \cup {h}
      /\ \/ reply = Absent /\ UNCHANGED <<outbox, sent>>
         \/ reply # Absent /\ \E form \in Form : Send(d, reply, form)
      /\ UNCHANGED <<mailbox, answers, accepted>>
  BY <1>1, <1>2, <1>3, <1>4 DEF Handle, mediatorVars
<1>6. h.by = d /\ h.key = key /\ h.body = stored.envelope /\ h.message = m
  BY <1>4
<1>7. /\ stored \in [id : Nat, envelope : Made]
      /\ ExtractRecipient(stored.envelope) = d
  <2>1. KeptFor(inbox[d], d, Made)
    BY DEF MessagingInv, WayInv
  <2>2. /\ Head(inbox[d]) \in [id : Nat, envelope : Made]
        /\ ExtractRecipient(Head(inbox[d]).envelope) = d
    BY <1>5, <2>1, KeptParts
  <2>3. stored = Head(inbox[d])
    BY <1>1
  <2> QED
    BY <2>2, <2>3, Zenon
<1>8. PICK s \in sent : stored.envelope \in Bodies(s.by, s.message, s.form)
  BY <1>7 DEF Made
<1>9. Signed(s)
  BY DEF MessagingInv
<1>10. m # Absent =>
         /\ m = s.message
         /\ d \in ToSet(m.to)
         /\ s.form \notin {"Plain", "Anoncrypt"} /\ key # Absent => key = s.by
         /\ m.to # <<>> /\ stored.envelope.recipient \in {Absent, Head(m.to)} =>
              Head(m.to) = d
  BY <1>2, <1>5, <1>7, <1>8, <1>9, OpenedWasMade
(* The reply, if there is one, is to whom made the message. *)
<1>11. reply # Absent =>
         /\ s \in Asks /\ m = s.message /\ CanAnswer(m)
         /\ reply.type \notin {TRUST_PING, AGENT_AUTH_REQUEST}
         /\ reply.from = Head(m.to) /\ reply.to = <<s.by>> /\ reply.thid = m.id
         /\ ExtractDelegationProof(reply) \in {Absent, d}
  <2> SUFFICES ASSUME reply # Absent
               PROVE  /\ s \in Asks /\ m = s.message /\ CanAnswer(m)
                      /\ reply.type \notin {TRUST_PING, AGENT_AUTH_REQUEST}
                      /\ reply.from = Head(m.to) /\ reply.to = <<s.by>> /\ reply.thid = m.id
                      /\ ExtractDelegationProof(reply) \in {Absent, d}
    OBVIOUS
  <2>1. m # Absent /\ reply = Response(NextId, d, m) /\ m = s.message
    BY <1>3, <1>10
  <2>2. /\ m.type \in {TRUST_PING, AGENT_AUTH_REQUEST} /\ CanAnswer(m)
        /\ reply.type \notin {TRUST_PING, AGENT_AUTH_REQUEST}
        /\ reply.from = Head(m.to) /\ reply.to = <<m.from>> /\ reply.thid = m.id
        /\ ExtractDelegationProof(reply) \in {Absent, d}
    BY <2>1, ReplyAnswers
  <2>3. m.from = s.by
    BY <1>9, <2>1, <2>2 DEF Signed, CanAnswer
  <2> QED
    BY <2>1, <2>2, <2>3 DEF Asks
<1>12. /\ sent \subseteq sent' /\ Asks \subseteq Asks' /\ WayInv'
       /\ \A x \in sent' : Signed(x)
       /\ \A x \in sent' :
            \/ x \in sent
            \/ reply # Absent /\ x.by = d /\ x.message = reply
  <2>1. CASE reply = Absent
    <3>1. sent' = sent /\ outbox' = outbox /\ Made' = Made
      BY <1>5, <2>1 DEF Made
    <3>2. KeptFor(Tail(inbox[d]), d, Made)
      <4>1. KeptFor(inbox[d], d, Made)
        BY DEF MessagingInv, WayInv
      <4> QED
        BY <1>5, <4>1, KeptParts
    <3>3. /\ inbox' \in [DID -> Seq([id : Nat, envelope : Made])]
          /\ \A x \in DID : KeptFor(inbox'[x], x, Made)
      <4>1. Tail(inbox[d]) \in Seq([id : Nat, envelope : Made])
        BY <3>2 DEF KeptFor
      <4> QED
        BY <1>5, <3>2, <4>1 DEF MessagingInv, WayInv
    <3>4. WayInv'
      BY <1>5, <3>1, <3>3 DEF MessagingInv, WayInv
    <3> QED
      BY <3>1, <3>4 DEF MessagingInv, Asks
  <2>2. CASE reply # Absent
    <3>1. PICK form \in Form : Send(d, reply, form)
      BY <1>5, <2>2
    <3>2. PICK x \in {[message |-> reply, by |-> d, form |-> form]} : TRUE
      OBVIOUS
    <3>3. x.message = reply /\ x.by = d /\ x.form = form
      BY <3>2
    <3>4. Signed(x)
      <4>1. <<s.by>> \in Seq(DID)
        BY <1>9 DEF Signed
      <4> QED
        BY <1>11, <2>2, <3>3, <4>1 DEF Signed
    <3>5. /\ sent \subseteq sent' /\ Asks \subseteq Asks'
          /\ \A y \in sent' : Signed(y)
          /\ WayInv'
      BY <1>5, <3>1, <3>2, <3>4, SendStep
    <3>6. sent' = sent \cup {x}
      BY <3>1, <3>2 DEF Send
    <3> QED
      BY <2>2, <3>3, <3>5, <3>6
  <2> QED
    BY <2>1, <2>2
<1>13. HandledWasSent'
  <2>1. ASSUME NEW g \in handled', g.message # Absent
        PROVE  MadeFor(g, sent')
    <3>1. CASE g \in handled
      BY <1>12, <2>1, <3>1, Histories, HistoriesGrow DEF MessagingInv
    <3>2. CASE g = h
      BY <1>6, <1>10, <1>12, <2>1, <3>2 DEF MadeFor
    <3> QED
      BY <1>5, <3>1, <3>2
  <2> QED
    BY <2>1 DEF HandledWasSent, MadeFor
<1>14. RepliesCorrelate'
  <2>1. ASSUME NEW x \in sent' \ Asks'
        PROVE  Correlated(x, Asks', handled')
    <3>1. CASE x \in sent
      <4>1. handled \subseteq handled' /\ x \notin Asks
        BY <1>5, <1>12, <2>1
      <4> QED
        BY <1>12, <2>1, <3>1, <4>1, Histories, HistoriesGrow DEF MessagingInv
    <3>2. CASE reply # Absent /\ x.by = d /\ x.message = reply
      <4>1. h.body.recipient \in {Absent, Head(m.to)} => reply.from = d
        BY <1>3, <1>6, <1>10, <1>11, <3>2 DEF CanAnswer
      <4> QED
        BY <1>5, <1>6, <1>11, <1>12, <3>2, <4>1 DEF Correlated
    <3> QED
      BY <1>12, <3>1, <3>2
  <2> QED
    BY <2>1 DEF RepliesCorrelate, Correlated
<1> QED
  BY <1>12, <1>13, <1>14 DEF MessagingInv

LEMMA MessagingInvNext == MessagingInv /\ [MessagingNext]_messagingVars => MessagingInv'
<1> SUFFICES ASSUME MessagingInv, [MessagingNext]_messagingVars
             PROVE  MessagingInv'
  OBVIOUS
<1>1. CASE AskSome
  BY <1>1, AskStep DEF AskSome
<1>2. CASE PostSome
  <2>1. PICK body \in outbox : Post(body)
    BY <1>2 DEF PostSome
  <2> QED
    BY <2>1, AcceptStep DEF Post
<1>3. CASE PostSomeUnheard
  <2>1. PICK body \in outbox : PostUnheard(body)
    BY <1>3 DEF PostSomeUnheard
  <2> QED
    BY <2>1, AcceptStep DEF PostUnheard
<1>4. CASE AnswerEnds
  BY <1>4, AnswerStep DEF AnswerEnds
<1>5. ASSUME NEW d \in DID, Pickup(d)
      PROVE  MessagingInv'
  BY <1>5, PickupStep
<1>6. ASSUME NEW d \in DID, HandleNext(d)
      PROVE  MessagingInv'
  BY <1>6, HandleStep DEF HandleNext
<1>7. CASE UNCHANGED messagingVars
  BY <1>7 DEF messagingVars, mediatorVars, MessagingInv, WayInv, Made, HandledWasSent,
              RepliesCorrelate, Asks
<1> QED
  BY <1>1, <1>2, <1>3, <1>4, <1>5, <1>6, <1>7 DEF MessagingNext

LEMMA MessagingInvariant == MessagingSpec => []MessagingInv
<1> QED
  BY MessagingInitInv, MessagingInvNext, PTL DEF MessagingSpec

(* What an agent handles was made by one agent, for it, and is as it was   *)
(* made; only its packer's key opens what was packed with one.             *)
THEOREM WhatIsHandledWasSent == MessagingSpec => []HandledWasSent
<1>1. MessagingInv => HandledWasSent
  BY DEF MessagingInv
<1> QED
  BY <1>1, MessagingInvariant, PTL

(* A reply names the request that it answers by its id, whatever thread    *)
(* that is in; it goes to who made the request, from an agent that handled *)
(* it.                                                                     *)
THEOREM RepliesReachWhoAsked == MessagingSpec => []RepliesCorrelate
<1>1. MessagingInv => RepliesCorrelate
  BY DEF MessagingInv
<1> QED
  BY <1>1, MessagingInvariant, PTL

-----------------------------------------------------------------------------
(* Where the messages are. *)

(* The ids that left the mailboxes. *)
Out(id) == id \in received \cup lost \/ \E a \in answers : id \in Ids(a.messages)

(* Each place an accepted message may be in excludes the others, and it is *)
(* in one; no id is in a place that was not accepted.                      *)
PlaceInv ==
  /\ \A d \in DID : \A id \in Ids(mailbox[d]) :
       id \in DOMAIN accepted /\ accepted[id] = d /\ ~Out(id)
  /\ \A a \in answers : \A id \in Ids(a.messages) :
       /\ id \in DOMAIN accepted /\ accepted[id] = a.to
       /\ id \notin received \cup lost
       /\ \A b \in answers \ {a} : id \notin Ids(b.messages)
  /\ received \cup lost \subseteq DOMAIN accepted
  /\ received \cap lost = {}
  /\ \A id \in DOMAIN accepted : Out(id) \/ id \in Ids(mailbox[accepted[id]])

InOrder ==
  \A d \in DID : \A i, j \in DOMAIN mailbox[d] :
    i < j => mailbox[d][i].id < mailbox[d][j].id

LEMMA Appended ==
  ASSUME NEW S, NEW messages \in Seq(S), NEW m
  PROVE  /\ Len(messages) \in Nat /\ DOMAIN messages = 1 .. Len(messages)
         /\ DOMAIN Append(messages, m) = DOMAIN messages \cup {Len(messages) + 1}
         /\ \A i \in DOMAIN messages : Append(messages, m)[i] = messages[i]
         /\ Append(messages, m)[Len(messages) + 1] = m
<1>1. messages \in Seq(S \cup {m}) /\ m \in S \cup {m}
  OBVIOUS
<1> QED
  BY <1>1, AppendProperties

LEMMA IdsOf ==
  ASSUME NEW S, NEW messages \in Seq(S), NEW m
  PROVE  /\ Ids(<<>>) = {}
         /\ Ids(Append(messages, m)) = Ids(messages) \cup {m.id}
<1>1. Ids(<<>>) = {}
  <2>1. DOMAIN <<>> = {}
    OBVIOUS
  <2> QED
    BY <2>1 DEF Ids
<1>3. Ids(Append(messages, m)) = Ids(messages) \cup {m.id}
  BY Appended DEF Ids
<1> QED
  BY <1>1, <1>3

(* An id that is accepted is a new one. *)
LEMMA AcceptPlaces ==
  ASSUME WayInv, PlaceInv, InOrder, \A s \in sent : Signed(s),
         NEW body \in outbox, AcceptDidcomm(body), received' = received
  PROVE  PlaceInv' /\ InOrder'
<1> DEFINE d == ExtractRecipient(body)
           id == Len(accepted) + 1
           m == [id |-> id, envelope |-> body]
<1>1. d \in DID \cup {Absent}
  BY BodyNamesAgent DEF WayInv, Made
<1>2. CASE d = Absent
  <2>1. mailbox' = mailbox /\ answers' = answers /\ accepted' = accepted /\ lost' = lost
    BY <1>2 DEF AcceptDidcomm, mediatorVars
  <2> QED
    BY <2>1 DEF PlaceInv, InOrder, Out
<1>3. CASE d # Absent
  <2>1. /\ mailbox' = [mailbox EXCEPT ![d] = Append(@, m)]
        /\ accepted' = Append(accepted, d) /\ answers' = answers /\ lost' = lost
        /\ d \in DID
    BY <1>1, <1>3 DEF AcceptDidcomm
  <2>2. m.id = id
    OBVIOUS
  <2>3. /\ id \in Nat /\ DOMAIN accepted = 1 .. id - 1 /\ id \notin DOMAIN accepted
        /\ DOMAIN accepted' = DOMAIN accepted \cup {id}
        /\ \A i \in DOMAIN accepted : accepted'[i] = accepted[i]
        /\ accepted'[id] = d
    <3>1. accepted \in Seq(DID)
      BY DEF WayInv
    <3>2. Len(accepted) \in Nat /\ DOMAIN accepted = 1 .. Len(accepted)
      BY <3>1
    <3> HIDE DEF d
    <3> QED
      BY <2>1, <3>1, <3>2, AppendProperties
  <2>4. mailbox[d] \in Seq([id : Nat, envelope : Made])
    BY <2>1 DEF WayInv
  <2> HIDE DEF m, d, id
  <2>5. Ids(Append(mailbox[d], m)) = Ids(mailbox[d]) \cup {id}
    BY <2>2, <2>4, IdsOf
  <2>6. /\ mailbox'[d] = Append(mailbox[d], m)
        /\ \A x \in DID \ {d} : mailbox'[x] = mailbox[x]
    BY <2>1 DEF WayInv
  <2>7. \A i : Out(i)' <=> Out(i)
    BY <2>1 DEF Out
  <2>8. ~Out(id)
    BY <2>3 DEF Out, PlaceInv
  <2>9. \A x \in DID : \A i \in Ids(mailbox'[x]) :
          i \in DOMAIN accepted' /\ accepted'[i] = x /\ ~Out(i)
    <3>1. ASSUME NEW x \in DID, NEW i \in Ids(mailbox[x])
          PROVE  i \in DOMAIN accepted' /\ accepted'[i] = x /\ ~Out(i)
      BY <2>3 DEF PlaceInv
    <3>2. \A x \in DID : Ids(mailbox'[x]) = IF x = d THEN Ids(mailbox[x]) \cup {id}
                                                      ELSE Ids(mailbox[x])
      BY <2>5, <2>6
    <3>3. ASSUME NEW x \in DID, NEW i \in Ids(mailbox'[x])
          PROVE  i \in DOMAIN accepted' /\ accepted'[i] = x /\ ~Out(i)
      <4>1. \/ i \in Ids(mailbox[x])
            \/ x = d /\ i = id
        BY <3>2, <3>3
      <4> QED
        BY <2>3, <2>8, <3>1, <4>1
    <3> QED
      BY <3>3
  <2>10. \A a \in answers : \A i \in Ids(a.messages) :
           /\ i \in DOMAIN accepted' /\ accepted'[i] = a.to
           /\ i \notin received \cup lost
           /\ \A b \in answers \ {a} : i \notin Ids(b.messages)
    BY <2>3 DEF PlaceInv
  <2>11. \A i \in DOMAIN accepted' : Out(i) \/ i \in Ids(mailbox'[accepted'[i]])
    <3>1. \A x \in DID : Ids(mailbox[x]) \subseteq Ids(mailbox'[x])
      BY <2>5, <2>6
    <3>2. \A i \in DOMAIN accepted : accepted[i] \in DID
      BY DEF WayInv
    <3>3. id \in Ids(mailbox'[d])
      BY <2>5, <2>6
    <3> QED
      BY <2>3, <3>1, <3>2, <3>3 DEF PlaceInv
  <2>12. PlaceInv'
    BY <2>1, <2>3, <2>7, <2>9, <2>10, <2>11 DEF PlaceInv
  <2>13. ASSUME NEW x \in DID, NEW i \in DOMAIN mailbox'[x], NEW j \in DOMAIN mailbox'[x],
                i < j
         PROVE  mailbox'[x][i].id < mailbox'[x][j].id
    <3>1. CASE x # d
      BY <2>6, <2>13, <3>1 DEF InOrder
    <3>2. CASE x = d
      <4>1. /\ DOMAIN mailbox[d] = 1 .. Len(mailbox[d]) /\ Len(mailbox[d]) \in Nat
            /\ DOMAIN mailbox'[d] = DOMAIN mailbox[d] \cup {Len(mailbox[d]) + 1}
            /\ \A k \in DOMAIN mailbox[d] : mailbox'[d][k] = mailbox[d][k]
            /\ mailbox'[d][Len(mailbox[d]) + 1] = m
        BY <2>4, <2>6, Appended
      <4>2. i \in DOMAIN mailbox[d]
        BY <2>13, <3>2, <4>1
      <4>3. mailbox[d][i].id \in Ids(mailbox[d])
        BY <4>2 DEF Ids
      <4>4. mailbox[d][i].id < id
        <5>1. mailbox[d][i].id \in DOMAIN accepted
          BY <2>1, <4>3 DEF PlaceInv
        <5> QED
          BY <2>3, <5>1
      <4>5. CASE j \in DOMAIN mailbox[d]
        BY <2>1, <2>13, <3>2, <4>1, <4>2, <4>5 DEF InOrder
      <4>6. CASE j = Len(mailbox[d]) + 1
        BY <2>2, <3>2, <4>1, <4>2, <4>4, <4>6
      <4> QED
        BY <2>13, <3>2, <4>1, <4>5, <4>6
    <3> QED
      BY <3>1, <3>2
  <2> QED
    BY <2>12, <2>13 DEF InOrder
<1> QED
  BY <1>2, <1>3

(* A mailbox is taken away as it is. *)
LEMMA PickupPlaces ==
  ASSUME WayInv, PlaceInv, InOrder, NEW d \in DID, PickupMessages(d), received' = received
  PROVE  PlaceInv' /\ InOrder'
<1>1. PICK taken \in {[to |-> d, messages |-> mailbox[d]]} : TRUE
  OBVIOUS
<1>2. taken.to = d /\ taken.messages = mailbox[d]
  BY <1>1
<1>3. /\ answers' = answers \cup {taken} /\ accepted' = accepted /\ lost' = lost
      /\ mailbox'[d] = <<>> /\ \A x \in DID \ {d} : mailbox'[x] = mailbox[x]
  BY <1>1 DEF PickupMessages, WayInv
<1>4. Ids(mailbox'[d]) = {} /\ DOMAIN mailbox'[d] = {}
  BY <1>3 DEF Ids
<1>5. \A id : Out(id)' <=> Out(id) \/ id \in Ids(mailbox[d])
  BY <1>2, <1>3 DEF Out
<1>6. \A x \in DID : \A id \in Ids(mailbox'[x]) :
        id \in DOMAIN accepted /\ accepted[id] = x /\ ~Out(id)'
  BY <1>3, <1>4, <1>5 DEF PlaceInv
<1>7. ASSUME NEW a \in answers', NEW id \in Ids(a.messages)
      PROVE  /\ id \in DOMAIN accepted /\ accepted[id] = a.to
             /\ id \notin received \cup lost
             /\ \A b \in answers' \ {a} : id \notin Ids(b.messages)
  <2>1. CASE a \in answers
    <3>1. id \notin Ids(mailbox[d])
      BY <1>7, <2>1 DEF PlaceInv, Out
    <3> QED
      BY <1>2, <1>3, <1>7, <2>1, <3>1 DEF PlaceInv
  <2>2. CASE a = taken
    <3>1. id \in DOMAIN accepted /\ accepted[id] = d /\ ~Out(id)
      BY <1>2, <1>7, <2>2 DEF PlaceInv
    <3> QED
      BY <1>2, <1>3, <2>2, <3>1 DEF Out
  <2> QED
    BY <1>3, <2>1, <2>2
<1>8. ASSUME NEW id \in DOMAIN accepted
      PROVE  Out(id)' \/ id \in Ids(mailbox'[accepted[id]])
  <2>1. accepted[id] \in DID
    BY DEF WayInv
  <2> QED
    BY <1>3, <1>5, <2>1 DEF PlaceInv
<1>9. PlaceInv'
  BY <1>3, <1>6, <1>7, <1>8 DEF PlaceInv
<1>10. InOrder'
  BY <1>3, <1>4 DEF InOrder
<1> QED
  BY <1>9, <1>10

(* What was in an answer that arrived or was lost is in a history. *)
LEMMA AnswerPlaces ==
  ASSUME PlaceInv, InOrder, NEW a \in answers, AnswerArrives(a) \/ AnswerIsLost(a)
  PROVE  PlaceInv' /\ InOrder'
<1>1. /\ answers' = answers \ {a} /\ mailbox' = mailbox /\ accepted' = accepted
      /\ \/ received' = received \cup Ids(a.messages) /\ lost' = lost
         \/ received' = received /\ lost' = lost \cup Ids(a.messages)
  BY DEF AnswerArrives, AnswerIsLost, Arrive, Lose
<1>2. \A id : Out(id)' <=> Out(id)
  BY <1>1 DEF Out
<1>3. /\ received' \cup lost' = received \cup lost \cup Ids(a.messages)
      /\ received' \cap lost' = {}
  BY <1>1 DEF PlaceInv
<1>4. \A b \in answers' : \A id \in Ids(b.messages) : id \notin Ids(a.messages)
  BY <1>1 DEF PlaceInv
<1>5. \A b \in answers' : \A id \in Ids(b.messages) :
        /\ id \in DOMAIN accepted /\ accepted[id] = b.to
        /\ id \notin received' \cup lost'
        /\ \A c \in answers' \ {b} : id \notin Ids(c.messages)
  BY <1>1, <1>3, <1>4 DEF PlaceInv
<1>6. received' \cup lost' \subseteq DOMAIN accepted
  BY <1>3 DEF PlaceInv
<1> QED
  BY <1>1, <1>2, <1>3, <1>5, <1>6 DEF PlaceInv, InOrder

LEMMA PlacesInit == MessagingInit => PlaceInv /\ InOrder
<1> SUFFICES ASSUME MessagingInit
             PROVE  PlaceInv /\ InOrder
  OBVIOUS
<1>1. DOMAIN <<>> = {}
  OBVIOUS
<1>2. \A d \in DID : Ids(mailbox[d]) = {} /\ DOMAIN mailbox[d] = {}
  BY <1>1 DEF MessagingInit, MediatorInit, Ids
<1> QED
  BY <1>1, <1>2 DEF MessagingInit, MediatorInit, PlaceInv, InOrder

LEMMA PlacesNext ==
  MessagingInv /\ PlaceInv /\ InOrder /\ [MessagingNext]_messagingVars => PlaceInv' /\ InOrder'
<1> SUFFICES ASSUME MessagingInv, PlaceInv, InOrder, [MessagingNext]_messagingVars
             PROVE  PlaceInv' /\ InOrder'
  OBVIOUS
<1> USE DEF MessagingInv
<1>1. CASE mediatorVars' = mediatorVars /\ received' = received
  BY <1>1 DEF mediatorVars, PlaceInv, InOrder, Out
<1>2. CASE AskSome
  BY <1>1, <1>2 DEF AskSome, Ask
<1>3. CASE PostSome
  BY <1>3, AcceptPlaces DEF PostSome, Post
<1>4. CASE PostSomeUnheard
  BY <1>4, AcceptPlaces DEF PostSomeUnheard, PostUnheard
<1>5. CASE AnswerEnds
  BY <1>5, AnswerPlaces DEF AnswerEnds
<1>6. ASSUME NEW d \in DID, Pickup(d)
      PROVE  PlaceInv' /\ InOrder'
  BY <1>6, PickupPlaces DEF Pickup
<1>7. ASSUME NEW d \in DID, HandleNext(d)
      PROVE  PlaceInv' /\ InOrder'
  BY <1>1, <1>7 DEF HandleNext, Handle
<1>8. CASE UNCHANGED messagingVars
  BY <1>1, <1>8 DEF messagingVars
<1> QED
  BY <1>2, <1>3, <1>4, <1>5, <1>6, <1>7, <1>8 DEF MessagingNext

(* Of the four places exactly one holds the message. *)
LEMMA OnePlace ==
  ASSUME WayInv, PlaceInv, NEW id \in DOMAIN accepted
  PROVE  LET places == {d \in DID : id \in Ids(mailbox[d])}
             pending == {a \in answers : id \in Ids(a.messages)}
         IN  /\ places \subseteq {accepted[id]}
             /\ \A a \in pending : a.to = accepted[id]
             /\ Cardinality(places) + Cardinality(pending)
                  + Cardinality({id} \cap received) + Cardinality({id} \cap lost) = 1
<1> DEFINE places == {d \in DID : id \in Ids(mailbox[d])}
           pending == {a \in answers : id \in Ids(a.messages)}
           arrived == {id} \cap received
           missing == {id} \cap lost
<1>1. accepted[id] \in DID
  BY DEF WayInv
<1>2. places \subseteq {accepted[id]} /\ \A a \in pending : a.to = accepted[id]
  BY DEF PlaceInv
<1>3. Cardinality({}) = 0 /\ \A x : Cardinality({x}) = 1
  BY FS_EmptySet, FS_Singleton
<1>4. \/ \E x : places = {x} /\ pending = {} /\ arrived = {} /\ missing = {}
      \/ \E x : places = {} /\ pending = {x} /\ arrived = {} /\ missing = {}
      \/ places = {} /\ pending = {} /\ arrived = {id} /\ missing = {}
      \/ places = {} /\ pending = {} /\ arrived = {} /\ missing = {id}
  <2>1. CASE id \in Ids(mailbox[accepted[id]])
    <3>1. places = {accepted[id]} /\ pending = {} /\ arrived = {} /\ missing = {}
      BY <1>1, <1>2, <2>1 DEF PlaceInv, Out
    <3> QED
      BY <3>1
  <2>2. CASE id \notin Ids(mailbox[accepted[id]]) /\ pending # {}
    <3>1. PICK a \in answers : id \in Ids(a.messages)
      BY <2>2
    <3>2. places = {} /\ pending = {a} /\ arrived = {} /\ missing = {}
      BY <1>2, <2>2, <3>1 DEF PlaceInv
    <3> QED
      BY <3>2
  <2>3. CASE id \notin Ids(mailbox[accepted[id]]) /\ pending = {}
    <3>1. places = {} /\ id \in received \cup lost /\ id \notin received \cap lost
      BY <1>2, <2>3 DEF PlaceInv, Out
    <3>2. \/ arrived = {id} /\ missing = {}
          \/ arrived = {} /\ missing = {id}
      BY <3>1
    <3> QED
      BY <2>3, <3>1, <3>2
  <2> QED
    BY <2>1, <2>2, <2>3
<1>5. Cardinality(places) + Cardinality(pending) + Cardinality(arrived)
        + Cardinality(missing) = 1
  <2> HIDE DEF places, pending, arrived, missing
  <2>1. \/ /\ Cardinality(places) = 1 /\ Cardinality(pending) = 0
           /\ Cardinality(arrived) = 0 /\ Cardinality(missing) = 0
        \/ /\ Cardinality(places) = 0 /\ Cardinality(pending) = 1
           /\ Cardinality(arrived) = 0 /\ Cardinality(missing) = 0
        \/ /\ Cardinality(places) = 0 /\ Cardinality(pending) = 0
           /\ Cardinality(arrived) = 1 /\ Cardinality(missing) = 0
        \/ /\ Cardinality(places) = 0 /\ Cardinality(pending) = 0
           /\ Cardinality(arrived) = 0 /\ Cardinality(missing) = 1
    BY <1>3, <1>4, Zenon
  <2> QED
    BY <2>1
<1> QED
  BY <1>2, <1>5

(* What the parts of s hold. *)
Together(part, s) == UNION {part[d] : d \in s}

(* The sum of what they hold, computed as the community modules do. *)
Sums(f, D, size) ==
  f = [s \in SUBSET D |->
         IF s = {} THEN 0
         ELSE LET x == CHOOSE x \in s : TRUE
              IN  size[x] + f[s \ {x}]]

(* Parts that have nothing in common are counted one by one. *)
LEMMA ApartCardinality ==
  ASSUME NEW S, NEW T, IsFiniteSet(S), IsFiniteSet(T), S \cap T = {}
  PROVE  Cardinality(S \cup T) = Cardinality(S) + Cardinality(T)
<1>1. Cardinality(S \cup T) = Cardinality(S) + Cardinality(T) - Cardinality(S \cap T)
  BY FS_Union
<1>2. Cardinality(S \cap T) = 0
  BY FS_EmptySet
<1>3. Cardinality(S) \in Nat /\ Cardinality(T) \in Nat
  BY FS_CardinalityType
<1> QED
  BY <1>1, <1>2, <1>3

LEMMA PartsAreCounted ==
  ASSUME NEW D, IsFiniteSet(D), NEW part, IsFiniteSet(Together(part, D)),
         \A d, e \in D : d # e => part[d] \cap part[e] = {},
         NEW size, \A d \in D : size[d] = Cardinality(part[d])
  PROVE  /\ \E f : Sums(f, D, size)
         /\ \A f : Sums(f, D, size) => f[D] = Cardinality(Together(part, D))
<1> DEFINE count == [s \in SUBSET D |-> Cardinality(Together(part, s))]
<1>1. ASSUME NEW s \in SUBSET D
      PROVE  IsFiniteSet(Together(part, s)) /\ Cardinality(Together(part, s)) \in Nat
  <2>1. Together(part, s) \in SUBSET Together(part, D)
    BY DEF Together
  <2> QED
    BY <2>1, FS_Subset, FS_CardinalityType
<1>2. ASSUME NEW s \in SUBSET D, NEW x \in s
      PROVE  count[s] = size[x] + count[s \ {x}]
  <2>1. Together(part, s) = part[x] \cup Together(part, s \ {x})
    BY DEF Together
  <2>2. part[x] \cap Together(part, s \ {x}) = {}
    BY DEF Together
  <2>3. part[x] = Together(part, {x})
    BY DEF Together
  <2>4. s \ {x} \in SUBSET D /\ {x} \in SUBSET D /\ x \in D
    OBVIOUS
  <2>5. /\ IsFiniteSet(part[x]) /\ Cardinality(part[x]) \in Nat
        /\ IsFiniteSet(Together(part, s \ {x}))
        /\ Cardinality(Together(part, s \ {x})) \in Nat
    <3>1. \A t \in SUBSET D :
            IsFiniteSet(Together(part, t)) /\ Cardinality(Together(part, t)) \in Nat
      BY <1>1
    <3> QED
      BY <2>3, <2>4, <3>1
  <2>6. Cardinality(Together(part, s))
          = Cardinality(part[x]) + Cardinality(Together(part, s \ {x}))
    BY <2>1, <2>2, <2>5, ApartCardinality
  <2> QED
    BY <2>4, <2>6
<1>3. count[{}] = 0
  <2>1. Together(part, {}) = {}
    BY DEF Together
  <2> QED
    BY <2>1, FS_EmptySet
<1>4. count = [s \in SUBSET D |-> count[s]]
  OBVIOUS
<1>5. \A s \in SUBSET D : s # {} => (CHOOSE x \in s : TRUE) \in s
  OBVIOUS
<1> HIDE DEF count
<1>6. Sums(count, D, size)
  <2>1. ASSUME NEW s \in SUBSET D
        PROVE  count[s] = IF s = {} THEN 0
                          ELSE LET x == CHOOSE x \in s : TRUE IN size[x] + count[s \ {x}]
    <3>1. CASE s = {}
      BY <1>3, <3>1
    <3>2. CASE s # {}
      BY <1>2, <1>5, <3>2
    <3> QED
      BY <3>1, <3>2
  <2>2. [s \in SUBSET D |-> count[s]]
          = [s \in SUBSET D |->
               IF s = {} THEN 0
               ELSE LET x == CHOOSE x \in s : TRUE IN size[x] + count[s \ {x}]]
    BY <2>1
  <2> QED
    BY <1>4, <2>2 DEF Sums
<1>7. ASSUME NEW f, Sums(f, D, size)
      PROVE  f[D] = count[D]
  <2>1. \A s \in SUBSET D :
          f[s] = IF s = {} THEN 0
                 ELSE LET x == CHOOSE x \in s : TRUE IN size[x] + f[s \ {x}]
    BY <1>7 DEF Sums
  <2> DEFINE T == {n \in Nat : \A s \in SUBSET D : Cardinality(s) = n => f[s] = count[s]}
  <2>2. \A s \in SUBSET D : IsFiniteSet(s) /\ Cardinality(s) \in Nat
    BY FS_Subset, FS_CardinalityType
  <2>3. 0 \in T
    <3>1. \A s \in SUBSET D : Cardinality(s) = 0 => s = {}
      BY <2>2, FS_EmptySet
    <3> QED
      BY <1>3, <2>1, <3>1
  <2>4. ASSUME NEW n \in Nat, n \in T
        PROVE  n + 1 \in T
    <3>1. ASSUME NEW s \in SUBSET D, Cardinality(s) = n + 1
          PROVE  f[s] = count[s]
      <4>1. s # {}
        BY <3>1, FS_EmptySet
      <4>2. PICK w : w = CHOOSE x \in s : TRUE
        OBVIOUS
      <4>3. w \in s
        BY <4>1, <4>2
      <4>4. Cardinality(s \ {w}) = n /\ s \ {w} \in SUBSET D
        <5>1. Cardinality(s \ {w}) = Cardinality(s) - 1
          BY <2>2, <4>3, FS_RemoveElement
        <5> QED
          BY <2>2, <3>1, <5>1
      <4>5. f[s \ {w}] = count[s \ {w}]
        BY <2>4, <4>4
      <4>6. f[s] = size[w] + f[s \ {w}]
        BY <2>1, <4>1, <4>2
      <4> QED
        BY <1>2, <4>3, <4>5, <4>6
    <3> QED
      BY <3>1
  <2>5. T = {n \in Nat : \A s \in SUBSET D : Cardinality(s) = n => f[s] = count[s]}
    OBVIOUS
  <2> HIDE DEF T
  <2>6. PICK n \in Nat : n = Cardinality(D)
    BY <2>2
  <2>7. \A i \in 0 .. n - 1 : i \in T => i + 1 \in T
    BY <2>4
  <2>8. n \in T
    <3>1. 0 .. n \subseteq T
      BY <2>3, <2>7, Induct
    <3> QED
      BY <3>1
  <2> QED
    BY <2>5, <2>6, <2>8
<1>8. count[D] = Cardinality(Together(part, D))
  BY DEF count
<1> QED
  BY <1>6, <1>7, <1>8

LEMMA MessagesOf ==
  ASSUME NEW S, NEW messages \in Seq([id : Nat, envelope : S])
  PROVE  /\ Len(messages) \in Nat /\ DOMAIN messages = 1 .. Len(messages)
         /\ \A i \in DOMAIN messages : messages[i].id \in Nat
         /\ messages # <<>> <=> Ids(messages) # {}
<1>1. Len(messages) \in Nat /\ DOMAIN messages = 1 .. Len(messages)
  OBVIOUS
<1>2. \A i \in DOMAIN messages : messages[i] \in [id : Nat, envelope : S]
  BY <1>1, ElementOfSeq
<1>3. messages # <<>> => 1 \in DOMAIN messages
  OBVIOUS
<1>4. Ids(messages) # {} <=> DOMAIN messages # {}
  BY DEF Ids
<1>5. messages # <<>> <=> DOMAIN messages # {}
  BY <1>1, <1>3
<1>6. \A i \in DOMAIN messages : messages[i].id \in Nat
  BY <1>2
<1> QED
  BY <1>1, <1>4, <1>5, <1>6

(* status tells of all that wait, and of those they wait for. *)
LEMMA StatusIsRight ==
  ASSUME WayInv, PlaceInv, InOrder
  PROVE  /\ MediatorStatus.pending_messages = Cardinality(Waiting)
         /\ MediatorStatus.connected_agents = Cardinality({accepted[id] : id \in Waiting})
<1> DEFINE part == [d \in DID |-> Ids(mailbox[d])]
           size == [d \in DID |-> Len(mailbox[d])]
<1>1. Waiting = Together(part, DID)
  <2>1. \A id \in DOMAIN accepted : accepted[id] \in DID
    BY DEF WayInv
  <2>2. \A id : id \in Waiting <=> id \in DOMAIN accepted /\ ~Out(id)
    BY DEF Waiting, Out
  <2>3. \A id : id \in Together(part, DID) <=> \E d \in DID : id \in Ids(mailbox[d])
    BY DEF Together
  <2> QED
    BY <2>1, <2>2, <2>3 DEF PlaceInv
<1>2. IsFiniteSet(Waiting)
  <2>1. accepted \in Seq(DID)
    BY DEF WayInv
  <2>2. Len(accepted) \in Nat /\ DOMAIN accepted = 1 .. Len(accepted)
    BY <2>1
  <2>3. IsFiniteSet(1 .. Len(accepted))
    BY <2>2, FS_Interval
  <2>4. Waiting \in SUBSET (1 .. Len(accepted))
    BY <2>2 DEF Waiting
  <2> QED
    BY <2>3, <2>4, FS_Subset
<1>3. \A d, e \in DID : d # e => part[d] \cap part[e] = {}
  BY DEF PlaceInv
<1>4. ASSUME NEW d \in DID
      PROVE  size[d] = Cardinality(part[d])
  <2>1. mailbox[d] \in Seq([id : Nat, envelope : Made])
    BY DEF WayInv
  <2>2. /\ Len(mailbox[d]) \in Nat /\ DOMAIN mailbox[d] = 1 .. Len(mailbox[d])
        /\ \A i \in DOMAIN mailbox[d] : mailbox[d][i].id \in Nat
    BY <2>1, MessagesOf
  <2>3. PICK f : f = [i \in 1 .. Len(mailbox[d]) |-> mailbox[d][i].id]
    OBVIOUS
  <2>4. f \in Bijection(1 .. Len(mailbox[d]), Ids(mailbox[d]))
    <3>1. f \in [1 .. Len(mailbox[d]) -> Ids(mailbox[d])]
      BY <2>2, <2>3 DEF Ids
    <3>2. ASSUME NEW i \in 1 .. Len(mailbox[d]), NEW j \in 1 .. Len(mailbox[d]), i < j
          PROVE  f[i] # f[j]
      <4>1. mailbox[d][i].id < mailbox[d][j].id
        BY <2>2, <3>2 DEF InOrder
      <4> QED
        BY <2>2, <2>3, <4>1
    <3>3. \A i, j \in 1 .. Len(mailbox[d]) : f[i] = f[j] => i = j
      <4>1. \A i, j \in 1 .. Len(mailbox[d]) : i < j \/ j < i \/ i = j
        BY <2>2
      <4> QED
        BY <3>2, <4>1
    <3>4. \A id \in Ids(mailbox[d]) : \E i \in 1 .. Len(mailbox[d]) : f[i] = id
      BY <2>2, <2>3 DEF Ids
    <3> QED
      BY <3>1, <3>3, <3>4 DEF Bijection, Injection, Surjection, IsInjective
  <2>5. ExistsBijection(1 .. Len(mailbox[d]), Ids(mailbox[d]))
    BY <2>4 DEF ExistsBijection
  <2>6. Cardinality(Ids(mailbox[d])) = Len(mailbox[d])
    BY <2>2, <2>5, FS_CountingElements
  <2> QED
    BY <2>6
<1>5. MediatorStatus.pending_messages = (CHOOSE f : Sums(f, DID, size))[DID]
  <2>1. ASSUME NEW f
        PROVE  Sums(f, DID, size)
                 <=> f = [s \in SUBSET DID |->
                            IF s = {} THEN 0
                            ELSE LET x == CHOOSE x \in s : TRUE
                                 IN  Len(mailbox[x]) + f[s \ {x}]]
    BY DEF Sums
  <2> QED
    BY <2>1 DEF MediatorStatus, MapThenSumSet, MapThenFoldSet
<1>6. {accepted[id] : id \in Waiting} = {d \in DID : mailbox[d] # <<>>}
  <2>1. ASSUME NEW d \in DID
        PROVE  mailbox[d] # <<>> <=> Ids(mailbox[d]) # {}
    <3>1. mailbox[d] \in Seq([id : Nat, envelope : Made])
      BY DEF WayInv
    <3> QED
      BY <3>1, MessagesOf
  <2>2. \A id \in Waiting : \E d \in DID : id \in Ids(mailbox[d]) /\ accepted[id] = d
    BY <1>1 DEF Together, PlaceInv
  <2>3. \A d \in DID : \A id \in Ids(mailbox[d]) : id \in Waiting /\ accepted[id] = d
    BY <1>1 DEF Together, PlaceInv
  <2> QED
    BY <2>1, <2>2, <2>3
<1> HIDE DEF part, size
<1>7. \E f : Sums(f, DID, size)
  BY <1>1, <1>2, <1>3, <1>4, AgentsAssumption, PartsAreCounted
<1>8. \A f : Sums(f, DID, size) => f[DID] = Cardinality(Together(part, DID))
  BY <1>1, <1>2, <1>3, <1>4, AgentsAssumption, PartsAreCounted
<1>9. MediatorStatus.pending_messages = Cardinality(Waiting)
  BY <1>1, <1>5, <1>7, <1>8
<1>10. MediatorStatus.connected_agents = Cardinality({d \in DID : mailbox[d] # <<>>})
  BY DEF MediatorStatus
<1> QED
  BY <1>6, <1>9, <1>10

(* Every message the mediator accepted is in one place, its recipient's    *)
(* mailbox, in order, an answer to it, or the history of what arrived or   *)
(* was lost: nothing is handed out twice or lost but with an answer.  And  *)
(* its status counts what waits.                                           *)
THEOREM NothingIsLostInTheMediator == MessagingSpec => []MessagesAccounted
<1>1. MessagingInit => PlaceInv /\ InOrder
  BY PlacesInit
<1>2. MessagingInv /\ PlaceInv /\ InOrder /\ [MessagingNext]_messagingVars
        => PlaceInv' /\ InOrder'
  BY PlacesNext
<1>3. MessagingInv /\ PlaceInv /\ InOrder => MessagesAccounted
  BY OnePlace, StatusIsRight DEF MessagingInv, InOrder, MessagesAccounted
<1> QED
  BY <1>1, <1>2, <1>3, MessagingInvariant, PTL DEF MessagingSpec
=============================================================================
