--------------------------- MODULE AgentMessaging ---------------------------
(***************************************************************************)
(* Agents that talk through the mediator.  An agent makes a message, packs *)
(* it or not, and posts it; it picks up its mailbox from time to time, and *)
(* handles what arrives in order, through its router.  A post whose 202 is *)
(* lost is posted again; an answer of a pickup may be lost on its way.     *)
(***************************************************************************)
EXTENDS Mediator

CONSTANTS
  Form,       \* how bodies are made: "Plain", "Bare" or a mode of PackMode
  Request,    \* the requests made: type, whether in the maker's name, with a
              \* copy to itself, in which thread if any, and what is said of
              \* the response
  MaxStarts   \* bound on the requests made and the posts made again, together

ASSUME AgentsAssumption == IsFiniteSet(DID)
ASSUME FormAssumption == Form \subseteq {"Plain", "Bare"} \cup PackMode

VARIABLES
  outbox,   \* the bodies to be posted
  reposts,  \* the posts whose 202 was lost
  inbox,    \* agent -> the messages that arrived, in order
  sent,     \* history: the messages made, by whom
  handled,  \* history: what an agent took from its inbox, and with what key
  received  \* history: the ids in answers that arrived

messagingVars == <<mediatorVars, outbox, reposts, inbox, sent, handled, received>>

MessagingInit ==
  /\ MediatorInit
  /\ outbox = {} /\ reposts = 0 /\ inbox = [d \in DID |-> <<>>]
  /\ sent = {} /\ handled = {} /\ received = {}

(* A message as it stands; an envelope names no recipient in the fields the *)
(* mediator reads, unless the client puts it in a body that does.           *)
Plain(m) == [to |-> m.to, recipient |-> Absent, content |-> m]
Bare(e) == [to |-> <<>>, recipient |-> Absent, content |-> e]
Wrapped(e, d) == [to |-> <<>>, recipient |-> d, content |-> e]

Bodies(by, m, form) ==
  CASE form = "Plain" -> {Plain(m)}
    [] form = "Bare" -> {Bare(Pack(m, by, "Authcrypt"))}
    [] OTHER -> {Wrapped(Pack(m, by, form), d) : d \in ToSet(m.to)}

Send(by, m, form) ==
  /\ sent' = sent \cup {[message |-> m, by |-> by, form |-> form]}
  /\ \E body \in Bodies(by, m, form) : outbox' = outbox \cup {body}

NextId == Cardinality(sent) + 1

Asks == {s \in sent : s.message.type \in {TRUST_PING, AGENT_AUTH_REQUEST}}
Starts == Cardinality(Asks) + reposts

Asked(d, r) ==
  LET from == IF r.named THEN d ELSE Absent
  IN  {InThread(IF r.type = TRUST_PING
                  THEN TrustPing(NextId, from, to, r.requested)
                  ELSE AuthRequest(NextId, from, to),
                r.thid)
       : to \in {IF r.copied THEN <<x, d>> ELSE <<x>> : x \in DID \ {d}}}

Ask(d, form) ==
  /\ Starts < MaxStarts
  /\ \E r \in Request : \E m \in Asked(d, r) : Send(d, m, form)
  /\ UNCHANGED <<mediatorVars, reposts, inbox, handled, received>>

(* The answer reaches the client, be it a 202 or a 400 ... *)
Post(body) ==
  /\ AcceptDidcomm(body)
  /\ outbox' = outbox \ {body}
  /\ UNCHANGED <<reposts, inbox, sent, handled, received>>

(* ... or does not, and the client will try again. *)
PostUnheard(body) ==
  /\ Starts < MaxStarts
  /\ reposts' = reposts + 1
  /\ AcceptDidcomm(body)
  /\ UNCHANGED <<outbox, inbox, sent, handled, received>>

Pickup(d) ==
  /\ PickupMessages(d)
  /\ UNCHANGED <<outbox, reposts, inbox, sent, handled, received>>

AnswerArrives(a) ==
  /\ Arrive(a)
  /\ inbox' = [inbox EXCEPT ![a.to] = @ \o a.messages]
  /\ received' = received \cup Ids(a.messages)
  /\ UNCHANGED <<outbox, reposts, sent, handled>>

AnswerIsLost(a) ==
  /\ Lose(a)
  /\ UNCHANGED <<outbox, reposts, inbox, sent, handled, received>>

(* What a body that arrived says; Absent when its envelope is refused. *)
Opened(body, key) ==
  IF body.recipient = Absent THEN body.content ELSE Unpack(body.content, key)

(* An agent takes the next message, opens it with a key or none, and sends *)
(* back what its router answers, if anything, in a form of its choice.     *)
Handle(d, key) ==
  /\ inbox[d] # <<>>
  /\ LET stored == Head(inbox[d])
         m == Opened(stored.envelope, key)
         reply == IF m = Absent THEN Absent ELSE Response(NextId, d, m)
     IN  /\ stored.envelope.recipient = Absent => key = Absent
         /\ inbox' = [inbox EXCEPT ![d] = Tail(@)]
         /\ handled' = handled \cup
              {[id |-> stored.id, by |-> d, key |-> key,
                body |-> stored.envelope, message |-> m]}
         /\ IF reply = Absent
              THEN UNCHANGED <<outbox, sent>>
              ELSE \E form \in Form : Send(d, reply, form)
  /\ UNCHANGED <<mediatorVars, reposts, received>>

AskSome == \E d \in DID, form \in Form : Ask(d, form)
PostSome == \E body \in outbox : Post(body)
PostSomeUnheard == \E body \in outbox : PostUnheard(body)
AnswerEnds == \E a \in answers : AnswerArrives(a) \/ AnswerIsLost(a)
HandleNext(d) == \E key \in DID \cup {Absent} : Handle(d, key)

MessagingNext ==
  \/ AskSome \/ PostSome \/ PostSomeUnheard \/ AnswerEnds
  \/ \E d \in DID : Pickup(d) \/ HandleNext(d)

(* A client posts what it made; an agent keeps polling its mailbox and     *)
(* works through what it got; an answer arrives or its connection ends.    *)
MessagingSpec ==
  /\ MessagingInit /\ [][MessagingNext]_messagingVars
  /\ WF_messagingVars(PostSome) /\ WF_messagingVars(AnswerEnds)
  /\ \A d \in DID : WF_messagingVars(Pickup(d)) /\ WF_messagingVars(HandleNext(d))

-----------------------------------------------------------------------------
(* What was accepted and has not left a mailbox. *)
Waiting ==
  DOMAIN accepted \ (received \cup lost \cup UNION {Ids(a.messages) : a \in answers})

(* Every message accepted is in one place: the mailbox it was accepted for, *)
(* once and in the order of acceptance, an answer to that recipient on its  *)
(* way, or the history of answers that arrived or were lost.  Nothing is    *)
(* handed out twice, whatever posts and pickups run at once; and what       *)
(* leaves a mailbox is lost only with an answer.  status tells how many     *)
(* wait, and for how many recipients.                                       *)
MessagesAccounted ==
  /\ \A id \in DOMAIN accepted :
       LET places == {d \in DID : id \in Ids(mailbox[d])}
           pending == {a \in answers : id \in Ids(a.messages)}
       IN  /\ places \subseteq {accepted[id]}
           /\ \A a \in pending : a.to = accepted[id]
           /\ Cardinality(places) + Cardinality(pending)
                + Cardinality({id} \cap received) + Cardinality({id} \cap lost) = 1
  /\ \A d \in DID : \A i, j \in DOMAIN mailbox[d] :
       i < j => mailbox[d][i].id < mailbox[d][j].id
  /\ MediatorStatus.pending_messages = Cardinality(Waiting)
  /\ MediatorStatus.connected_agents = Cardinality({accepted[id] : id \in Waiting})

(* A reply answers a request that its sender handled: it names that          *)
(* request's id, whatever thread the request is in, and goes to the one who  *)
(* made it.  A message wrapped for another than the first of its recipients  *)
(* is excepted from one point: the handlers answer in the name of the first. *)
RepliesCorrelate ==
  \A s \in sent \ Asks :
    \E h \in handled, r \in Asks :
      /\ h.message = r.message /\ h.by = s.by
      /\ s.message.thid = r.message.id
      /\ ExtractDelegationProof(s.message) \in {Absent, s.by}
      /\ s.message.to = <<r.by>>
      /\ h.body.recipient \in {Absent, Head(r.message.to)} => s.message.from = s.by

(* A message that is handled was made by one agent, for the one that       *)
(* handles it; when it was opened with a key, and is not anonymous, it was *)
(* packed with that key.                                                   *)
HandledWasSent ==
  \A h \in handled : h.message # Absent =>
    \E s \in sent :
      /\ s.message = h.message
      /\ h.by \in ToSet(s.message.to)
      /\ s.form \notin {"Plain", "Anoncrypt"} /\ h.key # Absent => h.key = s.by

(* A ping that wants an answer gets it, unless a pickup's answer was lost  *)
(* or someone refused an envelope, or the answer was posted as it was      *)
(* packed: routers, mailboxes and ids bring it back to who asked.          *)
Mishap ==
  \/ lost # {} \/ \E h \in handled : h.message = Absent
  \/ \E s \in sent : s.form = "Bare"

WantsAnswer(s) ==
  /\ s.message.type = TRUST_PING /\ s.message.from # Absent
  /\ s.message.response_requested # FALSE

Answered(s) ==
  \E h \in handled :
    /\ h.by = s.by /\ h.message # Absent
    /\ h.message.type = TRUST_PING_RESPONSE /\ ThreadId(h.message) = s.message.id

PingsAreAnswered ==
  \A id \in 1 .. 2 * MaxStarts :
    (\E s \in sent : s.message.id = id /\ WantsAnswer(s))
      ~> (Mishap \/ \E s \in sent : s.message.id = id /\ Answered(s))
=============================================================================
