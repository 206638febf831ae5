------------------------------- MODULE Mediator -------------------------------
(***************************************************************************)
(* The mediator: a mailbox for each recipient, behind one lock, in memory. *)
(* A message that is accepted is pushed to its recipient's; a pickup takes *)
(* the mailbox away and answers with what was in it.  The answer is on its *)
(* way when the mailbox is gone.                                           *)
(***************************************************************************)
EXTENDS DIDComm, FiniteSetsExt

VARIABLES
  mailbox,   \* recipient -> messages stored, in order
  answers,   \* the answers of pickups on their way
  accepted,  \* history: the recipient of each message accepted; ids are places
  lost       \* history: the ids in answers that did not arrive

mediatorVars == <<mailbox, answers, accepted, lost>>

MediatorInit ==
  /\ mailbox = [d \in DID |-> <<>>]
  /\ answers = {} /\ accepted = <<>> /\ lost = {}

(* Bug: the last of the recipients. *)
BugExtractRecipient(body) ==
  IF body.to # <<>> THEN body.to[Len(body.to)] ELSE body.recipient

(* The first of "to", or else "recipient", or else there is none. *)
ExtractRecipient(body) ==
  IF body.to # <<>> THEN Head(body.to) ELSE body.recipient

(* accept_didcomm; a body without a recipient is a bad request. *)
AcceptDidcomm(body) ==
  LET d == ExtractRecipient(body)
      id == Len(accepted) + 1
  IN  IF d = Absent
        THEN UNCHANGED mediatorVars
        ELSE /\ mailbox' = [mailbox EXCEPT ![d] = Append(@, [id |-> id, envelope |-> body])]
             /\ accepted' = Append(accepted, d)
             /\ UNCHANGED <<answers, lost>>

(* Bug: the messages are read, and stay. *)
BugPickupMessages(d) ==
  /\ mailbox[d] # <<>>
  /\ answers' = answers \cup {[to |-> d, messages |-> mailbox[d]]}
  /\ UNCHANGED <<mailbox, accepted, lost>>

(* pickup_messages; of an empty mailbox there is nothing to tell. *)
PickupMessages(d) ==
  /\ mailbox[d] # <<>>
  /\ mailbox' = [mailbox EXCEPT ![d] = <<>>]
  /\ answers' = answers \cup {[to |-> d, messages |-> mailbox[d]]}
  /\ UNCHANGED <<accepted, lost>>

Ids(messages) == {messages[i].id : i \in DOMAIN messages}

Arrive(a) ==
  /\ answers' = answers \ {a}
  /\ UNCHANGED <<mailbox, accepted, lost>>

(* The connection fails: nothing is put back. *)
Lose(a) ==
  /\ answers' = answers \ {a}
  /\ lost' = lost \cup Ids(a.messages)
  /\ UNCHANGED <<mailbox, accepted>>

(* status: a recipient is connected while it has messages waiting. *)
MediatorStatus ==
  [pending_messages |-> MapThenSumSet(LAMBDA d : Len(mailbox[d]), DID),
   connected_agents |-> Cardinality({d \in DID : mailbox[d] # <<>>})]
=============================================================================
