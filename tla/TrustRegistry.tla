---------------------------- MODULE TrustRegistry ----------------------------
(***************************************************************************)
(* The trust registry: ecosystems, and in each the participants with their *)
(* roles and status, behind one lock.  Each function takes the lock once,  *)
(* so that it is one step.  Names, descriptions and times are left out.    *)
(***************************************************************************)
EXTENDS TrustValues

CONSTANTS
  Ecosystem,   \* the ids that may be drawn (UUID v4)
  Role         \* ParticipantRole

VARIABLE store   \* ecosystem -> DID -> record

Status == {"Active", "Suspended", "Revoked"}

ParticipantRecord == [roles : SUBSET Role, status : Status]

ASSUME NoRecordAssumption == NoRecord \notin ParticipantRecord

CanTransitionTo(s, t) ==
  <<s, t>> \in ({"Active"} \X {"Suspended", "Revoked"})
          \cup ({"Suspended"} \X {"Active", "Revoked"})

RegistryInit == store = [e \in Ecosystem |-> NoEntry]

CreateEcosystem(e) ==
  /\ store[e] = NoEntry
  /\ store' = [store EXCEPT ![e] = [d \in DID |-> NoRecord]]

(* get_ecosystem, and check_participant of one that is there or not. *)
GetEcosystem(e) == store[e] # NoEntry

CheckParticipant(e, d) == IF store[e] = NoEntry THEN NoRecord ELSE store[e][d]

Insert(e, d, roles, status) ==
  store' = [store EXCEPT ![e][d] = [roles |-> roles, status |-> status]]

RegisterParticipant(e, d, roles, status) ==
  /\ store[e] # NoEntry
  /\ store[e][d] = NoRecord
  /\ Insert(e, d, roles, status)

UpdateStatus(e, d, status) ==
  /\ CheckParticipant(e, d) # NoRecord
  /\ CanTransitionTo(store[e][d].status, status)
  /\ store' = [store EXCEPT ![e][d].status = status]

(* A listing: the participants there are, each with its record. *)
ListParticipants(e) ==
  IF store[e] = NoEntry
    THEN {}
    ELSE {[did |-> d, record |-> store[e][d]] :
            d \in {x \in DID : store[e][x] # NoRecord}}

(****************************************************************************)
(* A query keeps what passes every filter given; the text that a DID has to *)
(* contain stands as the set of the DIDs that contain it.                   *)
(****************************************************************************)
TrustQuery ==
  [ecosystem : Ecosystem, subject : (SUBSET DID) \cup {Any},
   role : Role \cup {Any}, status : Status \cup {Any}]

Passes(p, q) ==
  /\ q.subject # Any => p.did \in q.subject
  /\ q.role # Any => q.role \in p.record.roles
  /\ q.status # Any => p.record.status = q.status

(* Bug: the status is looked up again while the list is filtered. *)
BugMatches(list, q) ==
  {p \in list : Passes([p EXCEPT !.record = store[q.ecosystem][p.did]], q)}

Matches(list, q) == {p \in list : Passes(p, q)}
==============================================================================
