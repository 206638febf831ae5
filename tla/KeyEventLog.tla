----------------------------- MODULE KeyEventLog -----------------------------
(***************************************************************************)
(* Key events of trustdid-keri and the log they are kept in.               *)
(*                                                                         *)
(* The rules of a log are in the code twice: `append` tests one event      *)
(* against the log so far, searching backward for the latest establishment *)
(* event, and `verify_chain` reads a whole log forward.  Both are here.    *)
(***************************************************************************)
EXTENDS Naturals, FiniteSetsExt, SequencesExt

None == <<"none">>  \* the event has no such field

Inception(prefix, keys, next) ==
  [type |-> "icp", prefix |-> prefix, previous |-> None, keys |-> keys, next |-> next]

Delegated(prefix, keys, next) ==
  [type |-> "dip", prefix |-> prefix, previous |-> None, keys |-> keys, next |-> next]

Rotation(prefix, previous, keys, next) ==
  [type |-> "rot", prefix |-> prefix, previous |-> previous, keys |-> keys, next |-> next]

Interaction(prefix, previous) ==
  [type |-> "ixn", prefix |-> prefix, previous |-> previous, keys |-> None, next |-> None]

IsInception(e) == e.type \in {"icp", "dip"}
IsEstablishment(e) == e.type \in {"icp", "dip", "rot"}

(* SHA-256 of the serialised event: equal for equal events only. *)
Digest(e) == <<"sha256", e>>

(* SHA-256 of the keys' bytes one after the other: where one key ends and  *)
(* the next begins is not part of it.                                      *)
KeysDigest(keys) == <<"sha256", FlattenSeq(keys)>>

-----------------------------------------------------------------------------
(* What a log says. *)

LatestEstablishment(events) ==
  events[Max({i \in DOMAIN events : IsEstablishment(events[i])})]

CurrentKeys(events) ==
  IF \E e \in ToSet(events) : IsEstablishment(e)
    THEN LatestEstablishment(events).keys
    ELSE <<>>

NextKeyDigest(events) ==
  IF \E e \in ToSet(events) : IsEstablishment(e)
    THEN LatestEstablishment(events).next
    ELSE None

-----------------------------------------------------------------------------
NewLog(prefix) == [prefix |-> prefix, events |-> <<>>]

(* verify_pre_rotation_commitment *)
KeepsCommitment(log, keys) == KeysDigest(keys) = NextKeyDigest(log.events)

(* `append` takes the event. *)

(* Bug: an event of another identifier is taken. *)
BugAnyPrefix(log, e) ==
  IF log.events = <<>>
    THEN IsInception(e)
    ELSE /\ e.previous = Digest(Last(log.events))
         /\ e.type = "rot" => KeepsCommitment(log, e.keys)

(* Bug: the commitment is looked for in the last event only. *)
BugLastCommitment(log, e) ==
  /\ e.prefix = log.prefix
  /\ IF log.events = <<>>
       THEN IsInception(e)
       ELSE /\ e.previous = Digest(Last(log.events))
            /\ e.type = "rot" => KeysDigest(e.keys) = Last(log.events).next

Accepts(log, e) ==
  /\ e.prefix = log.prefix
  /\ IF log.events = <<>>
       THEN IsInception(e)
       ELSE /\ e.previous = Digest(Last(log.events))
            /\ e.type = "rot" => KeepsCommitment(log, e.keys)

-----------------------------------------------------------------------------
(* `verify_chain`. *)

(* One turn of its loop: the digest and the commitment that the next event *)
(* is held against are carried along.                                      *)
VerifyNext(state, e) ==
  [ok |-> /\ state.ok
          /\ e.previous = state.last_digest
          /\ e.type = "rot" => KeysDigest(e.keys) = state.last_next_key_digest,
   last_digest |-> Digest(e),
   last_next_key_digest |->
     IF IsEstablishment(e) THEN e.next ELSE state.last_next_key_digest]

VerifyChain(events) ==
  events # <<>> =>
    /\ IsInception(Head(events))
    /\ LET start == [ok |-> TRUE, last_digest |-> Digest(Head(events)),
                     last_next_key_digest |-> Head(events).next]
       IN FoldLeft(VerifyNext, start, Tail(events)).ok
==============================================================================
