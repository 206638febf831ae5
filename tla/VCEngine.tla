------------------------------ MODULE VCEngine ------------------------------
(****************************************************************************)
(* The credential engine: the credentials it issued, the set of revoked ids *)
(* behind a lock, and one verification, which is watched.  verify reads the *)
(* clock twice and takes the lock after that, so that time passes and       *)
(* credentials are revoked between its checks.  The check of the signature  *)
(* is one of structure, and every proof passes it.                          *)
(****************************************************************************)
EXTENDS Naturals, Sequences

CONSTANTS
  Issuer,      \* the DIDs that builders name as the issuer
  EngineDID,   \* the engine's own
  MaxClock,    \* bound: the last instant
  MaxIssued,   \* bound: the credentials issued
  Absent       \* no bound of validity, no id; no call under way

VARIABLES
  credentials,  \* what was issued; a credential's id is its place
  revoked,
  clock,
  check,        \* the watched call of verify
  holding       \* history: whether the credential held, at each moment of it

vcVars == <<credentials, revoked, clock, check, holding>>

Id == 1 .. MaxIssued
Instant == 0 .. MaxClock

VCInit ==
  /\ credentials = <<>> /\ revoked = {} /\ clock = 0
  /\ check = Absent /\ holding = {}

(* A proof names the engine's key, whoever is the issuer. *)
CreateProof == {[verification_method |-> EngineDID]}

(* issue: whatever issuer the builder was given, the parent of a delegation *)
(* for one, the engine puts its own.                                        *)
Issue(builder) ==
  /\ Len(credentials) < MaxIssued
  /\ credentials' = Append(credentials,
       [builder EXCEPT !.id = Len(credentials) + 1, !.issuer = EngineDID,
                       !.proof = CreateProof])
  /\ UNCHANGED <<revoked, clock, check, holding>>

(* A builder starts from no id, no issuer's proof, and valid from now. *)
Builder(issuer, from, until) ==
  [id |-> Absent, issuer |-> issuer, valid_from |-> from, valid_until |-> until,
   proof |-> {}]

IssueDelegation(parent) == Issue(Builder(parent, clock, Absent))

IssueCapability == Issue(Builder(Absent, clock, Absent))

IsExpired(vc) == vc.valid_until # Absent /\ clock > vc.valid_until

IsValidAt(vc, t) ==
  /\ vc.valid_from # Absent => vc.valid_from <= t
  /\ vc.valid_until # Absent => t <= vc.valid_until

(* What a verification is about, at one moment. *)
Holds(vc) == vc.proof # {} /\ IsValidAt(vc, clock) /\ vc.id \notin revoked

Watched(h) == IF check = Absent THEN h ELSE h \cup {Holds(check.vc)'}

Revoke(id) ==
  /\ revoked' = revoked \cup {id}
  /\ UNCHANGED <<credentials, clock, check>>
  /\ holding' = Watched(holding)

Tick ==
  /\ clock < MaxClock
  /\ clock' = clock + 1
  /\ UNCHANGED <<credentials, revoked, check>>
  /\ holding' = Watched(holding)

(* What a bearer shows: a credential as issued, or without one of the two  *)
(* fields that may be missing.                                             *)
Shown ==
  UNION {{credentials[i], [credentials[i] EXCEPT !.proof = {}],
          [credentials[i] EXCEPT !.id = Absent]} : i \in DOMAIN credentials}

Verify(vc) ==
  /\ check = Absent
  /\ check' = [vc |-> vc, pc |-> "expiry",
               errors |-> IF vc.proof # {} THEN {} ELSE {"proof_exists"}]
  /\ holding' = {Holds(vc)}
  /\ UNCHANGED <<credentials, revoked, clock>>

(* Bug: a check that passes forgets the failures before it. *)
BugPassed(from, to, name, ok) ==
  /\ check # Absent /\ check.pc = from
  /\ check' = [check EXCEPT !.pc = to, !.errors = IF ok THEN {} ELSE {name}]
  /\ UNCHANGED <<credentials, revoked, clock, holding>>

Passed(from, to, name, ok) ==
  /\ check # Absent /\ check.pc = from
  /\ check' = [check EXCEPT !.pc = to, !.errors = IF ok THEN @ ELSE @ \cup {name}]
  /\ UNCHANGED <<credentials, revoked, clock, holding>>

CheckExpiry == Passed("expiry", "window", "not_expired", ~IsExpired(check.vc))

CheckWindow == Passed("window", "revocation", "valid_time", IsValidAt(check.vc, clock))

(* The revocation check is skipped for a credential without an id; the     *)
(* check of the proof that follows it always passes.                       *)
CheckRevoked ==
  Passed("revocation", "reported", "not_revoked", check.vc.id \notin revoked)

VCNext ==
  \/ \E issuer \in Issuer, from, until \in Instant \cup {Absent} :
       Issue(Builder(issuer, from, until))
  \/ \E parent \in Issuer : IssueDelegation(parent)
  \/ IssueCapability
  \/ \E id \in Id : Revoke(id)
  \/ Tick
  \/ \E vc \in Shown : Verify(vc)
  \/ CheckExpiry \/ CheckWindow \/ CheckRevoked

VCSpec == VCInit /\ [][VCNext]_vcVars

-----------------------------------------------------------------------------
(* A report says of a credential what was true of it at one moment of the   *)
(* call, though the clock moved on and the credential may have been revoked *)
(* while it was verified (engine.rs, "Verify a credential's proof and check *)
(* revocation status."): for a yes, proof, validity and no revocation all   *)
(* held together.                                                           *)
ReportedOfOneMoment ==
  check # Absent /\ check.pc = "reported" => (check.errors = {}) \in holding
=============================================================================
