---------------------------- MODULE Endorsements ----------------------------
(***************************************************************************)
(* What an endorsement is worth, on chain and off: nobody endorses what is *)
(* their own, nobody endorses twice, nothing is taken back, and the count  *)
(* that is shown is the number of those who endorsed.                      *)
(***************************************************************************)
EXTENDS Naturals

CONSTANTS
  Party,    \* who endorses
  Subject,  \* what is endorsed
  NoOwner   \* the subject is not there yet

VARIABLES
  owner,     \* whose each subject is
  endorsed,  \* the pairs <<party, subject>>
  count      \* the number shown for each subject

endorsementVars == <<owner, endorsed, count>>

EndorsementInit ==
  /\ owner \in [Subject -> Party \cup {NoOwner}]
  /\ endorsed = {}
  /\ count = [s \in Subject |-> 0]

Claim(p, s) ==
  /\ owner[s] = NoOwner
  /\ owner' = [owner EXCEPT ![s] = p]
  /\ UNCHANGED <<endorsed, count>>

Give(p, s) ==
  /\ owner[s] \notin {p, NoOwner}
  /\ <<p, s>> \notin endorsed
  /\ endorsed' = endorsed \cup {<<p, s>>}
  /\ count' = [count EXCEPT ![s] = @ + 1]
  /\ UNCHANGED owner

EndorsementNext == \E p \in Party, s \in Subject : Claim(p, s) \/ Give(p, s)

EndorsementSpec == EndorsementInit /\ [][EndorsementNext]_endorsementVars
=============================================================================
