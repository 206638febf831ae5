----------------------------- MODULE TrustScorer -----------------------------
(****************************************************************************)
(* The trust scorer: a map from DID to the factors supplied for it and the  *)
(* endorsements it received, behind one lock.  A score is computed from the *)
(* entry when it is asked for, in basis points.                             *)
(****************************************************************************)
EXTENDS TrustValues, Integers, Sequences, FiniteSets

CONSTANTS
  FactorArg,               \* the factors that callers supply
  WeightArg,               \* the weights that callers give
  EndorsementsCounted,     \* 20 in the code
  MAX_ENDORSEMENT_WEIGHT   \* 10 000 in the code

MAX_SCORE == 10000

ASSUME CountedAssumption == EndorsementsCounted \in Nat \ {0}
ASSUME FactorAssumption ==
  FactorArg \subseteq [depth : Nat, days : Nat, behavior : Nat]

VARIABLE entries   \* DID -> factors and endorsements received

Least(a, b) == IF a <= b THEN a ELSE b

DefaultFactors == [depth |-> 0, days |-> 0, behavior |-> 5000]

EmptyEntry == [factors |-> DefaultFactors, received |-> <<>>]

Endorsement(a, w) == [endorser |-> a, weight |-> w]

DidEntry ==
  [factors : FactorArg \cup {DefaultFactors},
   received : Seq([endorser : DID, weight : 1 .. MAX_ENDORSEMENT_WEIGHT])]

ASSUME NoEntryAssumption == NoEntry \notin DID \cup DidEntry

(* entry().or_insert_with *)
Entry(d) == IF entries[d] = NoEntry THEN EmptyEntry ELSE entries[d]

ScorerInit == entries = [d \in DID |-> NoEntry]

SetFactors(d, f) == entries' = [entries EXCEPT ![d] = [Entry(d) EXCEPT !.factors = f]]

Endorsers(d) == {Entry(d).received[i].endorser : i \in DOMAIN Entry(d).received}

Push(a, d, w) ==
  entries' = [entries EXCEPT
    ![d] = [Entry(d) EXCEPT !.received = Append(@, Endorsement(a, w))]]

(* Bug: the same endorsement may be given again, with another weight. *)
BugEndorse(a, d, w) ==
  /\ a # d
  /\ w \in 1 .. MAX_ENDORSEMENT_WEIGHT
  /\ Endorsement(a, w) \notin
       {Entry(d).received[i] : i \in DOMAIN Entry(d).received}
  /\ Push(a, d, w)

Endorse(a, d, w) ==
  /\ a # d
  /\ w \in 1 .. MAX_ENDORSEMENT_WEIGHT
  /\ a \notin Endorsers(d)
  /\ Push(a, d, w)

-----------------------------------------------------------------------------
DepthScore(depth) == (3000 * (10 - Least(depth, 10))) \div 10
EndorsementScore(n) ==
  (3000 * Least(n, EndorsementsCounted)) \div EndorsementsCounted
AgeScore(days) == (1500 * Least(days, 365)) \div 365
BehaviorScore(b) == (2500 * Least(b, MAX_SCORE)) \div MAX_SCORE

Total(f, n) ==
  Least(DepthScore(f.depth) + EndorsementScore(n)
          + AgeScore(f.days) + BehaviorScore(f.behavior),
        MAX_SCORE)

TrustScore(score, n) == [score |-> score, endorsements |-> n]

(* calculate_score: a DID that nothing is known of has no score to speak of. *)
CalculateScore(d) ==
  IF entries[d] = NoEntry
    THEN TrustScore(0, 0)
    ELSE LET n == Len(entries[d].received) IN TrustScore(Total(entries[d].factors, n), n)

MeetsThreshold(d, least) == CalculateScore(d).score >= least

-----------------------------------------------------------------------------
E == INSTANCE Endorsements WITH
       Party <- DID, Subject <- DID,
       owner <- [d \in DID |-> d],
       endorsed <- {p \in DID \X DID : p[1] \in Endorsers(p[2])},
       count <- [d \in DID |-> Len(Entry(d).received)],
       NoOwner <- NoEntry

(* endorse keeps its promise (scoring.rs, "self-endorsement is not allowed", *)
(* "Prevent duplicate endorsement from the same endorser"): the count in a   *)
(* score is the number of others that endorsed the DID, none taken back by   *)
(* factors set later and none counted twice.                                 *)
ScorerEndorses == E!EndorsementSpec
==============================================================================
