------------------------------ MODULE AgentSBT ------------------------------
(***************************************************************************)
(* The contract AgentSBT, a token of reputation for each agent.  A         *)
(* transaction is one step and a reverted one is none.  The times of       *)
(* minting and of the last update are stored and never read; they are left *)
(* out.  No function transfers a token.                                    *)
(***************************************************************************)
EXTENDS Naturals

CONSTANTS
  Account,     \* msg.sender
  AgentDID,    \* the DIDs that callers pass, or their hashes
  ScoreArg,    \* the scores that callers pass (uint16)
  RootArg,     \* Merkle roots; ZeroRoot is the first
  ZeroRoot,
  MAX_SCORE,   \* 10 000
  MaxTokenId,  \* bound: the tokens minted
  NoToken      \* the token id has no owner

Token == 1 .. MaxTokenId

VARIABLES
  tokens,     \* _tokens
  didToToken, \* _didToToken, 0 for none
  endorsers   \* _endorsers

sbtVars == <<tokens, didToToken, endorsers>>

TokenData ==
  [owner : Account, agentDID : AgentDID, trustScore : ScoreArg \cup {0},
   endorsementCount : Nat, behaviorMerkleRoot : RootArg \cup {ZeroRoot}]

SBTInit ==
  /\ tokens = [t \in Token |-> NoToken]
  /\ didToToken = [d \in AgentDID |-> 0]
  /\ endorsers = [t \in Token |-> {}]

Minted(t) == tokens[t] # NoToken

(* _nextTokenId counts up from 1. *)
NextTokenId == CHOOSE t \in 1 .. MaxTokenId + 1 :
                 /\ t \in Token => ~Minted(t)
                 /\ \A u \in 1 .. t - 1 : Minted(u)

Mint(a, d, score) ==
  /\ score <= MAX_SCORE
  /\ didToToken[d] = 0
  /\ NextTokenId \in Token
  /\ tokens' = [tokens EXCEPT ![NextTokenId] =
       [owner |-> a, agentDID |-> d, trustScore |-> score,
        endorsementCount |-> 0, behaviorMerkleRoot |-> ZeroRoot]]
  /\ didToToken' = [didToToken EXCEPT ![d] = NextTokenId]
  /\ UNCHANGED endorsers

(* Bug: the endorsement is counted before it is looked for. *)
BugEndorse(a, t) ==
  /\ Minted(t)
  /\ tokens[t].owner # a
  /\ endorsers' = [endorsers EXCEPT ![t] = @ \cup {a}]
  /\ tokens' = [tokens EXCEPT ![t].endorsementCount = @ + 1]
  /\ UNCHANGED didToToken

Endorse(a, t) ==
  /\ Minted(t)
  /\ tokens[t].owner # a
  /\ a \notin endorsers[t]
  /\ endorsers' = [endorsers EXCEPT ![t] = @ \cup {a}]
  /\ tokens' = [tokens EXCEPT ![t].endorsementCount = @ + 1]
  /\ UNCHANGED didToToken

OwnedBy(a, t) == Minted(t) /\ tokens[t].owner = a

UpdateTrustScore(a, t, score) ==
  /\ OwnedBy(a, t)
  /\ score <= MAX_SCORE
  /\ tokens' = [tokens EXCEPT ![t].trustScore = score]
  /\ UNCHANGED <<didToToken, endorsers>>

UpdateBehaviorRoot(a, t, root) ==
  /\ OwnedBy(a, t)
  /\ tokens' = [tokens EXCEPT ![t].behaviorMerkleRoot = root]
  /\ UNCHANGED <<didToToken, endorsers>>

Archive(a, t) ==
  /\ OwnedBy(a, t)
  /\ tokens' = [tokens EXCEPT ![t].trustScore = 0]
  /\ UNCHANGED <<didToToken, endorsers>>

SBTNext ==
  \E a \in Account :
    \/ \E d \in AgentDID, score \in ScoreArg : Mint(a, d, score)
    \/ \E t \in Token :
         \/ Endorse(a, t)
         \/ \E score \in ScoreArg : UpdateTrustScore(a, t, score)
         \/ \E root \in RootArg : UpdateBehaviorRoot(a, t, root)
         \/ Archive(a, t)

SBTSpec == SBTInit /\ [][SBTNext]_sbtVars

(* getToken; of a token that was not minted there is nothing to get. *)
GetToken(t) ==
  IF Minted(t) THEN tokens[t] ELSE [owner |-> NoToken, endorsementCount |-> 0]

HasEndorsed(a, t) == a \in endorsers[t]

-----------------------------------------------------------------------------
E == INSTANCE Endorsements WITH
       Party <- Account, Subject <- Token,
       owner <- [t \in Token |-> GetToken(t).owner],
       endorsed <- {p \in Account \X Token : HasEndorsed(p[1], p[2])},
       count <- [t \in Token |-> GetToken(t).endorsementCount],
       NoOwner <- NoToken

(* A token's endorsementCount is the number of accounts, its owner not     *)
(* among them, that endorsed it, each once (CannotSelfEndorse,             *)
(* AlreadyEndorsed); it stays its owner's ("Soulbound"), and nothing an    *)
(* owner does, archiving included, takes an endorsement away.              *)
TokenEndorses == E!EndorsementSpec
=============================================================================
