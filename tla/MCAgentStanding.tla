--------------------------- MODULE MCAgentStanding ---------------------------
(***************************************************************************)
(* How an agent stands with others: in the services, and in two contracts  *)
(* on a chain, what it may do and how it is thought of.  No service reads  *)
(* the contracts, and they do not call each other, so that each is         *)
(* explored by itself while the others stand still: side says which.  A    *)
(* score has the same scale in the services and on the chain.              *)
(*                                                                         *)
(* The services: one ecosystem, three DIDs, a request of each kind, four   *)
(* writes: a participant that is registered and changed twice, a score     *)
(* with one more endorsement than counts.  The contracts: three blocks, so *)
(* that there is one before and one after the block of a sweep; two        *)
(* accounts, one of which may grant what the other has granted in the same *)
(* block; one agent, since the agents' lists share nothing.  Tokens for    *)
(* the DIDs of the services, as many as two.                               *)
(***************************************************************************)
EXTENDS TrustServices

CONSTANTS
  Account, AgentDID, Credential,
  ScoreArg, RootArg, ZeroRoot, MaxTokenId, NoToken,
  ExpiryArg, MaxTime, MaxGrants

T == INSTANCE TLC

MCText == {
  [padded |-> FALSE, segments |-> <<"did", "trustagent", "evm", "0137", "delegated", "k1">>],
  [padded |-> TRUE, segments |-> <<"did", "trustagent", "web", "a.com", "autonomous", "k2", "x">>],
  [padded |-> FALSE, segments |-> <<"did", "trustagent", "evm", "k1">>]}

MCNumber == [s \in {"137", "0137"} |-> 137]
MCDecimal == [n \in {137} |-> "137"]

MCFactor == {[depth |-> 12, days |-> 400, behavior |-> 0]}

MCRecord ==
  [agent_class : {"autonomous"}, capabilities : {{"read"}}, trust_score : {0, 60}]

(* What takes one lock is asked about one DID and one text. *)
ADID == CHOOSE d \in DID : TRUE
AText == CHOOSE t \in Text : t.segments[3] = "web"

MCRequest ==
  {[op |-> "query", query |-> [ecosystem |-> e, subject |-> Any, role |-> Any, status |-> s]] :
     e \in Ecosystem, s \in {Any, "Suspended"}}
  \cup {[op |-> "query",
         query |-> [ecosystem |-> e, subject |-> {d}, role |-> x, status |-> "Active"]] :
          e \in Ecosystem, d \in DID, x \in Role}
  \cup {[op |-> "get_score", did |-> d] : d \in DID}
  \cup {[op |-> "register", ecosystem |-> e, did |-> d, roles |-> Role] :
          e \in Ecosystem, d \in DID}
  \cup {[op |-> o, did |-> t] :
          o \in {"verify", "get_agent", "get_agent_capabilities"}, t \in {AText}}
  \cup {[op |-> "get_ecosystem", ecosystem |-> e] : e \in Ecosystem}
  \cup {[op |-> "check_participant", ecosystem |-> e, did |-> d] :
          e \in Ecosystem, d \in {ADID}}
  \cup {[op |-> "get_endorsements", did |-> d] : d \in {ADID}}
  \cup {[op |-> "meets_threshold", did |-> d, least |-> 4000] : d \in {ADID}}
  \cup {[op |-> "search",
         query |-> [capability |-> {"read"}, min_trust |-> 60, agent_class |-> "autonomous"]]}

Symmetry == T!Permutations(Account)

-----------------------------------------------------------------------------
VARIABLES
  side,
  tokens, didToToken, endorsers,
  records, agentCapabilities, now, swept

SBT == INSTANCE AgentSBT WITH AgentDID <- DID
Grants == INSTANCE AgentCapabilityRegistry

ASSUME TokenAssumption == NoToken \notin Account \cup SBT!TokenData /\ MaxTokenId \in Nat
ASSUME GrantAssumption ==
  /\ NoRecord \notin Grants!CapabilityRecord
  /\ ExpiryArg \subseteq Nat /\ MaxTime \in Nat \ {0}

tokenVars == <<tokens, didToToken, endorsers>>
grantVars == <<records, agentCapabilities, now, swept>>
standingVars == <<trustVars, tokenVars, grantVars, side>>

StandingInit ==
  /\ TrustInit /\ SBT!SBTInit /\ Grants!CapabilityInit
  /\ side \in {"services", "token", "capabilities"}

StandingNext ==
  /\ UNCHANGED side
  /\ \/ side = "services" /\ TrustNext /\ UNCHANGED <<tokenVars, grantVars>>
     \/ side = "token" /\ SBT!SBTNext /\ UNCHANGED <<trustVars, grantVars>>
     \/ side = "capabilities" /\ Grants!CapabilityNext /\ UNCHANGED <<trustVars, tokenVars>>

StandingSpec == StandingInit /\ [][StandingNext]_standingVars

(* The contracts' properties, as stated in their modules: a capability that *)
(* lapsed in an earlier block stays so, a sweep leaves nothing of its       *)
(* caller's, and a token's count is the number of accounts that endorsed.   *)
LapsedStaysLapsed == Grants!LapsedStaysLapsed
SweptStaysRevoked == Grants!SweptStaysRevoked
TokenEndorses == SBT!TokenEndorses
=============================================================================
