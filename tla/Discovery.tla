------------------------------ MODULE Discovery ------------------------------
(***************************************************************************)
(* The discovery service: a directory of agents behind one lock.  An agent *)
(* is entered under the text it sent, once the text parses, and replaces   *)
(* what was there.  All that a report says of it, save the depth, is what  *)
(* the agent said of itself.                                               *)
(***************************************************************************)
EXTENDS TrustValues, DIDSyntax

CONSTANTS
  Text,        \* what is sent as a DID
  Capability,  \* the capability texts that agents send
  TrustArg     \* the scores that agents send (u16)

ASSUME TextAssumption == Text \subseteq [padded : BOOLEAN, segments : Seq(STRING)]

VARIABLE directory   \* text -> record

AgentDiscoveryRecord ==
  [agent_class : AgentClass, capabilities : SUBSET Capability, trust_score : TrustArg]

DirectoryInit == directory = [t \in Text |-> NoRecord]

RegisterAgent(t, r) ==
  /\ Parse(t) # NotADID
  /\ directory' = [directory EXCEPT ![t] = r]

(* The capability text that a search gives stands as the set of the        *)
(* capabilities that contain it.                                           *)
SearchParams ==
  [capability : (SUBSET Capability) \cup {Any}, min_trust : TrustArg \cup {Any},
   agent_class : AgentClass \cup {Any}]

SearchAgents(q) ==
  {t \in Text :
     LET r == directory[t]
     IN  /\ r # NoRecord
         /\ q.capability # Any => r.capabilities \cap q.capability # {}
         /\ q.min_trust # Any => r.trust_score >= q.min_trust
         /\ q.agent_class # Any => r.agent_class = q.agent_class}

(* get_agent and get_agent_capabilities *)
GetAgent(t) == directory[t]
GetAgentCapabilities(t) ==
  IF directory[t] = NoRecord THEN NoRecord ELSE directory[t].capabilities

(* The depth a report gives goes by the class in the DID. *)
DelegationDepth(t) ==
  IF Parse(t) = NotADID
    THEN Any
    ELSE CASE Parse(t).agent_class = "delegated" -> 1
           [] Parse(t).agent_class = "autonomous" -> 0
           [] OTHER -> Any

OverallStatus(t) ==
  CASE Parse(t) = NotADID -> "invalid_did"
    [] Parse(t) # NotADID /\ directory[t] = NoRecord -> "unregistered"
    [] directory[t] # NoRecord /\ directory[t].trust_score = 0 -> "untrusted"
    [] OTHER -> "verified"

VerifyAgent(t) ==
  [record |-> directory[t], delegation_depth |-> DelegationDepth(t),
   overall_status |-> OverallStatus(t)]

-----------------------------------------------------------------------------
(* What is in the directory names an agent (main.rs, "Validate the DID      *)
(* syntax."): the text parses, and the DID it parses to, printed, parses to *)
(* itself, whatever the network and however the chain id was written.       *)
EntriesNameAgents ==
  \A t \in Text :
    directory[t] # NoRecord =>
      /\ Parse(t) # NotADID
      /\ Parse(ToURI(Parse(t))) = Parse(t)
==============================================================================
