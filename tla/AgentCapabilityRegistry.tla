----------------------- MODULE AgentCapabilityRegistry -----------------------
(****************************************************************************)
(* The contract AgentCapabilityRegistry: records of capability credentials, *)
(* and for each agent the list of the ids it was granted.  An id is the     *)
(* hash of the agent, the credential and the block's time; it stands here   *)
(* for the three.                                                           *)
(****************************************************************************)
EXTENDS Integers, Sequences

CONSTANTS
  Account,     \* msg.sender
  AgentDID,    \* the DIDs that callers pass, or their hashes
  Credential,  \* credential hashes
  ExpiryArg,   \* the expiry times callers pass; 0 is none
  MaxTime,     \* bound: the time of the last block
  MaxGrants,   \* bound: the ids in the list of an agent
  NoRecord     \* nothing is stored under the id

Time == 1 .. MaxTime

RecordId == AgentDID \X Credential \X Time

VARIABLES
  records,            \* _records
  agentCapabilities,  \* _agentCapabilities
  now,                \* block.timestamp
  swept               \* history: <<granter, agent, time>> of each revokeAll

registryVars == <<records, agentCapabilities, now, swept>>

CapabilityRecord == [grantedBy : Account, expiresAt : ExpiryArg, revoked : BOOLEAN]

CapabilityInit ==
  /\ records = [id \in RecordId |-> NoRecord]
  /\ agentCapabilities = [d \in AgentDID |-> <<>>]
  /\ now = 1
  /\ swept = {}

(* The next block has a later time. *)
NextBlock ==
  /\ now < MaxTime
  /\ now' = now + 1
  /\ UNCHANGED <<records, agentCapabilities, swept>>

(* Bug: the time is not hashed. *)
BugIdOf(d, c) == <<d, c, 1>>

IdOf(d, c) == <<d, c, now>>

(* A grant of the same credential in the same block takes the place of the *)
(* record that is there, whoever granted it and revoked or not.            *)
GrantCapability(a, d, c, expiresAt) ==
  /\ Len(agentCapabilities[d]) < MaxGrants
  /\ records' = [records EXCEPT
       ![IdOf(d, c)] = [grantedBy |-> a, expiresAt |-> expiresAt, revoked |-> FALSE]]
  /\ agentCapabilities' = [agentCapabilities EXCEPT ![d] = Append(@, IdOf(d, c))]
  /\ UNCHANGED <<now, swept>>

RevokeCapability(a, id) ==
  /\ records[id] # NoRecord
  /\ records[id].grantedBy = a
  /\ ~records[id].revoked
  /\ records' = [records EXCEPT ![id].revoked = TRUE]
  /\ UNCHANGED <<agentCapabilities, now, swept>>

(* Bug: the loop ends one before the last. *)
BugListed(d) ==
  {agentCapabilities[d][i] : i \in 1 .. Len(agentCapabilities[d]) - 1}

Listed(d) == {agentCapabilities[d][i] : i \in 1 .. Len(agentCapabilities[d])}

RevokeAll(a, d) ==
  /\ records' = [id \in RecordId |->
       IF id \in Listed(d) /\ records[id].grantedBy = a
         THEN [records[id] EXCEPT !.revoked = TRUE]
         ELSE records[id]]
  /\ swept' = swept \cup {<<a, d, now>>}
  /\ UNCHANGED <<agentCapabilities, now>>

IsActive(id) ==
  /\ records[id] # NoRecord
  /\ ~records[id].revoked
  /\ records[id].expiresAt # 0 => now <= records[id].expiresAt

CapabilityNext ==
  \/ NextBlock
  \/ \E a \in Account :
       \/ \E d \in AgentDID, c \in Credential, x \in ExpiryArg : GrantCapability(a, d, c, x)
       \/ \E id \in RecordId : RevokeCapability(a, id)
       \/ \E d \in AgentDID : RevokeAll(a, d)

CapabilitySpec == CapabilityInit /\ [][CapabilityNext]_registryVars

-----------------------------------------------------------------------------
(* A capability that is not active once its block has passed never is      *)
(* again: neither a later grant of the same credential nor the end of      *)
(* another one brings it back.  Within its own block a second grant does.  *)
LapsedStaysLapsed ==
  [][\A id \in RecordId :
       id[3] < now /\ ~IsActive(id) => ~IsActive(id)']_registryVars

(* revokeAll ("used during decommission") leaves nothing of its caller's    *)
(* standing: what the caller granted the agent in blocks before that of the *)
(* call is revoked, for good.                                               *)
SweptStaysRevoked ==
  \A s \in swept, id \in RecordId :
    /\ records[id] # NoRecord
    /\ records[id].grantedBy = s[1] /\ id[1] = s[2] /\ id[3] < s[3]
    => records[id].revoked
==============================================================================
