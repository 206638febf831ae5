---------------------------- MODULE AgentManager ----------------------------
(***************************************************************************)
(* AgentManager of trustdid-agent over the delegation store it shares with *)
(* the registrar.  The agents' map has a lock of its own, taken for one    *)
(* agent at a time: `decommission` is a sequence of short critical         *)
(* sections on two maps, and calls of other tasks fall between them.       *)
(***************************************************************************)
EXTENDS DelegationStore, Lifecycle

CONSTANTS
  Known,   \* the DIDs that `create` may draw; the others are foreign to this registrar
  Absent,  \* no such agent in the map
  NoCall   \* a task is not decommissioning

ASSUME KnownAssumption == Known \subseteq DID
ASSUME AbsentAssumption == Absent \notin LifecycleState

VARIABLES
  agents,  \* agents[d]: the lifecycle state of d's AgentRecord
  decom    \* decom[t]: t's decommission call, with its local variables

agentVars == <<records, pending, agents, decom>>

(* `queue` and `children` are what is left of the two nested loops; a call   *)
(* that does not cascade has no loop.  `quiet` is history: no other call has *)
(* changed the delegations since this one began.                             *)
DecomCall ==
  [target : DID, cascade : BOOLEAN, queue : SUBSET DID, children : SUBSET DID,
   visited : SUBSET DID, decommissioned : SUBSET DID, quiet : BOOLEAN]

ASSUME NoCallAssumption == NoCall \notin DecomCall

(* The other decommissions under way have had the delegations changed      *)
(* behind their back.                                                      *)
Disturb(t) ==
  [u \in Task |-> IF u # t /\ decom[u] # NoCall
                    THEN [decom[u] EXCEPT !.quiet = FALSE]
                    ELSE decom[u]]

AgentInit ==
  /\ Init
  /\ agents = [d \in DID |-> Absent]
  /\ decom = [t \in Task |-> NoCall]

-----------------------------------------------------------------------------
FreeTask(t) == pending[t] = NoRecord /\ decom[t] = NoCall

(* The identifier is a new UUID: nothing has named it yet. *)
Unused(d) ==
  /\ d \in Known
  /\ agents[d] = Absent
  /\ ~Has(records, d)
  /\ \A x \in DID : Has(records, x) => records[x].parent # d
  /\ \A t \in Task : pending[t] # NoRecord => d \notin {pending[t].parent, pending[t].child}

Create(d) ==
  /\ Unused(d)
  /\ agents' = [agents EXCEPT ![d] = "active"]
  /\ UNCHANGED <<storeVars, decom>>

Transition(t, d, target) ==
  /\ FreeTask(t)
  /\ agents[d] # Absent
  /\ <<agents[d], target>> \in CanTransition
  /\ agents' = [agents EXCEPT ![d] = target]
  /\ UNCHANGED <<storeVars, decom>>

Suspend(t, d) == Transition(t, d, "suspended")
Resume(t, d) == Transition(t, d, "active")
Deactivate(t, d) == Transition(t, d, "deactivated")

(* The registrar's other calls on the shared DelegationManager.  `delegate` *)
(* does not look at the agents' map.                                        *)
StartDelegate(t, q) ==
  /\ FreeTask(t)
  /\ Validate(t, q)
  /\ UNCHANGED <<agents, decom>>

EndDelegate(t) ==
  /\ Insert(t)
  /\ decom' = Disturb(t)
  /\ UNCHANGED agents

RevokeCall(t, d) ==
  /\ FreeTask(t)
  /\ RevokeOne(d) \/ RevokeCascade(d)
  /\ decom' = Disturb(t)
  /\ UNCHANGED agents

-----------------------------------------------------------------------------
(* decommission_single: `Ok` and nothing done if the agent is decommissioned *)
(* already, `Err(NotFound)` if there is none; otherwise any state is forced  *)
(* through to decommissioned and the DID reported.                           *)
ToDecommission(d) == agents[d] \notin {Absent, "decommissioned"}

Decommissioned(d) ==
  IF ToDecommission(d) THEN [agents EXCEPT ![d] = "decommissioned"] ELSE agents

(* Bug: a decommissioned agent is reported again. *)
BugReported(d) == IF agents[d] # Absent THEN {d} ELSE {}

Reported(d) == IF ToDecommission(d) THEN {d} ELSE {}

DecommissionStart(t, d, cascade) ==
  /\ FreeTask(t)
  /\ agents[d] # Absent
  /\ agents' = Decommissioned(d)
  /\ decom' = [decom EXCEPT ![t] =
       [target |-> d, cascade |-> cascade, queue |-> IF cascade THEN {d} ELSE {},
        children |-> {}, visited |-> {d}, decommissioned |-> Reported(d), quiet |-> TRUE]]
  /\ UNCHANGED storeVars

(* `queue.pop()` and get_children, under the delegation store's read lock. *)
(* The children come out of a HashMap, so neither their order nor the      *)
(* queue's is fixed.                                                       *)
Scan(t) ==
  /\ decom[t] # NoCall
  /\ decom[t].children = {}
  /\ \E p \in decom[t].queue :
       decom' = [decom EXCEPT ![t].queue = @ \ {p},
                              ![t].children = LiveChildren(records, {p})]
  /\ UNCHANGED <<storeVars, agents>>

(* Bug: no set of visited DIDs. *)
BugVisitAgain(t) ==
  /\ decom[t] # NoCall
  /\ \E c \in decom[t].children :
       /\ agents' = Decommissioned(c)
       /\ decom' = [decom EXCEPT ![t].children = @ \ {c},
                                 ![t].queue = @ \cup {c},
                                 ![t].visited = @ \cup {c},
                                 ![t].decommissioned = @ \cup Reported(c)]
  /\ UNCHANGED storeVars

(* One child: decommission_single takes the agents' write lock for it alone, *)
(* and a child that is not in the map is queued all the same.                *)
Visit(t) ==
  /\ decom[t] # NoCall
  /\ \E c \in decom[t].children :
       IF c \in decom[t].visited
         THEN /\ decom' = [decom EXCEPT ![t].children = @ \ {c}]
              /\ UNCHANGED agents
         ELSE /\ agents' = Decommissioned(c)
              /\ decom' = [decom EXCEPT ![t].children = @ \ {c},
                                        ![t].queue = @ \cup {c},
                                        ![t].visited = @ \cup {c},
                                        ![t].decommissioned = @ \cup Reported(c)]
  /\ UNCHANGED storeVars

(* Both loops are at their end. *)
Scanned(t) == decom[t] # NoCall /\ decom[t].queue = {} /\ decom[t].children = {}

(* Bug: the cascade of the delegations is left to the caller. *)
BugRevokeOnly(t) ==
  /\ Scanned(t)
  /\ IF Live(records, decom[t].target)
       THEN RevokeOne(decom[t].target)
       ELSE UNCHANGED storeVars
  /\ decom' = [Disturb(t) EXCEPT ![t] = NoCall]
  /\ UNCHANGED agents

(* The last step, and the answer.  `if let Ok(revoked)`: an error of revoke *)
(* - no record, or one already revoked - is dropped, and the answer is Ok.  *)
Revoke(t) ==
  /\ Scanned(t)
  /\ LET d == decom[t].target IN
       IF Live(records, d)
         THEN /\ IF decom[t].cascade THEN RevokeCascade(d) ELSE RevokeOne(d)
              /\ decom' = [Disturb(t) EXCEPT ![t] = NoCall]
         ELSE /\ decom' = [decom EXCEPT ![t] = NoCall]
              /\ UNCHANGED storeVars
  /\ UNCHANGED agents

(* What the registrar's handler answers at the last step. *)
DecommissionResponse(t) ==
  [decommissioned_agents |-> decom[t].decommissioned,
   revoked_delegations |-> {d \in DID : Live(records, d) /\ records'[d].revoked}]

AgentNext ==
  \/ \E d \in DID : Create(d)
  \/ \E t \in Task :
       \/ \E d \in DID : Suspend(t, d) \/ Resume(t, d) \/ Deactivate(t, d)
       \/ \E q \in Request : StartDelegate(t, q)
       \/ EndDelegate(t)
       \/ \E d \in DID : RevokeCall(t, d)
       \/ \E d \in DID, cascade \in BOOLEAN : DecommissionStart(t, d, cascade)
       \/ Scan(t) \/ Visit(t) \/ Revoke(t)

(* A handler that the runtime keeps polling takes its next step. *)
AgentFairness ==
  \A t \in Task : WF_agentVars(Scan(t) \/ Visit(t) \/ Revoke(t))

AgentSpec == AgentInit /\ [][AgentNext]_agentVars
FairAgentSpec == AgentSpec /\ AgentFairness

-----------------------------------------------------------------------------
(* decommission_single tests and sets under one write lock, so of two calls *)
(* that reach an agent at the same time exactly one reports it; what is     *)
(* reported is decommissioned, and so is every agent a call has visited.    *)
ReportedOnce ==
  \A t \in Task : decom[t] # NoCall =>
    /\ \A d \in decom[t].decommissioned : agents[d] = "decommissioned"
    /\ \A d \in decom[t].visited : agents[d] \in {Absent, "decommissioned"}
    /\ \A u \in Task \ {t} : decom[u] # NoCall =>
         decom[t].decommissioned \cap decom[u].decommissioned = {}

(* A cascading decommission whose delegations nobody else changes has       *)
(* visited every DID with a live delegation below its target by the time it *)
(* revokes, through DIDs the agents' map does not know as well.  If the     *)
(* target has a live delegation too, the delegations its answer lists are   *)
(* exactly those of the DIDs it visited, none of them has a live child left *)
(* and every agent of the answer is among them: the two walks, one over     *)
(* each map, agree.                                                         *)
QuietCascadeRevokesAll ==
  [][\A t \in Task :
       Revoke(t) /\ decom[t].cascade /\ decom[t].quiet =>
         /\ LiveBelow(records, {decom[t].target}) \subseteq decom[t].visited
         /\ Live(records, decom[t].target) =>
              /\ DecommissionResponse(t).revoked_delegations = decom[t].visited
              /\ DecommissionResponse(t).decommissioned_agents
                   \subseteq DecommissionResponse(t).revoked_delegations
              /\ LiveChildren(records', decom[t].visited) = {}]_agentVars

(* "Permanently destroyed": no resume, no suspend and no race with one ever *)
(* takes an agent out of decommissioned, and out of deactivated only there. *)
NoWayBack ==
  [][\A d \in DID :
       /\ agents[d] = "decommissioned" => agents'[d] = "decommissioned"
       /\ agents[d] = "deactivated" => agents'[d] \in {"deactivated", "decommissioned"}]_agentVars

(* Every decommission ends, whatever the others do to the delegations      *)
(* meanwhile, and around a cycle of delegations as well.                   *)
DecommissionReturns ==
  \A t \in Task : decom[t] # NoCall ~> decom[t] = NoCall
==============================================================================
