---------------------------- MODULE TrustServices ----------------------------
(****************************************************************************)
(* What an agent can find out about another: the trust registry, the scorer *)
(* and the discovery directory, with any number of clients that write to    *)
(* them and one call that is watched from its request to its answer.  A     *)
(* function that takes a lock is one step; a call that takes two, or works  *)
(* on after its lock, is cut there, and the clients go between.             *)
(****************************************************************************)
EXTENDS TrustRegistry, TrustScorer, Discovery

CONSTANTS
  StatusArg,   \* the statuses that clients register with
  RecordArg,   \* what agents send to the directory
  Request,     \* the calls that are watched
  MaxWrites,   \* bound: the writes of a behaviour
  Idle         \* no call yet

ASSUME ArgAssumption ==
  /\ StatusArg \subseteq Status /\ MaxWrites \in Nat
  /\ RecordArg \subseteq AgentDiscoveryRecord
ASSUME RequestAssumption ==
  \A r \in Request :
    /\ r.op = "query" => r.query \in TrustQuery
    /\ r.op = "get_score" => r.did \in DID
    /\ r.op = "search" => r.query \in SearchParams

VARIABLES
  call,     \* the watched call: its request, where it is, what it holds
  moments,  \* history: what it could have answered at once, since it began
  writes    \* history: the writes so far

stores == <<store, entries, directory>>
trustVars == <<store, entries, directory, call, moments, writes>>

TrustInit ==
  /\ RegistryInit /\ ScorerInit /\ DirectoryInit
  /\ call = Idle /\ moments = {} /\ writes = 0

(* The answer of a reading call that took no time. *)
Truth(r) ==
  CASE r.op = "query" -> Matches(ListParticipants(r.query.ecosystem), r.query)
    [] r.op = "get_score" -> IF entries[r.did] = NoEntry THEN Any ELSE CalculateScore(r.did)
    [] r.op = "get_endorsements" -> Endorsers(r.did)
    [] r.op = "meets_threshold" -> MeetsThreshold(r.did, r.least)
    [] r.op = "get_ecosystem" -> GetEcosystem(r.ecosystem)
    [] r.op = "check_participant" -> CheckParticipant(r.ecosystem, r.did)
    [] r.op = "search" -> SearchAgents(r.query)
    [] r.op = "get_agent" -> GetAgent(r.did)
    [] r.op = "get_agent_capabilities" -> GetAgentCapabilities(r.did)
    [] r.op = "verify" -> VerifyAgent(r.did)
    [] r.op = "register" -> Any

Write ==
  \/ /\ UNCHANGED <<entries, directory>>
     /\ \E e \in Ecosystem :
          \/ CreateEcosystem(e)
          \/ \E d \in DID, roles \in SUBSET Role, s \in StatusArg :
               RegisterParticipant(e, d, roles, s)
          \/ \E d \in DID, s \in Status : UpdateStatus(e, d, s)
  \/ /\ UNCHANGED <<store, directory>>
     /\ \E d \in DID :
          \/ \E f \in FactorArg : SetFactors(d, f)
          \/ \E a \in DID, w \in WeightArg : Endorse(a, d, w)
  \/ /\ UNCHANGED <<store, entries>>
     /\ \E t \in Text, r \in RecordArg : RegisterAgent(t, r)

Client ==
  /\ writes < MaxWrites
  /\ writes' = writes + 1
  /\ Write
  /\ UNCHANGED call
  /\ moments' = IF call = Idle THEN {} ELSE moments \cup {Truth(call.request)'}

At(pc) == call # Idle /\ call.pc = pc

Ask(r) ==
  /\ call = Idle
  /\ call' = [request |-> r, pc |-> "asked", holds |-> Any]
  /\ moments' = {Truth(r)}
  /\ UNCHANGED <<stores, writes>>

GoTo(pc, x) ==
  /\ call' = [call EXCEPT !.pc = pc, !.holds = x]
  /\ UNCHANGED <<moments, writes>>

(* execute_query: the list is copied under the lock, and filtered after it. *)
List ==
  /\ At("asked") /\ call.request.op = "query"
  /\ GoTo("listed", ListParticipants(call.request.query.ecosystem))
  /\ UNCHANGED stores

Filter ==
  /\ At("listed")
  /\ GoTo("answered", Matches(call.holds, call.request.query))
  /\ UNCHANGED stores

(* get_score: the lock of contains_key is dropped before calculate_score   *)
(* takes it again.                                                         *)
Contains ==
  /\ At("asked") /\ call.request.op = "get_score"
  /\ GoTo(IF entries[call.request.did] = NoEntry THEN "answered" ELSE "known", Any)
  /\ UNCHANGED stores

Calculate ==
  /\ At("known")
  /\ GoTo("answered", CalculateScore(call.request.did))
  /\ UNCHANGED stores

(* The others take one lock and answer with what they saw under it; the    *)
(* directory's handlers hold theirs to the end.                            *)
LookUp ==
  /\ At("asked") /\ call.request.op \notin {"query", "get_score", "register"}
  /\ GoTo("answered", Truth(call.request))
  /\ UNCHANGED stores

(* The service's register_participant: an active participant is registered, *)
(* and fetched under another lock; a refusal answers at once.               *)
Register ==
  /\ At("asked") /\ call.request.op = "register"
  /\ RegisterParticipant(call.request.ecosystem, call.request.did,
                         call.request.roles, "Active")
  /\ GoTo("registered", Any)
  /\ UNCHANGED <<entries, directory>>

RegisterRefused ==
  /\ At("asked") /\ call.request.op = "register"
  /\ LET r == call.request
     IN  store[r.ecosystem] = NoEntry \/ CheckParticipant(r.ecosystem, r.did) # NoRecord
  /\ GoTo("refused", Any)
  /\ UNCHANGED stores

Fetch ==
  /\ At("registered")
  /\ GoTo("answered", CheckParticipant(call.request.ecosystem, call.request.did))
  /\ UNCHANGED stores

Step ==
  \/ List \/ Filter \/ Contains \/ Calculate \/ LookUp
  \/ Register \/ RegisterRefused \/ Fetch

TrustNext == Client \/ Step \/ \E r \in Request : Ask(r)

TrustSpec == TrustInit /\ [][TrustNext]_trustVars

-----------------------------------------------------------------------------
(* A query, a score or a report is true of one moment between its request  *)
(* and its answer, whatever was written while the call was under way: a    *)
(* list is not filtered by what changed after it, and the second lock of   *)
(* get_score finds what the first one saw (scoring.rs, "Release read lock  *)
(* before calling calculate.").                                            *)
ReadsAreAtomic ==
  At("answered") /\ call.request.op # "register" => call.holds \in moments
==============================================================================
