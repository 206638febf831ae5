-------------------------- MODULE MCAgentMessaging --------------------------
EXTENDS AgentMessaging, TLC

CONSTANTS alice, bob, thread

(* Bob has two handlers for a ping, the second of which never answers one. *)
MCAsyncRoutes == alice :> <<>> @@ bob :> (TRUST_PING :> "TrustPing")

MCSyncRoutes ==
  alice :> (TRUST_PING :> "TrustPing")
    @@ bob :> (TRUST_PING :> "AgentAuth" @@ AGENT_AUTH_REQUEST :> "AgentAuth")

AskFor(type, named, copied, thid, requested) ==
  [type |-> type, named |-> named, copied |-> copied, thid |-> thid,
   requested |-> requested]

(* A ping in a thread, with a copy to its maker; two pings that nobody     *)
(* answers; and a request that starts a thread.                            *)
MCRequest ==
  {AskFor(TRUST_PING, TRUE, TRUE, thread, Absent),
   AskFor(TRUST_PING, TRUE, FALSE, Absent, FALSE),
   AskFor(TRUST_PING, FALSE, FALSE, Absent, TRUE),
   AskFor(AGENT_AUTH_REQUEST, TRUE, FALSE, Absent, Absent)}
=============================================================================
