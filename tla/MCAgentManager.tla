--------------------------- MODULE MCAgentManager ---------------------------
(* Instances of AgentManager for TLC. *)
EXTENDS AgentManager

CONSTANTS r, a, b, issue

MCCovers == {<<issue, issue>>}

Ask(p, ch, m) ==
  [parent |-> p, child |-> ch, capabilities |-> {issue}, max_depth |-> m]

(* A chain r, a, b and a request that closes a cycle of a and b. *)
MCRequest == {Ask(r, a, 1), Ask(a, b, 2), Ask(b, a, 2)}
==============================================================================
