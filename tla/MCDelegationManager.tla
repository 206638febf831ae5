------------------------- MODULE MCDelegationManager -------------------------
(* Instances of DelegationManager for TLC. *)
EXTENDS DelegationManager

CONSTANTS r, a, b, c, issue

MCCovers == {<<issue, issue>>}

Ask(p, ch, m) ==
  [parent |-> p, child |-> ch, capabilities |-> {issue}, max_depth |-> m]

(* Clients that delegate downwards only: no request can close a cycle. *)
DownRequest ==
  {Ask(r, a, 1), Ask(a, b, 2), Ask(b, c, 3), Ask(r, b, 1)}

(* Two delegations that close a cycle. *)
CycleRequest == {Ask(a, b, 2), Ask(b, a, 2), Ask(b, c, 2)}
==============================================================================
