------------------------------ MODULE Lifecycle ------------------------------
(* The lifecycle of an agent's identity, as trustdid-core defines it for the *)
(* agents' records and for the DID documents.                                *)

LifecycleState ==
  {"created", "active", "suspended", "rotating", "deactivated", "decommissioned"}

(* Bug: a deactivated agent may be resumed. *)
BugCanTransition ==
  {<<"active", "suspended">>, <<"active", "deactivated">>, <<"suspended", "active">>,
   <<"suspended", "deactivated">>, <<"deactivated", "active">>}

(* LifecycleState::can_transition_to *)
CanTransition ==
  {<<"created", "active">>, <<"active", "suspended">>, <<"active", "rotating">>,
   <<"active", "deactivated">>, <<"suspended", "active">>,
   <<"suspended", "deactivated">>, <<"rotating", "active">>,
   <<"deactivated", "decommissioned">>}
==============================================================================
