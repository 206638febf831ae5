-------------------------- MODULE MCDelegationAudit --------------------------
(* Instances of DelegationAudit for TLC, with real capabilities. *)
EXTENDS DelegationAudit, TLC

CONSTANTS r, a, b, c, credential, issue, limit, region, eu, us

Cap(constraints) == [resource |-> credential, action |-> issue, constraints |-> constraints]
Limit(n) == [key |-> limit, value |-> n]
InEU == [key |-> region, value |-> eu]

anything == Cap(<<>>)
ten == Cap(<<Limit(10)>>)
five == Cap(<<Limit(5)>>)
fiveInEU == Cap(<<Limit(5), InEU>>)
twice == Cap(<<Limit(10), Limit(11)>>)
never == Cap(<<Limit(NaN)>>)

MCCapability == {anything, ten, five, fiveInEU, twice, never}
MCCovers == {pc \in MCCapability \X MCCapability : CapabilityMatches(pc[2], pc[1])}

MCUse ==
  {[resource |-> credential, action |-> issue, context |-> x] :
     x \in {<<>>} \cup [{limit} -> {5, 10, 11, NaN}] \cup [{region} -> {eu, us}]
           \cup {(limit :> n) @@ (region :> w) : n \in {5, 10, 11}, w \in {eu, us}}}

Ask(p, ch, caps, m) ==
  [parent |-> p, child |-> ch, capabilities |-> caps, max_depth |-> m]

(* A chain r, a, b, c; a second parent for b and for c; a child that asks  *)
(* for more than its parent may hold; one delegation too deep for its own  *)
(* limit, of capabilities with a key named twice and with a bound that is  *)
(* no number; one with no capability; and one that closes a cycle.         *)
MCRequest ==
  {Ask(r, a, {ten}, 1), Ask(a, b, {five}, 2), Ask(a, b, {anything}, 2),
   Ask(b, c, {fiveInEU}, 3), Ask(r, b, {}, 1), Ask(a, c, {twice, never}, 1),
   Ask(c, a, {ten}, 4)}

(* One parent, one child below it. *)
RaceRequest == {Ask(r, a, {ten}, 1), Ask(a, b, {five}, 2)}
==============================================================================
