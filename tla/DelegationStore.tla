--------------------------- MODULE DelegationStore ---------------------------
(***************************************************************************)
(* What the delegation engine of trustdid-agent promises to the services   *)
(* built on it: a map from each child DID to the record of who delegated   *)
(* to it, changed by atomic steps.                                         *)
(*                                                                         *)
(* A `delegate` call is two steps, because the code validates the request  *)
(* under a read lock, drops it, and inserts the record under a write lock  *)
(* taken later.  Any step of any other call may fall between the two.      *)
(* `revoke` is one step: it holds the write lock from start to end.        *)
(* DelegationManager refines this module: it has the lock and the loops.   *)
(***************************************************************************)
EXTENDS DelegationGraph, Integers, FiniteSets

CONSTANTS
  Capability,  \* capabilities, constraints included
  Covers,      \* <<parent, child>>: `child` grants no more than `parent`
  DepthRange,  \* one more than the largest depth a record can hold (u8: 256)
  Task,        \* the concurrent calls
  Request      \* the delegations clients ask for

Depth == 0 .. DepthRange - 1

(* The arguments of `delegate`. *)
RequestType ==
  [parent : DID, child : DID, capabilities : SUBSET Capability, max_depth : Depth]

(* A DelegationRecord.  The class and the creation time decide nothing. *)
Record ==
  [parent : DID, child : DID, capabilities : SUBSET Capability,
   max_depth : Depth, depth : Depth, revoked : BOOLEAN]

ASSUME DepthRangeAssumption == DepthRange \in Nat \ {0}
ASSUME RequestAssumption == Request \subseteq RequestType
ASSUME NoRecordAssumption == NoRecord \notin Record

VARIABLES
  records,  \* DelegationManager.records
  pending   \* pending[t]: the record t has validated and not yet inserted

storeVars == <<records, pending>>

TypeOK ==
  /\ records \in [DID -> Record \cup {NoRecord}]
  /\ pending \in [Task -> Record \cup {NoRecord}]

-----------------------------------------------------------------------------
(* The checks of `delegate`. *)

IsSubset(child_caps, parent_caps) ==
  \A c \in child_caps : \E p \in parent_caps : <<p, c>> \in Covers

(* A parent with no record is a root: depth 0, and no capability of its own. *)
ParentDepth(p) == IF Has(records, p) THEN records[p].depth ELSE 0
ParentCaps(p) == IF Has(records, p) THEN records[p].capabilities ELSE {}

(* Bug: a root's child starts again at depth 0. *)
BugNewDepth(p) == (IF Has(records, p) THEN records[p].depth + 1 ELSE 0) % DepthRange

(* `parent_depth + 1` on a u8.  A build with overflow checks panics where  *)
(* this wraps: the call then ends without a record, as a refused one does. *)
NewDepth(p) == (ParentDepth(p) + 1) % DepthRange

(* Bug: the capabilities asked for are taken as they are. *)
BugAdmissibleAnyCaps(q) ==
  /\ Has(records, q.parent) => ~records[q.parent].revoked
  /\ ~Has(records, q.child)
  /\ NewDepth(q.parent) <= q.max_depth

Admissible(q) ==
  /\ Has(records, q.parent) => ~records[q.parent].revoked
  /\ ~Has(records, q.child)
  /\ NewDepth(q.parent) <= q.max_depth
  /\ ParentCaps(q.parent) # {} => IsSubset(q.capabilities, ParentCaps(q.parent))

NewRecord(q) ==
  [parent |-> q.parent, child |-> q.child, capabilities |-> q.capabilities,
   max_depth |-> q.max_depth, depth |-> NewDepth(q.parent), revoked |-> FALSE]

-----------------------------------------------------------------------------
Init ==
  /\ records = [d \in DID |-> NoRecord]
  /\ pending = [t \in Task |-> NoRecord]

(* delegate, first half: under the read lock. *)
Validate(t, q) ==
  /\ pending[t] = NoRecord
  /\ Admissible(q)
  /\ pending' = [pending EXCEPT ![t] = NewRecord(q)]
  /\ UNCHANGED records

(* delegate, second half: the write lock is taken again and the record     *)
(* replaces whatever the map holds for the child.                          *)
Insert(t) ==
  /\ pending[t] # NoRecord
  /\ records' = [records EXCEPT ![pending[t].child] = pending[t]]
  /\ pending' = [pending EXCEPT ![t] = NoRecord]

(* revoke(did, false) *)
RevokeOne(d) ==
  /\ Live(records, d)
  /\ records' = RevokeAll(records, {d})
  /\ UNCHANGED pending

(* Bug: the walk stops at the direct children. *)
BugRevokeOneLevel(d) ==
  /\ Live(records, d)
  /\ records' = RevokeAll(records, {d} \cup LiveChildren(records, {d}))
  /\ UNCHANGED pending

(* revoke(did, true): the live delegations below did go with it.  The walk *)
(* does not pass a record that was revoked before.                         *)
RevokeCascade(d) ==
  /\ Live(records, d)
  /\ records' = RevokeAll(records, {d} \cup LiveBelow(records, {d}))
  /\ UNCHANGED pending

Next ==
  \/ \E t \in Task, q \in Request : Validate(t, q)
  \/ \E t \in Task : Insert(t)
  \/ \E d \in DID : RevokeOne(d) \/ RevokeCascade(d)

Spec == Init /\ [][Next]_storeVars
==============================================================================
