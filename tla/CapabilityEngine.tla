-------------------------- MODULE CapabilityEngine --------------------------
(***************************************************************************)
(* CapabilityEngine of trustdid-agent: when one capability covers another, *)
(* what narrowing one by another gives, and what a capability allows.      *)
(*                                                                         *)
(* A value that parses as a number is a Number or NaN, and is compared as  *)
(* one; the others are Words and are compared as strings.                  *)
(***************************************************************************)
EXTENDS Integers, SequencesExt

CONSTANTS
  Key,     \* the keys of constraints
  Number,  \* the values that parse as numbers which have an order
  NaN,     \* the value that parses as the number that has none
  Word     \* the values that do not parse

Value == Number \cup {NaN} \cup Word
Constraint == [key : Key, value : Value]

ASSUME NumberAssumption == Number \subseteq Int /\ NaN \notin Number

Constraints(cap) == {cap.constraints[i] : i \in DOMAIN cap.constraints}

SameKind(x, y) == x.resource = y.resource /\ x.action = y.action

Parses(v) == v \in Number \cup {NaN}

(* constraint_at_most, and the test that check_constraint makes: a number is *)
(* an upper bound, NaN is at most nothing, a word is itself.                 *)
AtMost(bound, v) ==
  IF Parses(bound) /\ Parses(v) THEN {bound, v} \subseteq Number /\ v <= bound
                                ELSE v = bound

(* Bug: the parent's constraints that the child does not name are ignored. *)
BugCapabilityMatches(child, parent) ==
  /\ SameKind(child, parent)
  /\ \A pc \in Constraints(parent), cc \in Constraints(child) :
       cc.key = pc.key => AtMost(pc.value, cc.value)

CapabilityMatches(child, parent) ==
  /\ SameKind(child, parent)
  /\ \A pc \in Constraints(parent) :
       \E cc \in Constraints(child) : cc.key = pc.key /\ AtMost(pc.value, cc.value)

(* check_constraint, for a context that maps some of the keys to values. *)
CheckConstraint(cap, context) ==
  \A c \in Constraints(cap) :
    c.key \in DOMAIN context /\ AtMost(c.value, context[c.key])

(* What the holder of the capabilities may do: a use is of a resource and an *)
(* action, in a context.                                                     *)
Permits(caps, use) ==
  \E c \in caps : SameKind(c, use) /\ CheckConstraint(c, use.context)

-----------------------------------------------------------------------------
(* merge_constraints, for two capabilities of the same kind. *)

Bind(m, k, v) == [x \in DOMAIN m \cup {k} |-> IF x = k THEN v ELSE m[x]]

(* Bug: the requested value wins, whatever the parent's. *)
BugStricter(m, c) == Bind(m, c.key, c.value)

(* A smaller number replaces a number; NaN and words never replace anything *)
(* and are never replaced.                                                  *)
Stricter(m, c) ==
  IF c.key \notin DOMAIN m THEN Bind(m, c.key, c.value)
  ELSE IF c.value \in Number /\ m[c.key] \in Number /\ c.value < m[c.key]
         THEN Bind(m, c.key, c.value)
         ELSE m

Merge(parent, requested) ==
  LET held == FoldLeft(LAMBDA m, c : Bind(m, c.key, c.value), <<>>, parent.constraints)
      merged == FoldLeft(Stricter, held, requested.constraints)
  IN [resource |-> parent.resource, action |-> parent.action,
      constraints |-> SetToSeq({[key |-> k, value |-> merged[k]] : k \in DOMAIN merged})]
==============================================================================
