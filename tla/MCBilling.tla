------------------------------ MODULE MCBilling ------------------------------
(***************************************************************************)
(* Two customers and two subscriptions.  A delivery counts for five        *)
(* minutes, by either clock, and only with our secret.                     *)
(***************************************************************************)
EXTENDS Billing

CONSTANTS d1, d2, s1, s2

MCDelivery == [ours : {TRUE}, age : {300, 301}] \cup [ours : {FALSE}, age : {0}]

Symmetry == Permutations(DID) \cup Permutations(StripeId)
==============================================================================
