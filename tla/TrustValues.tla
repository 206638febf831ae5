----------------------------- MODULE TrustValues -----------------------------
(* The agents and the absent values that the trust services share. *)
CONSTANTS
  DID,
  NoEntry,   \* no such ecosystem, nothing known of a DID
  NoRecord,  \* the DID does not take part, or is not registered
  Any        \* a filter that is not given, a field without a value
==============================================================================
