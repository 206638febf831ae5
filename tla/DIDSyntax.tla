------------------------------ MODULE DIDSyntax ------------------------------
(****************************************************************************)
(* did:trustagent:<network>:<agent-class>:<identifier>.  A text is split at *)
(* its colons into segments, with or without white space around it; the     *)
(* segments read as u64 are the domain of Number, and Decimal prints one.   *)
(****************************************************************************)
EXTENDS Naturals, Sequences

CONSTANTS
  Number,   \* segment -> the chain id it is read as
  Decimal,  \* chain id -> the segment it is printed as
  NotADID   \* the text does not parse

ASSUME DecimalAssumption ==
  /\ \A n \in DOMAIN Decimal :
       Decimal[n] \in STRING \cap DOMAIN Number /\ Number[Decimal[n]] = n
  /\ \A s \in DOMAIN Number : Number[s] \in DOMAIN Decimal

METHOD_NAME == "trustagent"

AgentClass == {"autonomous", "delegated", "ephemeral", "org", "human"}

(* Bug: the chain is left out of what is printed. *)
BugMethodSegments(network) ==
  IF network.type = "web" THEN <<"web", network.domain>> ELSE <<network.type>>

(* as_method_segment *)
MethodSegments(network) ==
  CASE network.type = "evm" -> <<"evm", Decimal[network.chain]>>
    [] network.type = "keri" -> <<"keri">>
    [] network.type = "web" -> <<"web", network.domain>>

ToURI(did) ==
  [padded |-> FALSE,
   segments |-> <<"did", METHOD_NAME>> \o MethodSegments(did.network)
                  \o <<did.agent_class>> \o did.identifier]

(* from_segments: type and, for two of the three, the segment after it. *)
NetworkOf(type, next) ==
  CASE type = "evm" /\ next \in DOMAIN Number -> [type |-> "evm", chain |-> Number[next]]
    [] type = "keri" -> [type |-> "keri"]
    [] type = "web" -> [type |-> "web", domain |-> next]
    [] OTHER -> NotADID

(* The identifier is all that remains, and may hold colons of its own. *)
Blank == <<"">>

Parse(text) ==
  LET s == text.segments
      at == IF s[3] = "keri" THEN 4 ELSE 5
      network == NetworkOf(s[3], s[4])
  IN  IF /\ Len(s) >= 5 /\ s[1] = "did" /\ s[2] = METHOD_NAME
         /\ Len(s) > at
         /\ network # NotADID
         /\ s[at] \in AgentClass
         /\ SubSeq(s, at + 1, Len(s)) # Blank
        THEN [network |-> network, agent_class |-> s[at],
              identifier |-> SubSeq(s, at + 1, Len(s))]
        ELSE NotADID
==============================================================================
