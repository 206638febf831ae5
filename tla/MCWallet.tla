------------------------------- MODULE MCWallet -------------------------------
(***************************************************************************)
(* What an agent does with credentials: it gets them from an issuer; it    *)
(* gets and presents them; it issues, revokes and verifies them; it        *)
(* discloses them in part.  The last two share no state with the others,   *)
(* so that each is explored by itself, the others standing still, and the  *)
(* issuer's flow once more without the verifier's: part says which.        *)
(*                                                                         *)
(* Two wallets, two kinds of credential and two offers, the second with or *)
(* without a PIN; two credentials and four instants; two tokens, so that a *)
(* disclosure of one can come with the payload of the other, and claims    *)
(* whose names are those the format uses for itself.                       *)
(***************************************************************************)
EXTENDS CredentialPresentation, VCEngine, SDJWT, TLC

CONSTANTS u, v

MCClaims ==
  {[name |-> u, age |-> v], [name |-> u, iss |-> v], [name |-> u, _sd |-> v]}

Symmetry ==
  Permutations(Definition) \cup Permutations(Code \ {Empty})
    \cup Permutations(DescriptorId \ {Empty})

MCHidden == {{}, {"name"}, {"name", "age"}, {"iss", "_sd"}}

-----------------------------------------------------------------------------
VARIABLE part

walletVars == <<issuanceVars, presentationVars, vcVars, sdVars, part>>

WalletInit ==
  /\ ExchangeInit /\ VCInit /\ SDInit
  /\ part \in {"issuance", "exchange", "engine", "disclosure"}

WalletNext ==
  /\ UNCHANGED part
  /\ \/ part = "issuance" /\ IssuanceNext /\ UNCHANGED <<presentationVars, vcVars, sdVars>>
     \/ part = "exchange" /\ ExchangeNext /\ UNCHANGED <<vcVars, sdVars>>
     \/ part = "engine" /\ VCNext /\ UNCHANGED <<issuanceVars, presentationVars, sdVars>>
     \/ part = "disclosure" /\ SDNext /\ UNCHANGED <<issuanceVars, presentationVars, vcVars>>

WalletSpec == WalletInit /\ [][WalletNext]_walletVars
==============================================================================
