------------------------- MODULE MCIdentityContracts -------------------------
(***************************************************************************)
(* The two contracts about identities on one chain.  Neither calls the     *)
(* other - delegations are registered with each by itself - so that one is *)
(* explored while the other stands still: contract says which.  The        *)
(* delegation chain has four DIDs and a maximum depth of 2: chains within  *)
(* the bound and over it, trees, and cycles.  The registry has three: a    *)
(* parent, its child and its grandchild, cycles, and a child of two        *)
(* parents.                                                                *)
(***************************************************************************)
EXTENDS DelegationChain, TrustDIDRegistry, TLC

Symmetry ==
  Permutations(DIDString) \cup Permutations(Account) \cup Permutations(Key)

VARIABLE contract

identityContractVars == <<chainVars, registryVars, contract>>

IdentityContractInit ==
  /\ ChainInit /\ RegistryInit
  /\ contract \in {"DelegationChain", "TrustDIDRegistry"}

IdentityContractNext ==
  /\ UNCHANGED contract
  /\ \/ contract = "DelegationChain" /\ ChainNext /\ UNCHANGED registryVars
     \/ contract = "TrustDIDRegistry" /\ RegistryNext /\ UNCHANGED chainVars

IdentityContractSpec ==
  IdentityContractInit /\ [][IdentityContractNext]_identityContractVars
==============================================================================
