SPECIFICATION IdentityContractSpec
CONSTANTS
  DID = {d1, d2, d3, d4}
  Sender = {alice, bob}
  NoRecord = NoRecord
  DepthArg = {1, 3}
  MAX_DELEGATION_DEPTH = 2
  DIDString = {d1, d2, d3}
  Account = {alice, bob}
  Hash = {h1}
  Key = {k1, k2}
  MAX_NONCE = 1
  NoDID = NoDID
SYMMETRY Symmetry
INVARIANTS
  ChainOrphansExplained
  VerifyChainExact
  EndedFamilies
  NonceNamesDocument
PROPERTIES
  RefusedStaysRefused
  RevocationStaysBelow
CHECK_DEADLOCK FALSE
