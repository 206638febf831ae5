SPECIFICATION StandingSpec
CONSTANTS
  Ecosystem = {e1}
  DID = {d1, d2, d3}
  Role = {issuer}
  NoEntry = NoEntry
  NoRecord = NoRecord
  Any = Any
  Idle = Idle
  NotADID = NotADID
  FactorArg <- MCFactor
  WeightArg = {1, 10000, 10001}
  EndorsementsCounted = 1
  MAX_ENDORSEMENT_WEIGHT = 10000
  Number <- MCNumber
  Decimal <- MCDecimal
  Text <- MCText
  Capability = {"read"}
  TrustArg = {0, 60}
  StatusArg = {"Active", "Revoked"}
  RecordArg <- MCRecord
  Request <- MCRequest
  MaxWrites = 4
  Account = {alice, bob}
  AgentDID = {d1}
  ScoreArg = {0, 10000, 10001}
  RootArg = {ZeroRoot}
  ZeroRoot = ZeroRoot
  MaxTokenId = 2
  NoToken = NoToken
  Credential = {c1}
  ExpiryArg = {0, 2}
  MaxTime = 3
  MaxGrants = 3
SYMMETRY Symmetry
INVARIANTS
  ReadsAreAtomic
  EntriesNameAgents
  SweptStaysRevoked
PROPERTIES
  ScorerEndorses
  LapsedStaysLapsed
  TokenEndorses
CHECK_DEADLOCK FALSE
