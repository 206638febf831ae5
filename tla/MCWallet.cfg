SPECIFICATION WalletSpec
CONSTANTS
  Wallet = {w1, w2}
  Honest = {w1}
  Definition = {c1, c2}
  Code = {k1, k2, Empty}
  Empty = Empty
  IssuerURL = issuer_url
  MaxOffers = 2
  None = None
  DefinitionId = {p1, Empty}
  DescriptorId = {i1, i2, Empty}
  URL = {url, Empty}
  ShownOffers = 1
  MaxRequests = 2
  MaxResponses = 1
  Issuer = {engine, parent}
  EngineDID = engine
  MaxClock = 3
  MaxIssued = 2
  Absent = Absent
  ClaimsArg <- MCClaims
  HiddenArg <- MCHidden
  u = u
  v = v
  Value = {u, v}
  IssuerDID = issuer
  KeyJWT = KeyJWT
  Nothing = Nothing
  Malformed = Malformed
  Mismatch = Mismatch
  MaxTokens = 2
SYMMETRY Symmetry
INVARIANTS
  ServedExplained
  HonestAcceptedMeansServed
  ReportedOfOneMoment
  DisclosedExactly
PROPERTIES
  OfferIsKept
CHECK_DEADLOCK FALSE
