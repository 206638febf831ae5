SPECIFICATION IdentitySpec
CONSTANTS
  e = e
  f = f
  v = v
  k = k
  w = w
  auth = auth
  inbox = inbox
  parent = parent
  org = org
  noOwner = noOwner
  caps = caps
  noCaps = noCaps
  t1 = t1
  t2 = t2
  Unanchored = Unanchored
  Refused = Refused
  NoUpdate = NoUpdate
  DID = {e, f, k, w, v}
  Id = {auth, inbox}
  Owner = {parent, org}
  NoOwner = noOwner
  Auth = auth
  EmptyDomain = ""
  Capabilities = {caps, noCaps}
  Network <- MCNetwork
  Drivers <- MCDrivers
  Requests <- MCRequests
  Operations <- MCOperations
  Task = {t1, t2}
  MaxAnchored = 1
  c1 = c1
  c2 = c2
  h1 = h1
  d1 = d1
  Controller = {c1, c2}
  Holder = {h1}
  DelegatedPrefix = {d1}
  KeyList <- MCKeyList
  MaxKeys = 7
  MaxCopy = 4
INVARIANTS
  NoUpdateLost
  AppendMeansVerify
  CopiesFollow
  RetiredForGood
PROPERTIES
  EndedStaysEnded
CHECK_DEADLOCK FALSE
