CONSTANTS
  r = r
  a = a
  b = b
  issue = issue
  t1 = t1
  t2 = t2
  NoRecord = NoRecord
  Absent = Absent
  NoCall = NoCall
  DID = {r, a, b}
  Known = {r, b}
  Capability = {issue}
  Covers <- MCCovers
  DepthRange = 256
  Task = {t1, t2}
  Request <- MCRequest

SPECIFICATION FairAgentSpec

INVARIANT ReportedOnce
PROPERTY QuietCascadeRevokesAll
PROPERTY NoWayBack
PROPERTY DecommissionReturns

CHECK_DEADLOCK FALSE
