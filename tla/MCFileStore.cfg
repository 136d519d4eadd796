SPECIFICATION Spec
CONSTANTS
  f1 = f1
  f2 = f2
  tenant = tenant
  None = None
  Files = {f1, f2}
  Personal = {f1, f2}
  Revisions = {v1}
  Sweeps = {w1}
  Names = {n1, n2}
  MaxNumber = 2
  MaxFaults = 1
  Size <- MCSize
  Scopes <- MCScopes
  Counted <- MCCounted
  Quota <- MCQuota
  Thresholds <- MCThresholds
INVARIANTS
  TypeOK
  ContentKept
  PurgedAfterRetention
  QuotaKept
  WarnedAtThreshold
  VersionsNumbered
  OrphansFromFailures
CONSTRAINT MCApart
CHECK_DEADLOCK FALSE
SYMMETRY MCSymmetry
