\* A native Mihomo that survives crashes; every step but MarkDegraded may fail.
SPECIFICATION Spec
CONSTANTS
  Nodes <- MCNodes
  NoNodes = "empty"
  Disabled <- MCDisabled
  ExpiresAt <- MCExpiresAt
  Binds = {"lo"}
  FirstBind = "lo"
  HistoryLimit = 1
  Native = TRUE
  Faults <- FaultsButMark
  DriftAt = {}
  MaxRevisions = 3
  MaxTime = 1
  MaxCrashes = 1
  MaxDrifts = 0
  Absent = Absent
  Unmanaged = Unmanaged
  Stopped = Stopped
  None = None
INVARIANTS
  TypeOK
  SettledAgreement
  FailureIsHonest
  RetainedRevisionsRestorable
  CutoverHoldsOldConfiguration
PROPERTIES
  DegradedClearedVerified
  ImplementsConfiguration
CHECK_DEADLOCK FALSE
