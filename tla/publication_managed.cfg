\* A supervised Mihomo; every step but MarkDegraded and pruning may fail.
SPECIFICATION Spec
CONSTANTS
  Nodes <- MCNodes
  NoNodes = "empty"
  Disabled <- MCDisabled
  ExpiresAt <- MCExpiresAt
  Binds = {"lo"}
  FirstBind = "lo"
  HistoryLimit = 1
  Native = FALSE
  Faults <- NoPrune
  DriftAt = {}
  MaxRevisions = 4
  MaxTime = 1
  MaxCrashes = 1
  MaxDrifts = 0
  Absent = Absent
  Unmanaged = Unmanaged
  Stopped = Stopped
  None = None
INVARIANTS
  RunningAgreement
  RetentionBound
CHECK_DEADLOCK FALSE
