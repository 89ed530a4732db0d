\* A native Mihomo survives a crash between the reload and COMMIT.
SPECIFICATION Spec
CONSTANTS
  Nodes <- MCNodes
  NoNodes = "empty"
  Disabled <- MCDisabled
  ExpiresAt <- MCExpiresAt
  Binds = {"lo"}
  FirstBind = "lo"
  HistoryLimit = 1
  Native = TRUE
  Faults <- NoFaults
  DriftAt = {}
  MaxRevisions = 3
  MaxTime = 1
  MaxCrashes = 1
  MaxDrifts = 0
  Absent = Absent
  Unmanaged = Unmanaged
  Stopped = Stopped
  None = None
INVARIANTS
  RunningAgreement
CHECK_DEADLOCK FALSE
