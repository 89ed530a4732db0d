\* A rollback while an endpoint restart is pending.
SPECIFICATION Spec
CONSTANTS
  Nodes <- MCNodes
  NoNodes = "empty"
  Disabled <- MCDisabled
  ExpiresAt <- MCExpiresAt
  Binds = {"lo", "lan"}
  FirstBind = "lo"
  HistoryLimit = 2
  Native = FALSE
  Faults <- NoFaults
  DriftAt = {}
  MaxRevisions = 4
  MaxTime = 0
  MaxCrashes = 0
  MaxDrifts = 0
  Absent = Absent
  Unmanaged = Unmanaged
  Stopped = Stopped
  None = None
INVARIANTS
  RunningAgreement
CHECK_DEADLOCK FALSE
