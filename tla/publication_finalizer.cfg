\* The finalizer of a Mihomo started before an endpoint change.
SPECIFICATION Spec
CONSTANTS
  Nodes <- MCNodes
  NoNodes = "empty"
  Disabled <- MCDisabled
  ExpiresAt <- MCExpiresAt
  Binds = {"lo", "lan"}
  FirstBind = "lo"
  HistoryLimit = 1
  Native = TRUE
  Faults <- NoFaults
  DriftAt = {}
  MaxRevisions = 3
  MaxTime = 0
  MaxCrashes = 0
  MaxDrifts = 0
  Absent = Absent
  Unmanaged = Unmanaged
  Stopped = Stopped
  None = None
INVARIANTS
  MarkerHonest
CHECK_DEADLOCK FALSE
