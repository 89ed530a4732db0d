\* An edit of the YAML between jobs, or in a publication up to its second
\* inspection; every step may fail.
SPECIFICATION Spec
CONSTANTS
  Nodes <- MCNodes
  NoNodes = "empty"
  Disabled <- MCDisabled
  ExpiresAt <- MCExpiresAt
  Binds = {"lo", "lan"}
  FirstBind = "lo"
  HistoryLimit = 1
  Native = TRUE
  Faults <- AllFaults
  DriftAt = {"idle", "archive", "snapshot", "insert"}
  MaxRevisions = 3
  MaxTime = 0
  MaxCrashes = 1
  MaxDrifts = 1
  Absent = Absent
  Unmanaged = Unmanaged
  Stopped = Stopped
  None = None
INVARIANTS
  DurableConsistent
PROPERTIES
  VerifiedBeforeOverwrite
  StartupFailsClosed
CHECK_DEADLOCK FALSE
