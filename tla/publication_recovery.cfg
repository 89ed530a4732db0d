\* Crashes only, with time passing between them.
SPECIFICATION FairSpec
CONSTANTS
  Nodes <- MCNodes
  NoNodes = "empty"
  Disabled <- MCDisabled
  ExpiresAt <- MCExpiresAt
  Binds = {"lo"}
  FirstBind = "lo"
  HistoryLimit = 1
  Native = TRUE
  Faults <- NoFaults
  DriftAt = {}
  MaxRevisions = 4
  MaxTime = 1
  MaxCrashes = 2
  MaxDrifts = 0
  Absent = Absent
  Unmanaged = Unmanaged
  Stopped = Stopped
  None = None
INVARIANTS
  NeverDegraded
PROPERTIES
  Recovers
