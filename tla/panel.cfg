SPECIFICATION PanelSpec
CONSTANTS
  Cores = {"a", "b"}
  NoCore = NoCore
  Packaged = "a"
  Channels = {"release"}
  FirstChannel = "release"
  Builds <- MCBuilds
  Panel = Panel
  Command = Command
  Operations <- PanelOperations
  Gated = {Panel, Command}
  Endpoints = FALSE
  Overlap = FALSE
  Faults <- ActivationFaults
  MaxBackups = 1
  NodeIds = {"n"}
  UserIds = {"u"}
  NoNode = NoNode
  NoUser = NoUser
  NoForm = NoForm
  Hidden = Hidden
  Tabs = {t1}
  Pairs = {p1, p2}
  LastDay = 1
  MaxGeneration = 3
  Retention = 2
  Callers = {c1, c2}
  SetupSlots = 1
  MaxPasswords = 2
  StepsThatFail = {"complete", "insert", "audit", "change"}
  Panels = {first, second}
  Client = Client
  Hook = Hook
  Nobody = Nobody
  MaxTokens = 2
  PanelHalves = {h1, h2}
  CoreHalves = {e1, e2}
  FirstPanel = h1
  FirstCore = e1
  NoHalf = NoHalf
  NoPending = NoPending
  NoDraft = NoDraft
  Editors = {tab}
  LastGeneration = 3
INVARIANTS
  SettledCore
  PreviousCoreKept
  UnsafeCoreBlocked
  KeysPaired
  SetupOnce
  SessionsAccounted
  GuardPinsGeneration
  ReadyStaysPublished
  HookDecides
PROPERTIES
  DueIsChecked
  ChangesAllowedAgain
  MarkersAgree
CHECK_DEADLOCK FALSE
