SPECIFICATION CoreSpec
CONSTANTS
  Cores = {"a", "b"}
  NoCore = NoCore
  Packaged = "a"
  Channels = {"release"}
  FirstChannel = "release"
  Builds <- MCBuilds
  Panel = Panel
  Command = Command
  Operations <- CommandUpdates
  Gated = {Panel}
  Endpoints = TRUE
  Overlap = FALSE
  Faults = {}
  MaxBackups = 1
PROPERTIES
  EndpointChangeWaits
CHECK_DEADLOCK FALSE
