\* Operations, crashes and the recovery loop interleaved.
SPECIFICATION Spec
CONSTANTS
  Attempts = 2
  MaxStarts = 4
  MaxRequests = 2
INVARIANTS
  TypeOK
  OneMihomo
  HealthOfItsOwn
  StoppedForGood
PROPERTIES
  AbortsItsOwn
  CallbackKeepsExit
  OperationsReturn
  Recovers
