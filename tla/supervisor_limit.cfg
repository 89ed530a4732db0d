\* The last attempt succeeds and the child exits at once.
SPECIFICATION Spec
CONSTANTS
  Attempts = 5
  MaxStarts = 2
  MaxRequests = 0
PROPERTIES
  NextAttemptScheduled
