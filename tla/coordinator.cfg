\* Two processes that share the lock file.
SPECIFICATION FairSpec
CONSTANTS
  panel = panel
  command = command
  t1 = t1
  t2 = t2
  t3 = t3
  t4 = t4
  t5 = t5
  Processes = {panel, command}
  Tasks = {t1, t2, t3, t4, t5}
  Home <- MCHome
  LockFile = TRUE
  Free = Free
INVARIANTS
  TypeOK
  TokenConserved
  NoLostWakeup
  ActiveWhileHeld
PROPERTIES
  ImplementsLease
  Served
