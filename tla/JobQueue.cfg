\* Two servers, three jobs, two stops or crashes, with failures.
CONSTANTS
  Jobs = {j1, j2, j3}
  Servers = {s1, s2}
  MaxAttempts = 5
  MaxStops = 2
  Faults = {"db", "crash"}
SPECIFICATION FairSpec
CHECK_DEADLOCK FALSE
INVARIANTS
  TypeOK
  StopWaits
PROPERTIES
  DueJobsSettle
  BoardSpec
