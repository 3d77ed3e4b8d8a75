\* One server, one job, one orderly restart, no failure.
CONSTANTS
  Jobs = {j1}
  Servers = {s1}
  MaxAttempts = 5
  MaxStops = 1
  Faults = {}
SPECIFICATION FairSpec
CHECK_DEADLOCK FALSE
PROPERTY Durable
