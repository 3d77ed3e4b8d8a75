\* Two tabs, two sessions, one request in flight, with failures.
CONSTANTS
  Sessions = {s1, s2}
  Tabs = {t1, t2}
  Calls = {c1}
  Faults = {"net", "db"}
  None = None
SPECIFICATION Spec
SYMMETRY Symmetry
CHECK_DEADLOCK FALSE
INVARIANTS
  TypeOK
  OneSession
  StaysOut
