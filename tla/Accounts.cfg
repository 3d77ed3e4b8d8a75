\* Two requests at a time, three usernames, with failures.
CONSTANTS
  Users = {ann, bob, cid}
  Handlers = {h1, h2}
  Faults = {"db"}
  None = None
SPECIFICATION Spec
SYMMETRY Symmetry
CHECK_DEADLOCK FALSE
INVARIANTS
  TypeOK
  SomeoneAdministers
  FewFounders
