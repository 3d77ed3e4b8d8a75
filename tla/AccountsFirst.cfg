\* Two requests at a time, two usernames, no failure.
CONSTANTS
  Users = {ann, bob}
  Handlers = {h1, h2}
  Faults = {}
  None = None
SPECIFICATION Spec
SYMMETRY Symmetry
CHECK_DEADLOCK FALSE
INVARIANT OnlyFirstRegisteredAdministers
