\* Two requests at a time, no failure.
CONSTANTS
  Handlers = {h1, h2}
  MaxNumber = 2
  MaxComments = 0
  MaxCount = 2
  Faults = {}
SPECIFICATION Spec
SYMMETRY Symmetry
CHECK_DEADLOCK FALSE
INVARIANT ChosenNumberStaysFree
