\* Three requests at a time, issues 1 and 2 (and 0), two comments, with failures.
CONSTANTS
  Handlers = {h1, h2, h3}
  MaxNumber = 2
  MaxComments = 2
  MaxCount = 3
  Faults = {"db"}
SPECIFICATION Spec
SYMMETRY Symmetry
CHECK_DEADLOCK FALSE
INVARIANTS
  TypeOK
  Gapless
  OpenCountExact
  CommentsCounted
