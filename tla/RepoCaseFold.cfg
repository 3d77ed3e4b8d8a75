\* One request at a time and no failure, but two spellings of one name.
CONSTANTS
  Names <- MCNames
  Canon <- MCCanon
  Ids = {r1, r2}
  Handlers = {h1}
  Faults = {}
  None = None
SPECIFICATION Spec
CHECK_DEADLOCK FALSE
INVARIANT InitCreatesNew
