\* One request at a time, exact spelling, no failure.
CONSTANTS
  Names <- MCNames
  Canon <- MCExact
  Ids = {r1, r2, r3, r4}
  Handlers = {h1}
  Faults = {}
  None = None
SPECIFICATION FairSpec
CHECK_DEADLOCK FALSE
INVARIANT InStep
PROPERTY DisagreementIsTransient
