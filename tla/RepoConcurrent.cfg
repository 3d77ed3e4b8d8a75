\* Two concurrent handlers, every failure, two spellings of a name, two ids.
CONSTANTS
  Names <- MCNames
  Canon <- MCCanon
  Ids = {r1, r2}
  Handlers = {h1, h2}
  Faults = {"git", "db", "crash"}
  None = None
SPECIFICATION Spec
SYMMETRY Symmetry
CHECK_DEADLOCK FALSE
INVARIANTS
  TypeOK
  DamageIsContained
  NoSurpriseAfterFirstWrite
  NoSharedHistory
PROPERTIES
  OnlyItsOwnDeleteDestroys
  RegistrySpec
