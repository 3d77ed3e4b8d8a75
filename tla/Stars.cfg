\* Two tabs of one user and one of another, with failures.
CONSTANTS
  ann = ann  bob = bob  ann1 = ann1  ann2 = ann2  bob1 = bob1
  Users = {ann, bob}
  Tabs = {ann1, ann2, bob1}
  Who <- MCWho
  MaxCount = 2
  Faults = {"db", "net"}
SPECIFICATION Spec
SYMMETRY Symmetry
INVARIANTS
  TypeOK
  CountExact
  NeverUndercounts
  ButtonTruthful
