SPECIFICATION Spec
CONSTANTS
  fourth = d
  Node = {a, b, c, d}
  NoNode = NoNode
  Contacts <- MCContacts
  EntrySizes <- MixedSizes
  MaxStarts = 2
INVARIANTS AsymmetryExplained  ListsAreNews
CONSTRAINT Bound
SYMMETRY Symmetry
CHECK_DEADLOCK FALSE
