SPECIFICATION Spec
CONSTANTS
  Entry = {a, b, c, d}
  Capacities = {1, 2, 3, 4}
  MaxCount = 10
SYMMETRY Symmetry
INVARIANTS
  TypeOK
  LastNIsSuffix
PROPERTIES
  KeepsLatest
