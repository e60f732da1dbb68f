SPECIFICATION Spec
SYMMETRY Interchangeable
CONSTANTS
  CellNames = {a, b, c}
  Ids = {p1, p2, p3}
  Settings <- MCSettings
  Delta = 2
INVARIANTS
  TypeOK
  StoredWhereItIs
  ListsServe
  ListsSound
PROPERTIES
  SetSpec
