CONSTANTS
  Kinds = {"keyset"}
  InitialRows = 2
  MaxVersions = 3
  ArraySizes = {2}
  RowNumbers = {1}
  Offsets = {}
  SavepointNames = {a, b}
  MAX_KEYSET_SAVEPOINTS = 2
  Ops = {}
SPECIFICATION Spec
SYMMETRY Interchangeable
INVARIANTS
  TypeOK
  OverlayShowsTable
