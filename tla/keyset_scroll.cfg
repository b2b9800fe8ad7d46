CONSTANTS
  Kinds = {"forward", "static", "keyset"}
  InitialRows = 3
  MaxVersions = 4
  ArraySizes = {1, 2}
  RowNumbers = {0, 1}
  Offsets <- MCOffsets
  SavepointNames = {}
  MAX_KEYSET_SAVEPOINTS = 1
  Ops = {}
SPECIFICATION Spec
INVARIANTS
  ActsOnNamedRow
  DeliversTheRowset
