CONSTANTS
  Work = {w1}
  Stmts = {s1, s2}
  Modes = {"statement"}
  MaxDepth = 2
  Ops = {"single", "multi", "array", "call", "fetch_error", "exempt", "savepoint", "text", "prepare", "dae",
         "dae_array", "lo_inline", "lo_put", "lo_read", "unmanaged", "interleave",
         "reconnect", "link"}
SPECIFICATION Spec
SYMMETRY Interchangeable
INVARIANTS
  TypeOK
  NoOrphanTransaction
  SavepointInsideTransaction
