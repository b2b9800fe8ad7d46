SPECIFICATION Spec
CONSTANTS
  Env = {e1}
  Conn = {c1}
  Stmt = {s1, s2}
  Desc = {d1}
  MAX_CONNECTIONS_PER_ENVIRONMENT = 1
  MAX_STATEMENTS_PER_CONNECTION = 2
  AttachAcross = FALSE
  MAX_BOUND_COLUMNS = 2
  NULL = NULL
SYMMETRY Symmetric
CONSTRAINT OnePlace
CHECK_DEADLOCK FALSE
INVARIANTS TypeOK BoundCountsAgree CopyReproducesBindings
