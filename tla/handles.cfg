SPECIFICATION HandlesFairSpec
CONSTANTS
  Env = {e1}
  Conn = {c1, c2}
  Stmt = {s1, s2, s3}
  Desc = {d1}
  MAX_CONNECTIONS_PER_ENVIRONMENT = 2
  MAX_STATEMENTS_PER_CONNECTION = 2
  AttachAcross = FALSE
  NULL = NULL
CHECK_DEADLOCK FALSE
INVARIANTS TablesHoldTheLive ParentsOutliveChildren ActiveDescriptorLives
PROPERTY ShutdownCompletes
