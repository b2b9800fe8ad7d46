CONSTANTS
  Work = {w1, w2, w3}
  Stmts = {s1, s2}
  Modes = {"transaction", "statement"}
  MaxDepth = 5
  Ops = {"single", "multi", "call", "dae", "dae_array", "link"}
SPECIFICATION Spec
INVARIANTS
  AcknowledgedWorkStands
  CommitIsDurable
  RollbackIsFinal
  ErrorsAreRecovered
  OneDriverSavepoint
PROPERTY ImplementsUnitOfWork
