CONSTANTS
  Work = {w1}
  Stmts = {s1}
  Modes = {"statement"}
  MaxDepth = 4
  Ops = {"single", "savepoint"}
SPECIFICATION Spec
INVARIANT UserSavepointStands
