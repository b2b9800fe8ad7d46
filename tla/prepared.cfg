SPECIFICATION Spec
CONSTANTS
  Statement = {s1, s2}
  Single = {q1, q2}
  Broken = {bad}
  Several = {q3}
  Call = {p}
  MaxNames = 5
  Careful = TRUE
  None = None
SYMMETRY Interchangeable
INVARIANTS RunsItsOwnText ReportsItsOwnError NamesAreHeld
