SPECIFICATION Spec
CONSTANTS
  Statement = {s1, s2}
  Lengths = {1, 3}
  BufferLengths = {2, 3}
  MAX_RAISED = 2
  MAX_DIAGNOSTIC_RECORDS = 2
  MAX_CAPTURED_NOTICES = 2
  DIAGNOSTIC_DEFAULT_PAGE_SIZE = 3
  Readers = {s1}
  Interleaved = FALSE
  Resultless = FALSE
  CursorsOutside = FALSE
INVARIANTS NoticesAreOwn ErrorIsReported MessagesReassemble
