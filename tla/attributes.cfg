SPECIFICATION Spec
CONSTANTS
  Stored = {"max_rows"}
  Reported = {"login_timeout"}
  DEFAULT_BATCH_SIZE = 2
  Careful = TRUE
INVARIANT ReportedIsInForce
PROPERTY AnswerTellsTheValue
