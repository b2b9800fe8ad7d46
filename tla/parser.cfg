SPECIFICATION Spec
CONSTANTS
  Careful = TRUE
  MaxMarkers = 2
  MaxArguments = 2
  MaxLiteral = 2
  MaxCallArguments = 2
  MaxEscapes = 2
  MaxNesting = 2
  MaxParens = 3
  MaxColumns = 2
INVARIANTS
  LexersAgree
  ArgumentsAreWhole
  MarkersReachServer
  FragmentsAreCommands
  OverridesMatchColumns
