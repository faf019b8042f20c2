SPECIFICATION Spec
CONSTANTS
  Keys <- SomeKeys
  Values <- SomeValues
  Nothing = Nothing
  PAGE_SIZE = 18
  RECORD_HEADER_SIZE = 8
  MAX_KEY_SIZE = 2
  MaxMoves = 2
  MaxRun = 2
PROPERTIES
  DeletesOne
CHECK_DEADLOCK FALSE
