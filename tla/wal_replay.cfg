SPECIFICATION Spec
CONSTANTS
  Timestamp <- ClockBytes
  Keys <- SmallKeys
  Values <- SmallValues
  WAL_HEADER_SIZE = 32
  MAX_KEY_SIZE = 255
  NoResult = NoResult
  CutBytes <- LeftBytes
  MaxEntries = 4
  MaxTxns = 2
  MaxRun = 2
INVARIANTS
  CommittedAreReplayed
CHECK_DEADLOCK FALSE
