CONSTANTS
  k1 = k1
  k2 = k2
  main = main
  Threads = {main}
  Txns = {1, 2}
  Keys = {k1, k2}
  Serves <- AnyTxn
  NoCall = NoCall
  NoThread = NoThread
  NoOp = NoOp
  NoKey = NoKey
  NoCommand = NoCommand
  Nothing = Nothing
  Values <- SomeValues
  StrayValues <- StoredValue
  MaxQueued = 1
  Ops = {"put", "resize", "delete", "abort", "leave", "fail", "full", "crash", "close"}
  Stored = {k1}
  Content <- PlainValue
  Characters <- AllCharacters
  Sharing = FALSE
  MaxLog = 8
  MaxFailures = 1
  MaxRun = 2
SPECIFICATION CLSpec
CHECK_DEADLOCK FALSE
INVARIANTS
  CLTypeOK
  Promises
  CleanPrompt
  CommittedIsOnDisk
PROPERTIES
  RestoreBringsBack
  Answered
