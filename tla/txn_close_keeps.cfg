CONSTANTS
  th1 = th1
  th2 = th2
  k1 = k1
  k2 = k2
  Threads = {th1, th2}
  Txns = {1, 2}
  Keys = {k1}
  Serves <- AnyTxn
  NoCall = NoCall
  NoThread = NoThread
  NoOp = NoOp
  NoKey = NoKey
  MaxQueued = 1
  Ops = {"put", "close"}
  Stored = {}
  Sharing = FALSE
  MaxLog = 6
  MaxFailures = 0
  MaxRun = 2
SYMMETRY Symmetric
SPECIFICATION TMSpec
CHECK_DEADLOCK FALSE
INVARIANTS
  OnlyCommittedAfterRestart
