CONSTANTS
  th1 = th1
  th2 = th2
  k1 = k1
  k2 = k2
  Threads = {th1, th2}
  Txns = {1, 2}
  Keys = {k1, k2}
  Serves <- AnyTxn
  NoCall = NoCall
  NoThread = NoThread
  NoOp = NoOp
  NoKey = NoKey
  MaxQueued = 1
  Ops = {"put", "get", "abort", "fail"}
  Stored = {}
  Sharing = FALSE
  MaxLog = 5
  MaxFailures = 1
  MaxRun = 1
SYMMETRY Symmetric
SPECIFICATION TMSpec
CHECK_DEADLOCK FALSE
INVARIANTS
  TMTypeOK
  TwoPhase
  Serializable
  CommittedIsOnDisk
  LoggedBeforeStored
  CommittedIsLogged
