CONSTANTS
  t1 = t1
  t2 = t2
  th1 = th1
  th2 = th2
  th3 = th3
  Threads = {th1, th2, th3}
  Txns = {t1, t2}
  Keys = {k1}
  Serves <- MixedTxn
  NoCall = NoCall
  MaxQueued = 2
SPECIFICATION Spec
SYMMETRY Symmetric
INVARIANTS
  TypeOK
  Exclusion
  IndexAgrees
  NoLostWakeup
  WaitsHaveCalls
  QueueCoversCalls
  NoFalseAlarm
  OwnersNeverRefused
PROPERTIES
  TrueMeansHeld
  OnlyOwnLocksReleased
  CancelledCallFails
  RWSpec
