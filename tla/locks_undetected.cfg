CONSTANTS
  t1 = t1
  t2 = t2
  th1 = th1
  th2 = th2
  th3 = th3
  Threads = {th1, th2}
  Txns = {t1, t2}
  Keys = {k1, k2}
  Serves <- OwnTxn
  NoCall = NoCall
  MaxQueued = 1
SPECIFICATION Spec
INVARIANT NoWaitCycle
