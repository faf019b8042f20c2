CONSTANTS
  t1 = t1
  t2 = t2
  t3 = t3
  th1 = th1
  th2 = th2
  th3 = th3
  Threads = {th1, th2, th3}
  Txns = {t1, t2, t3}
  Keys = {1, 2}
  Rank <- KeyRank
  Own <- OwnOfThread
  Serves <- ServesOwn
  NoCall = NoCall
  MaxQueued = 1
  Rounds = 2
SPECIFICATION ClientSpec
INVARIANTS
  OrderedWaits
PROPERTY OrderedClientsFinish
