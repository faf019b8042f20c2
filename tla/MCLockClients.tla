----------------------------- MODULE MCLockClients -----------------------------
(* Instances of LockClients for TLC: keys are numbers, ranked as numbers. *)
EXTENDS LockClients, TLC

CONSTANTS t1, t2, t3, th1, th2, th3

OwnOfThread ==
  [th \in Threads |-> CASE th = th1 -> t1 [] th = th2 -> t2 [] OTHER -> t3]

ServesOwn == [th \in Threads |-> {OwnOfThread[th]}]

KeyRank == [k \in Keys |-> k]
================================================================================
