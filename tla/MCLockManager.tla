----------------------------- MODULE MCLockManager -----------------------------
(* Instances of LockManager for TLC. *)
EXTENDS LockManager, TLC

CONSTANTS t1, t2, th1, th2, th3

\* One thread works for t1 alone, two work for t2.
MixedTxn == (th1 :> {t1}) @@ [th \in Threads |-> {t2}]

\* One thread for each transaction.
OwnTxn == (th1 :> {t1}) @@ [th \in Threads |-> {t2}]

Symmetric == Permutations({th2, th3})
================================================================================
