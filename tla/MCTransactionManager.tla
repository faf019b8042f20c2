------------------------- MODULE MCTransactionManager -------------------------
(* Instances of TransactionManager for TLC. *)
EXTENDS TransactionManager, TLC

CONSTANTS th1, th2, k1, k2

\* The operations, not Serves, decide who acquires what.
AnyTxn == [th \in Threads |-> Txns]

Symmetric == Permutations(Threads) \cup Permutations(Keys)
================================================================================
