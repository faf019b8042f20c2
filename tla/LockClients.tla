------------------------------ MODULE LockClients ------------------------------
(****************************************************************************)
(* Clients that use the lock manager the way its callers can use it safely: *)
(* one thread for each transaction, keys locked in ascending order, a key   *)
(* never locked twice in different modes, and everything released at the    *)
(* end (TransactionManager::commitTransaction).  test_concurrent.cpp has    *)
(* such clients.  Nothing else is known of them: which keys they lock, in   *)
(* which mode and how many is left open.                                    *)
(****************************************************************************)
EXTENDS LockManager

CONSTANTS
  Rank,     \* the order of the keys
  Own,      \* Own[th]: the transaction of thread th
  Rounds    \* bound: transactions that one thread runs

ASSUME LockClientsAssumption ==
  /\ Rank \in [Keys -> Nat]
  /\ \A k, l \in Keys : Rank[k] = Rank[l] => k = l
  /\ Own \in [Threads -> Txns]
  /\ \A th, u \in Threads : Own[th] = Own[u] => th = u
  /\ \A th \in Threads : Own[th] \in Serves[th]
  /\ Rounds \in Nat

VARIABLE left       \* left[th]: transactions that thread th still has to run

clientVars == <<lockVars, left>>

ClientInit == Init /\ left = [th \in Threads |-> Rounds]

ClientAcquire(th) ==
  /\ left[th] > 0
  /\ \E k \in Keys, type \in LockType :
       /\ \A l \in txnLocks[Own[th]] : Rank[l] < Rank[k]
       /\ AcquireLock(th, Own[th], k, type)
  /\ UNCHANGED left

ClientFinish(th) ==
  /\ left[th] > 0
  /\ ReleaseAllLocks(th, Own[th])
  /\ left' = [left EXCEPT ![th] = @ - 1]

ClientWake(th) == (Resume(th) \/ SpuriousWakeup(th)) /\ UNCHANGED left

Finished == \A th \in Threads : left[th] = 0

ClientNext ==
  \/ \E th \in Threads : ClientAcquire(th) \/ ClientFinish(th) \/ ClientWake(th)
  \/ Finished /\ UNCHANGED clientVars

\* A woken thread runs on, and a client that can end its transaction does.
ClientSpec ==
  /\ ClientInit
  /\ [][ClientNext]_clientVars
  /\ \A th \in Threads : /\ WF_clientVars(Resume(th) /\ UNCHANGED left)
                         /\ WF_clientVars(ClientFinish(th))

------------------------------------------------------------------------------
\* Clients that lock keys in ascending order all finish: nobody sleeps through
\* the release it waits for, and no group of clients waits for each other,
\* although the check for deadlock never fires for them
\* (lockmgr.cpp:103-119, 137-148).
OrderedClientsFinish == <>Finished

\* What makes that so: a client holds only keys below the one it waits for,
\* hence no client ever waits in a cycle (lockmgr.cpp:108-117).
OrderedWaits ==
  /\ \A th \in Threads : Waiting(th) =>
       \A k \in txnLocks[Own[th]] : Rank[k] < Rank[call[th].key]
  /\ NoWaitCycle

================================================================================
