--------------------------- MODULE LockClientsProofs ---------------------------
(****************************************************************************)
(* Clients that lock keys in ascending order never wait in a cycle, however *)
(* many there are (LockClients.OrderedWaits).                               *)
(*                                                                          *)
(* A client's step is a step of the lock manager (ClientIsLockStep), so all *)
(* that LockManagerProofs shows holds here too.  The clients add Ordered: a *)
(* waiting client waits for its own transaction, and for a key above all    *)
(* that it holds.  No cycle follows: along it the awaited keys rise, and a  *)
(* finite set of waiting clients has one whose key no other's is above.     *)
(****************************************************************************)
EXTENDS LockClients, LockManagerProofs, WellFoundedInduction

\* The inductive part: whom a client waits for, and above what.
Ordered ==
  \A th \in Threads : Waiting(th) =>
    /\ call[th].txn = Own[th]
    /\ \A k \in txnLocks[Own[th]] : Rank[k] < Rank[call[th].key]

\* Everything that is known of the lock manager's state here.
LockFacts == TypeOK /\ IndexAgrees /\ QueueCoversCalls /\ WaitsHaveCalls

------------------------------------------------------------------------------
\* What a client does is something the lock manager may be asked to do.
LEMMA ClientIsLockStep == ASSUME [ClientNext]_clientVars PROVE [Next]_lockVars
<1>1. CASE UNCHANGED clientVars
  BY <1>1 DEF clientVars, lockVars
<1>2. ASSUME NEW th \in Threads, ClientAcquire(th) PROVE Next
  <2>1. PICK k \in Keys, type \in LockType : AcquireLock(th, Own[th], k, type)
    BY <1>2 DEF ClientAcquire
  <2>2. Own[th] \in Serves[th]
    BY LockClientsAssumption
  <2> QED
    BY <2>1, <2>2 DEF Next
<1>3. ASSUME NEW th \in Threads, ClientFinish(th) PROVE Next
  <2>1. Own[th] \in Txns /\ ReleaseAllLocks(th, Own[th])
    BY <1>3, LockClientsAssumption DEF ClientFinish
  <2> QED
    BY <2>1 DEF Next
<1>4. ASSUME NEW th \in Threads, ClientWake(th) PROVE Next
  BY <1>4 DEF ClientWake, Next
<1> QED
  BY <1>1, <1>2, <1>3, <1>4 DEF ClientNext

\* So the lock manager's invariants are the clients' invariants.
LEMMA ClientLockFacts == ClientSpec => []LockFacts
<1>1. ClientInit => LockFacts
  <2> SUFFICES ASSUME Init PROVE LockFacts
    BY DEF ClientInit
  <2>1. TypeOK /\ QueueCoversCalls
    BY TypeOKInit, QueueInit
  <2>2. IndexAgrees /\ WaitsHaveCalls
    BY DEF Init, IndexAgrees, WaitsHaveCalls
  <2> QED
    BY <2>1, <2>2 DEF LockFacts
<1>2. ASSUME LockFacts, [ClientNext]_clientVars PROVE LockFacts'
  <2>1. [Next]_lockVars
    BY <1>2, ClientIsLockStep
  <2>2. TypeOK /\ IndexAgrees /\ QueueCoversCalls /\ WaitsHaveCalls
    BY <1>2 DEF LockFacts
  <2>3. TypeOK'
    BY <2>1, <2>2, TypeOKStep
  <2>4. IndexAgrees'
    BY <2>1, <2>2, IndexStep
  <2>5. QueueCoversCalls'
    BY <2>1, <2>2, <2>3, QueueStep
  <2>6. WaitsHaveCalls'
    BY <2>1, <2>2, <2>3, WaitsStep
  <2> QED
    BY <2>3, <2>4, <2>5, <2>6 DEF LockFacts
<1> QED
  BY <1>1, <1>2, PTL DEF ClientSpec

------------------------------------------------------------------------------
\* A step of one client leaves another's call and the locks of the other's
\* transaction alone, and a client that goes on waiting or starts to wait does
\* so below the key it waits for (lockmgr.cpp:105-118).
LEMMA OthersKeep ==
  ASSUME TypeOK, Ordered, NEW th \in Threads, NEW u \in Threads, u # th,
         ClientAcquire(th) \/ ClientFinish(th) \/ ClientWake(th)
  PROVE  call'[u] = call[u] /\ txnLocks'[Own[u]] = txnLocks[Own[u]]
<1>0. Own[th] \in Txns /\ Own[u] \in Txns /\ Own[u] # Own[th]
  BY LockClientsAssumption
<1>1. ASSUME NEW k \in Keys, NEW type \in LockType, AcquireLock(th, Own[th], k, type)
      PROVE  call'[u] = call[u] /\ txnLocks'[Own[u]] = txnLocks[Own[u]]
  BY <1>0, <1>1 DEF AcquireLock, AcquireHeld, AcquireDeadlock, AcquireGrant, AcquireWait,
                    GrantLock, Return, tableVars, TypeOK
<1>2. CASE ReleaseAllLocks(th, Own[th])
  BY <1>0, <1>2 DEF ReleaseAllLocks, Return, TypeOK
<1>3. CASE ResumeGrant(th)
  <2>1. Waiting(th) /\ call[th].txn = Own[th]
    BY <1>3 DEF ResumeGrant, Awake, Ordered
  <2> QED
    BY <1>0, <1>3, <2>1 DEF ResumeGrant, GrantLock, Return, TypeOK
<1>4. CASE ResumeCancelled(th) \/ ResumeWait(th) \/ SpuriousWakeup(th)
  BY <1>4 DEF ResumeCancelled, ResumeWait, SpuriousWakeup, Return, tableVars, TypeOK
<1>5. CASE ClientAcquire(th)
  BY <1>1, <1>5 DEF ClientAcquire
<1>6. CASE ClientFinish(th)
  BY <1>2, <1>6 DEF ClientFinish
<1>7. CASE ClientWake(th)
  BY <1>3, <1>4, <1>7 DEF ClientWake, Resume
<1> QED
  BY <1>5, <1>6, <1>7

\* The client that acts waits after the step only if it waited before, or if it
\* starts to wait for the key it asked for.
LEMMA ActorOrdered ==
  ASSUME TypeOK, Ordered, NEW th \in Threads, Waiting(th)',
         ClientAcquire(th) \/ ClientFinish(th) \/ ClientWake(th)
  PROVE  /\ call'[th].txn = Own[th]
         /\ \A k \in txnLocks'[Own[th]] : Rank[k] < Rank[call'[th].key]
<1>1. ASSUME ClientAcquire(th)
      PROVE  /\ call'[th].txn = Own[th]
             /\ \A k \in txnLocks'[Own[th]] : Rank[k] < Rank[call'[th].key]
  <2>1. PICK k \in Keys, type \in LockType :
          /\ \A l \in txnLocks[Own[th]] : Rank[l] < Rank[k]
          /\ AcquireLock(th, Own[th], k, type)
    BY <1>1 DEF ClientAcquire
  <2>2. AcquireWait(th, Own[th], k, type)
    BY <2>1 DEF AcquireLock, AcquireHeld, AcquireDeadlock, AcquireGrant, Return, Waiting, TypeOK
  <2>3. /\ call'[th] = [txn |-> Own[th], key |-> k, type |-> type]
        /\ txnLocks' = txnLocks
    BY <2>2 DEF AcquireWait, TypeOK
  <2> QED
    BY <2>1, <2>3
<1>2. ~ClientFinish(th)
  BY DEF ClientFinish, ReleaseAllLocks, Return, Waiting, TypeOK
<1>3. ASSUME ClientWake(th)
      PROVE  call'[th] = call[th] /\ txnLocks' = txnLocks
  BY <1>3 DEF ClientWake, Resume, ResumeCancelled, ResumeWait, ResumeGrant, SpuriousWakeup,
              Return, Waiting, tableVars, TypeOK
<1> QED
  BY <1>1, <1>2, <1>3 DEF Ordered, Waiting

\* No step breaks the order.
LEMMA OrderedStep ==
  ASSUME TypeOK, Ordered, [ClientNext]_clientVars
  PROVE  Ordered'
<1>1. CASE UNCHANGED clientVars \/ (Finished /\ UNCHANGED clientVars)
  BY <1>1 DEF clientVars, lockVars, Ordered, Waiting
<1>2. ASSUME NEW th \in Threads, ClientAcquire(th) \/ ClientFinish(th) \/ ClientWake(th)
      PROVE  Ordered'
  <2> SUFFICES ASSUME NEW u \in Threads, Waiting(u)'
               PROVE  /\ call'[u].txn = Own[u]
                      /\ \A k \in txnLocks'[Own[u]] : Rank[k] < Rank[call'[u].key]
    BY DEF Ordered
  <2>1. CASE u = th
    BY <1>2, <2>1, ActorOrdered
  <2>2. CASE u # th
    <3>1. call'[u] = call[u] /\ txnLocks'[Own[u]] = txnLocks[Own[u]]
      BY <1>2, <2>2, OthersKeep
    <3> QED
      BY <3>1 DEF Ordered, Waiting
  <2> QED
    BY <2>1, <2>2
<1> QED
  BY <1>1, <1>2 DEF ClientNext

------------------------------------------------------------------------------
(* No cycle *)

\* In a set of clients where each has another with a higher key, the clients
\* would not be finitely many: one with the fewest clients above it is a
\* contradiction.
LEMMA TopClient ==
  ASSUME NEW W \in SUBSET Threads, W # {}, NEW rank \in [W -> Nat]
  PROVE  \E th \in W : \A u \in W : ~(rank[th] < rank[u])
<1> DEFINE Above(th) == {u \in W : rank[th] < rank[u]}
<1> DEFINE T == {Cardinality(Above(th)) : th \in W}
<1>1. \A th \in W : IsFiniteSet(Above(th)) /\ Cardinality(Above(th)) \in Nat
  <2> TAKE th \in W
  <2>1. IsFiniteSet(Threads) /\ Above(th) \in SUBSET Threads
    BY LockManagerAssumption
  <2>2. IsFiniteSet(Above(th))
    BY <2>1, FS_Subset
  <2> QED
    BY <2>2, FS_CardinalityType
<1>2. PICK m \in T : \A n \in T : <<n, m>> \notin OpToRel(<, Nat)
  <2>1. T \subseteq Nat
    BY <1>1
  <2>2. T # {}
    OBVIOUS
  <2> HIDE DEF T
  <2> QED
    BY <2>1, <2>2, NatLessThanWellFounded, WFMin
<1>3. PICK th \in W : m = Cardinality(Above(th))
  BY <1>2
<1>4. ASSUME NEW u \in W, rank[th] < rank[u] PROVE FALSE
  <2>1. Above(u) \in SUBSET Above(th)
    BY <1>4
  <2>2. u \in Above(th) /\ u \notin Above(u)
    BY <1>4
  <2>3. /\ Cardinality(Above(u)) <= Cardinality(Above(th))
        /\ Cardinality(Above(u)) # Cardinality(Above(th))
    BY <1>1, <2>1, <2>2, FS_Subset
  <2>4. Cardinality(Above(u)) \in Nat /\ Cardinality(Above(th)) \in Nat
    BY <1>1, <1>4
  <2>5. Cardinality(Above(u)) < Cardinality(Above(th))
    BY <2>3, <2>4
  <2>6. <<Cardinality(Above(u)), m>> \in OpToRel(<, Nat)
    BY <1>3, <2>4, <2>5 DEF OpToRel
  <2> QED
    BY <1>2, <1>4, <2>6
<1> QED
  BY <1>4

\* A transaction registered as waiting for a key has its own client wait for it.
LEMMA WaiterIsOwner ==
  ASSUME LockFacts, Ordered, NEW a \in Txns, NEW k \in txnWaits[a]
  PROVE  \E th \in Threads : Waiting(th) /\ Own[th] = a /\ call[th].key = k
<1>1. PICK th \in Threads : Waiting(th) /\ call[th].txn = a /\ call[th].key = k
  BY DEF LockFacts, WaitsHaveCalls
<1> QED
  BY <1>1 DEF Ordered

\* If every transaction of a set waits for another of it, each waiting client
\* has one above it: the holder of its key waits for a key higher still.
LEMMA OrderedNoCycle == ASSUME LockFacts, Ordered PROVE NoWaitCycle
<1> SUFFICES ASSUME NEW S \in SUBSET Txns, Cyclic(S) PROVE FALSE
  BY DEF NoWaitCycle
<1> DEFINE W == {th \in Threads : Waiting(th) /\ Own[th] \in S}
<1> DEFINE rank == [th \in W |-> Rank[call[th].key]]
<1>1. rank \in [W -> Nat]
  BY WaitingCall, LockClientsAssumption DEF LockFacts
<1>2. ASSUME NEW a \in S
      PROVE  \E th \in W, b \in S :
               Own[th] = a /\ \E r \in granted[call[th].key] : r.txn = b
  <2>1. PICK b \in S : WaitsFor(a, b)
    BY DEF Cyclic
  <2>2. PICK k \in txnWaits[a] : \E r \in granted[k] : r.txn = b
    BY <2>1 DEF WaitsFor
  <2>3. PICK th \in Threads : Waiting(th) /\ Own[th] = a /\ call[th].key = k
    BY WaiterIsOwner
  <2> QED
    BY <2>2, <2>3
<1>3. W # {}
  BY <1>2 DEF Cyclic
<1>4. PICK th \in W : \A u \in W : ~(rank[th] < rank[u])
  BY <1>1, <1>3, TopClient
<1>5. PICK b \in S : \E r \in granted[call[th].key] : r.txn = b
  <2>1. PICK v \in W, b \in S :
          Own[v] = Own[th] /\ \E r \in granted[call[v].key] : r.txn = b
    BY <1>2
  <2>2. v = th
    BY <2>1, LockClientsAssumption
  <2> QED
    BY <2>1, <2>2
<1>6. call[th].key \in txnLocks[b]
  BY <1>5, WaitingCall DEF LockFacts, IndexAgrees
<1>7. PICK u \in W : Own[u] = b
  BY <1>2
<1>8. Rank[call[th].key] < Rank[call[u].key]
  BY <1>6, <1>7 DEF Ordered
<1> QED
  BY <1>4, <1>8

------------------------------------------------------------------------------
\* However many clients lock keys in ascending order, each waits only for a key
\* above all that its transaction holds, and no transactions wait for each other
\* in a cycle (lockmgr.cpp:103-119, 137-148; API.md:210 promises the second for
\* all clients, which locks_undetected refutes).
THEOREM OrderedClientsNeverCycle == ClientSpec => []OrderedWaits
<1>1. ClientInit => Ordered
  BY DEF ClientInit, Init, Ordered, Waiting
<1>2. ASSUME LockFacts, Ordered, [ClientNext]_clientVars PROVE Ordered'
  BY <1>2, OrderedStep DEF LockFacts
<1>3. ASSUME LockFacts, Ordered PROVE OrderedWaits
  <2>1. NoWaitCycle
    BY <1>3, OrderedNoCycle
  <2> QED
    BY <1>3, <2>1 DEF Ordered, OrderedWaits
<1> QED
  BY <1>1, <1>2, <1>3, ClientLockFacts, PTL DEF ClientSpec

================================================================================
