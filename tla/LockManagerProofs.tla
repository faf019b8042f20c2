--------------------------- MODULE LockManagerProofs ---------------------------
(****************************************************************************)
(* What the lock manager guarantees for any number of threads, transactions *)
(* and keys.  Each invariant is shown to be kept by every action; TypeOK is *)
(* proved first and used in all the others.                                 *)
(****************************************************************************)
EXTENDS LockManager, FiniteSetTheorems, TLAPS

\* Every step is a step of the first or second half of a call of some thread,
\* a spurious wake-up, or one of the two releases (lockmgr.cpp:67-151).
LEMMA StepCases ==
  ASSUME [Next]_lockVars
  PROVE  \/ UNCHANGED lockVars
         \/ \E th \in Threads :
              \/ \E t \in Txns, k \in Keys, type \in LockType : AcquireLock(th, t, k, type)
              \/ Resume(th)
              \/ SpuriousWakeup(th)
              \/ \E t \in Txns, k \in Keys : ReleaseLock(th, t, k)
              \/ \E t \in Txns : ReleaseAllLocks(th, t)
BY LockManagerAssumption, SMT DEF Next

\* A waiting thread's call names a transaction, a key and a lock type.
LEMMA WaitingCall ==
  ASSUME TypeOK, NEW th \in Threads, Waiting(th)
  PROVE  /\ call[th] \in Calls
         /\ call[th].txn \in Txns /\ call[th].key \in Keys /\ call[th].type \in LockType
         /\ Req(call[th].txn, call[th].type) \in Requests
BY DEF TypeOK, Waiting, Calls, Req, Requests

\* The request that acquireLock builds (lockmgr.cpp:108).
LEMMA ReqType ==
  ASSUME NEW t \in Txns, NEW type \in LockType
  PROVE  Req(t, type) \in Requests /\ Req(t, type).txn = t /\ Req(t, type).type = type
BY DEF Req, Requests

\* grantLock keeps the types of the four tables (lockmgr.cpp:36-49).
LEMMA GrantLockType ==
  ASSUME TypeOK,
         NEW t \in Txns, NEW k \in Keys, NEW type \in LockType,
         NEW q \in [Keys -> [Requests -> Nat]], NEW w \in [Txns -> SUBSET Keys],
         GrantLock(t, k, type, q, w)
  PROVE  /\ granted'  \in [Keys -> SUBSET Requests]
         /\ queued'   \in [Keys -> [Requests -> Nat]]
         /\ txnLocks' \in [Txns -> SUBSET Keys]
         /\ txnWaits' \in [Txns -> SUBSET Keys]
<1>1. Req(t, type) \in Requests
  BY ReqType
<1>2. q[k][Req(t, type)] \in Nat
  BY <1>1
<1>3. CASE q[k][Req(t, type)] > 0
  <2>1. /\ queued'   = [q EXCEPT ![k][Req(t, type)] = @ - 1]
        /\ granted'  = [granted EXCEPT ![k] = @ \cup {Req(t, type)}]
        /\ txnLocks' = [txnLocks EXCEPT ![t] = @ \cup {k}]
        /\ txnWaits' = [w EXCEPT ![t] = @ \ {k}]
    BY <1>3 DEF GrantLock
  <2>2. q[k][Req(t, type)] - 1 \in Nat
    BY <1>2, <1>3
  <2>3. queued' \in [Keys -> [Requests -> Nat]]
    BY <2>1, <2>2, <1>1
  <2>4. granted' \in [Keys -> SUBSET Requests]
    BY <2>1, <1>1, Zenon DEF TypeOK
  <2>5. txnLocks' \in [Txns -> SUBSET Keys]
    BY <2>1 DEF TypeOK
  <2>6. txnWaits' \in [Txns -> SUBSET Keys]
    BY <2>1
  <2> QED
    BY <2>3, <2>4, <2>5, <2>6
<1>4. CASE ~(q[k][Req(t, type)] > 0)
  BY <1>4 DEF GrantLock, TypeOK
<1> QED
  BY <1>3, <1>4

\* Adding a request leaves a queue of requests, with the new one in it, and
\* registers the wait (lockmgr.cpp:108-109).
LEMMA EnqueuedType ==
  ASSUME TypeOK, NEW t \in Txns, NEW k \in Keys, NEW type \in LockType
  PROVE  /\ Enqueued(t, k, type) \in [Keys -> [Requests -> Nat]]
         /\ Enqueued(t, k, type)[k][Req(t, type)] = queued[k][Req(t, type)] + 1
         /\ Enqueued(t, k, type)[k][Req(t, type)] > 0
         /\ Registered(t, k) \in [Txns -> SUBSET Keys]
<1>1. Req(t, type) \in Requests
  BY ReqType
<1>2. queued[k][Req(t, type)] \in Nat
  BY <1>1 DEF TypeOK
<1>3. Enqueued(t, k, type) \in [Keys -> [Requests -> Nat]]
  BY <1>1, <1>2 DEF TypeOK, Enqueued
<1>4. Enqueued(t, k, type)[k][Req(t, type)] = queued[k][Req(t, type)] + 1
  BY <1>1 DEF TypeOK, Enqueued
<1>5. Registered(t, k) \in [Txns -> SUBSET Keys]
  BY DEF TypeOK, Registered
<1> QED
  BY <1>2, <1>3, <1>4, <1>5

\* The tables of a new lock manager are well typed.
LEMMA TypeOKInit == ASSUME Init PROVE TypeOK
BY LockManagerAssumption DEF Init, TypeOK, Waiting

\* Every function of the lock manager leaves them so, whichever thread calls it.
LEMMA TypeOKStep == ASSUME TypeOK, [Next]_lockVars PROVE TypeOK'
<1>1. CASE UNCHANGED lockVars
  BY <1>1 DEF TypeOK, lockVars, Waiting
<1>2. ASSUME NEW th \in Threads, NEW t \in Txns, NEW k \in Keys, NEW type \in LockType,
             AcquireLock(th, t, k, type)
      PROVE  TypeOK'
  <2>1. CASE AcquireHeld(th, t, k, type)
    BY <2>1 DEF TypeOK, AcquireHeld, Return, Waiting, tableVars
  <2>2. CASE AcquireDeadlock(th, t, k, type)
    BY <2>2 DEF TypeOK, AcquireDeadlock, Return, Waiting, tableVars
  <2>3. CASE AcquireGrant(th, t, k, type)
    <3>1. /\ granted'  \in [Keys -> SUBSET Requests]
          /\ queued'   \in [Keys -> [Requests -> Nat]]
          /\ txnLocks' \in [Txns -> SUBSET Keys]
          /\ txnWaits' \in [Txns -> SUBSET Keys]
      BY <2>3, GrantLockType, EnqueuedType DEF AcquireGrant
    <3> QED
      BY <2>3, <3>1 DEF TypeOK, AcquireGrant, Return, NotifyAll
  <2>4. CASE AcquireWait(th, t, k, type)
    <3>1. [txn |-> t, key |-> k, type |-> type] \in Calls
      BY DEF Calls
    <3>2. [txn |-> t, key |-> k, type |-> type] # NoCall
      BY <3>1, LockManagerAssumption
    <3>3. queued' \in [Keys -> [Requests -> Nat]] /\ txnWaits' \in [Txns -> SUBSET Keys]
      BY <2>4, EnqueuedType DEF AcquireWait
    <3> QED
      BY <2>4, <3>1, <3>2, <3>3 DEF TypeOK, AcquireWait, Waiting
  <2> QED
    BY <1>2, <2>1, <2>2, <2>3, <2>4 DEF AcquireLock
<1>3. ASSUME NEW th \in Threads, Resume(th) PROVE TypeOK'
  <2>1. CASE ResumeCancelled(th)
    BY <2>1 DEF TypeOK, ResumeCancelled, Awake, Return, Waiting, tableVars
  <2>2. CASE ResumeWait(th)
    BY <2>2 DEF TypeOK, ResumeWait, Awake, Waiting, tableVars
  <2>3. CASE ResumeGrant(th)
    <3>1. Waiting(th)
      BY <2>3 DEF ResumeGrant, Awake
    <3>2. queued \in [Keys -> [Requests -> Nat]] /\ txnWaits \in [Txns -> SUBSET Keys]
      BY DEF TypeOK
    <3>3. /\ granted'  \in [Keys -> SUBSET Requests]
          /\ queued'   \in [Keys -> [Requests -> Nat]]
          /\ txnLocks' \in [Txns -> SUBSET Keys]
          /\ txnWaits' \in [Txns -> SUBSET Keys]
      BY <2>3, <3>1, <3>2, WaitingCall, GrantLockType DEF ResumeGrant
    <3> QED
      BY <2>3, <3>3 DEF TypeOK, ResumeGrant, Return, NotifyAll
  <2> QED
    BY <1>3, <2>1, <2>2, <2>3 DEF Resume
<1>4. ASSUME NEW th \in Threads, SpuriousWakeup(th) PROVE TypeOK'
  BY <1>4 DEF TypeOK, SpuriousWakeup, Waiting, tableVars
<1>5. ASSUME NEW th \in Threads, NEW t \in Txns, NEW k \in Keys, ReleaseLock(th, t, k)
      PROVE  TypeOK'
  BY <1>5 DEF TypeOK, ReleaseLock, Without, Return, NotifyAll
<1>6. ASSUME NEW th \in Threads, NEW t \in Txns, ReleaseAllLocks(th, t)
      PROVE  TypeOK'
  BY <1>6 DEF TypeOK, ReleaseAllLocks, Without, Return, NotifyAll
<1> QED
  BY <1>1, <1>2, <1>3, <1>4, <1>5, <1>6, StepCases

\* Every variable keeps its type.
THEOREM TypeCorrect == Spec => []TypeOK
BY TypeOKInit, TypeOKStep, PTL DEF Spec

------------------------------------------------------------------------------
(* Exclusion and the index.  The granted requests and txnLocks change in    *)
(* three ways only; what follows from them needs no look at the calls.      *)

\* canGrantLock held for the request that is granted.
Granting(t, k, type) ==
  /\ CanGrantLock(k, type)
  /\ granted' = [granted EXCEPT ![k] = @ \cup {Req(t, type)}]
  /\ txnLocks' = [txnLocks EXCEPT ![t] = @ \cup {k}]

\* t gives up its lock on k.
ReleasingOne(t, k) ==
  /\ granted' = [granted EXCEPT ![k] = Without(t, k)]
  /\ txnLocks' = [txnLocks EXCEPT ![t] = IF HasEntry(k) THEN @ \ {k} ELSE @]

\* t gives up every lock it has.
ReleasingAll(t) ==
  /\ granted' = [k \in Keys |-> IF k \in txnLocks[t] THEN Without(t, k) ELSE granted[k]]
  /\ txnLocks' = [txnLocks EXCEPT ![t] = {}]

\* A step leaves the granted requests alone, grants one after canGrantLock, or
\* is one of the two releases (lockmgr.cpp:36-66, 110-151).
LEMMA ChangeCases ==
  ASSUME TypeOK, [Next]_lockVars
  PROVE  \/ UNCHANGED <<granted, txnLocks>>
         \/ \E t \in Txns, k \in Keys, type \in LockType : Granting(t, k, type)
         \/ \E th \in Threads :
              \/ \E t \in Txns, k \in Keys : ReleaseLock(th, t, k)
              \/ \E t \in Txns : ReleaseAllLocks(th, t)
<1> DEFINE Goal ==
         \/ UNCHANGED <<granted, txnLocks>>
         \/ \E t \in Txns, k \in Keys, type \in LockType : Granting(t, k, type)
         \/ \E th \in Threads :
              \/ \E t \in Txns, k \in Keys : ReleaseLock(th, t, k)
              \/ \E t \in Txns : ReleaseAllLocks(th, t)
<1>0. ASSUME NEW t \in Txns, NEW k \in Keys, NEW type \in LockType, NEW q, NEW w,
             CanGrantLock(k, type), GrantLock(t, k, type, q, w)
      PROVE  Goal
  <2>1. CASE q[k][Req(t, type)] > 0
    <3>1. Granting(t, k, type)
      BY <1>0, <2>1 DEF GrantLock, Granting
    <3> QED
      BY <3>1
  <2>2. CASE ~(q[k][Req(t, type)] > 0)
    <3>1. UNCHANGED <<granted, txnLocks>>
      BY <1>0, <2>2 DEF GrantLock
    <3> QED
      BY <3>1
  <2> QED
    BY <2>1, <2>2
<1>1. CASE UNCHANGED lockVars
  BY <1>1 DEF lockVars
<1>2. ASSUME NEW th \in Threads, NEW t \in Txns, NEW k \in Keys, NEW type \in LockType,
             AcquireLock(th, t, k, type)
      PROVE  Goal
  <2>1. CASE AcquireGrant(th, t, k, type)
    <3>1. /\ CanGrantLock(k, type)
          /\ GrantLock(t, k, type, Enqueued(t, k, type), Registered(t, k))
      BY <2>1 DEF AcquireGrant
    <3> QED
      BY <3>1, <1>0
  <2>2. CASE \/ AcquireHeld(th, t, k, type) \/ AcquireDeadlock(th, t, k, type)
             \/ AcquireWait(th, t, k, type)
    <3>1. UNCHANGED <<granted, txnLocks>>
      BY <2>2 DEF AcquireHeld, AcquireDeadlock, AcquireWait, tableVars
    <3> QED
      BY <3>1
  <2> QED
    BY <1>2, <2>1, <2>2 DEF AcquireLock
<1>3. ASSUME NEW th \in Threads, Resume(th) PROVE Goal
  <2>1. CASE ResumeGrant(th)
    <3>1. /\ Waiting(th)
          /\ CanGrantLock(call[th].key, call[th].type)
          /\ GrantLock(call[th].txn, call[th].key, call[th].type, queued, txnWaits)
      BY <2>1 DEF ResumeGrant, Awake
    <3> QED
      BY <3>1, <1>0, WaitingCall
  <2>2. CASE ResumeCancelled(th) \/ ResumeWait(th)
    <3>1. UNCHANGED <<granted, txnLocks>>
      BY <2>2 DEF ResumeCancelled, ResumeWait, tableVars
    <3> QED
      BY <3>1
  <2> QED
    BY <1>3, <2>1, <2>2 DEF Resume
<1>4. ASSUME NEW th \in Threads, SpuriousWakeup(th) PROVE Goal
  BY <1>4 DEF SpuriousWakeup, tableVars
<1>5. ASSUME NEW th \in Threads, NEW t \in Txns, NEW k \in Keys, ReleaseLock(th, t, k)
      PROVE  Goal
  BY <1>5
<1>6. ASSUME NEW th \in Threads, NEW t \in Txns, ReleaseAllLocks(th, t) PROVE Goal
  BY <1>6
<1> QED
  BY <1>1, <1>2, <1>3, <1>4, <1>5, <1>6, StepCases

\* So granted requests and txnLocks change in three ways.
LEMMA TableStep ==
  ASSUME TypeOK, [Next]_lockVars
  PROVE  \/ UNCHANGED <<granted, txnLocks>>
         \/ \E t \in Txns, k \in Keys, type \in LockType : Granting(t, k, type)
         \/ \E t \in Txns, k \in Keys : ReleasingOne(t, k)
         \/ \E t \in Txns : ReleasingAll(t)
<1>1. \A th \in Threads : \A t \in Txns, k \in Keys : ReleaseLock(th, t, k) => ReleasingOne(t, k)
  BY DEF ReleaseLock, ReleasingOne
<1>2. \A th \in Threads : \A t \in Txns : ReleaseAllLocks(th, t) => ReleasingAll(t)
  BY DEF ReleaseAllLocks, ReleasingAll
<1> QED
  BY <1>1, <1>2, ChangeCases

\* Exclusion survives a grant because canGrantLock looked at every granted
\* request of the key, and a release because that only removes some.
LEMMA ExclusionStep ==
  ASSUME TypeOK, Exclusion, [Next]_lockVars
  PROVE  Exclusion'
<1>1. CASE UNCHANGED <<granted, txnLocks>>
  BY <1>1 DEF Exclusion
<1>2. ASSUME NEW t \in Txns, NEW k \in Keys, NEW type \in LockType, Granting(t, k, type)
      PROVE  Exclusion'
  <2> SUFFICES ASSUME NEW l \in Keys, NEW r \in granted'[l], NEW s \in granted'[l],
                      r.type = "EXCLUSIVE"
               PROVE  s = r
    BY DEF Exclusion
  <2>1. CASE l # k
    BY <1>2, <2>1 DEF Granting, TypeOK, Exclusion
  <2>2. CASE l = k
    <3>1. r \in granted[k] \cup {Req(t, type)} /\ s \in granted[k] \cup {Req(t, type)}
      BY <1>2, <2>2 DEF Granting, TypeOK
    <3>2. \A u \in granted[k] : u.type = "SHARED" /\ type = "SHARED"
      BY <1>2 DEF Granting, CanGrantLock
    <3>3. Req(t, type).type = type
      BY ReqType
    <3> QED
      BY <3>1, <3>2, <3>3
  <2> QED
    BY <2>1, <2>2
<1>3. ASSUME NEW t \in Txns, NEW k \in Keys, ReleasingOne(t, k) PROVE Exclusion'
  BY <1>3 DEF ReleasingOne, Without, TypeOK, Exclusion
<1>4. ASSUME NEW t \in Txns, ReleasingAll(t) PROVE Exclusion'
  BY <1>4 DEF ReleasingAll, Without, TypeOK, Exclusion
<1> QED
  BY <1>1, <1>2, <1>3, <1>4, TableStep

\* No interleaving of grants, waits and releases puts a writer next to anybody
\* else on a key (lockmgr.cpp:15-34, 110-118).
THEOREM MutualExclusion == Spec => []Exclusion
<1>1. Init => Exclusion
  BY DEF Init, Exclusion
<1> QED
  BY <1>1, ExclusionStep, TypeCorrect, PTL DEF Spec

\* The index of a transaction follows its granted requests through grantLock
\* and both releases (lockmgr.cpp:44, 56-65, 137-145).
LEMMA IndexStep ==
  ASSUME TypeOK, IndexAgrees, [Next]_lockVars
  PROVE  IndexAgrees'
<1>1. CASE UNCHANGED <<granted, txnLocks>>
  BY <1>1 DEF IndexAgrees
<1>2. ASSUME NEW t \in Txns, NEW k \in Keys, NEW type \in LockType, Granting(t, k, type)
      PROVE  IndexAgrees'
  <2> SUFFICES ASSUME NEW u \in Txns, NEW l \in Keys
               PROVE  l \in txnLocks'[u] <=> \E r \in granted'[l] : r.txn = u
    BY DEF IndexAgrees
  <2>1. Req(t, type).txn = t
    BY ReqType
  <2>2. granted'[l] = IF l = k THEN granted[l] \cup {Req(t, type)} ELSE granted[l]
    BY <1>2 DEF Granting, TypeOK
  <2>3. txnLocks'[u] = IF u = t THEN txnLocks[u] \cup {k} ELSE txnLocks[u]
    BY <1>2 DEF Granting, TypeOK
  <2>4. l \in txnLocks[u] <=> \E r \in granted[l] : r.txn = u
    BY DEF IndexAgrees
  <2> QED
    BY <2>1, <2>2, <2>3, <2>4
<1>3. ASSUME NEW t \in Txns, NEW k \in Keys, ReleasingOne(t, k) PROVE IndexAgrees'
  <2> SUFFICES ASSUME NEW u \in Txns, NEW l \in Keys
               PROVE  l \in txnLocks'[u] <=> \E r \in granted'[l] : r.txn = u
    BY DEF IndexAgrees
  <2>1. granted'[l] = IF l = k THEN {r \in granted[l] : r.txn # t} ELSE granted[l]
    BY <1>3 DEF ReleasingOne, Without, TypeOK
  <2>2. txnLocks'[u] = IF u = t /\ HasEntry(k) THEN txnLocks[u] \ {k} ELSE txnLocks[u]
    BY <1>3 DEF ReleasingOne, TypeOK
  <2>3. l \in txnLocks[u] <=> \E r \in granted[l] : r.txn = u
    BY DEF IndexAgrees
  <2>4. (\E r \in granted[k] : r.txn = t) => HasEntry(k)
    BY DEF HasEntry
  <2> QED
    BY <2>1, <2>2, <2>3, <2>4
<1>4. ASSUME NEW t \in Txns, ReleasingAll(t) PROVE IndexAgrees'
  <2> SUFFICES ASSUME NEW u \in Txns, NEW l \in Keys
               PROVE  l \in txnLocks'[u] <=> \E r \in granted'[l] : r.txn = u
    BY DEF IndexAgrees
  <2>1. granted'[l] = IF l \in txnLocks[t] THEN {r \in granted[l] : r.txn # t} ELSE granted[l]
    BY <1>4 DEF ReleasingAll, Without
  <2>2. txnLocks'[u] = IF u = t THEN {} ELSE txnLocks[u]
    BY <1>4 DEF ReleasingAll, TypeOK
  <2>3. \A v \in Txns : l \in txnLocks[v] <=> \E r \in granted[l] : r.txn = v
    BY DEF IndexAgrees
  <2> QED
    BY <2>1, <2>2, <2>3
<1> QED
  BY <1>1, <1>2, <1>3, <1>4, TableStep

\* releaseAllLocks finds every lock of its transaction (lockmgr.cpp:137-145).
THEOREM IndexComplete == Spec => []IndexAgrees
<1>1. Init => IndexAgrees
  BY DEF Init, IndexAgrees
<1> QED
  BY <1>1, IndexStep, TypeCorrect, PTL DEF Spec

------------------------------------------------------------------------------
(* Sleeping callers *)

\* Whoever ends the reason for a sleep wakes everybody: the steps that change
\* what canGrantLock and the cancellation test read also notify, and a call
\* goes to sleep only after both tests failed under the same hold of lockMutex.
LEMMA WakeupStep ==
  ASSUME TypeOK, NoLostWakeup, [Next]_lockVars
  PROVE  NoLostWakeup'
<1>1. CASE UNCHANGED lockVars
  BY <1>1 DEF lockVars, NoLostWakeup, Cancelled, CanGrantLock
<1>2. ASSUME NEW th \in Threads, NEW t \in Txns, NEW k \in Keys, NEW type \in LockType,
             AcquireLock(th, t, k, type)
      PROVE  NoLostWakeup'
  <2>1. CASE AcquireHeld(th, t, k, type) \/ AcquireDeadlock(th, t, k, type)
    <3>1. /\ UNCHANGED <<tableVars, asleep>>
          /\ th \notin asleep
          /\ call' = [call EXCEPT ![th] = NoCall]
      BY <2>1 DEF AcquireHeld, AcquireDeadlock, Return, TypeOK
    <3> QED
      BY <3>1 DEF TypeOK, NoLostWakeup, Cancelled, CanGrantLock, tableVars
  <2>2. CASE AcquireGrant(th, t, k, type)
    BY <2>2 DEF AcquireGrant, NotifyAll, NoLostWakeup
  <2>3. CASE AcquireWait(th, t, k, type)
    <3> SUFFICES ASSUME NEW u \in asleep'
                 PROVE  (~Cancelled(u) /\ ~CanGrantLock(call[u].key, call[u].type))'
      BY DEF NoLostWakeup
    <3>1. CASE u = th
      <4>1. call'[u] = [txn |-> t, key |-> k, type |-> type]
        BY <2>3, <3>1 DEF AcquireWait, TypeOK
      <4>2. k \in txnWaits'[t]
        BY <2>3 DEF AcquireWait, Registered, TypeOK
      <4>3. ~CanGrantLock(k, type) /\ granted' = granted
        BY <2>3 DEF AcquireWait
      <4> QED
        BY <4>1, <4>2, <4>3 DEF Cancelled, CanGrantLock
    <3>2. CASE u # th
      <4>1. u \in asleep /\ u \in Threads /\ Waiting(u)
        BY <2>3, <3>2 DEF AcquireWait, TypeOK
      <4>2. call'[u] = call[u]
        BY <2>3, <3>2, <4>1 DEF AcquireWait, TypeOK
      <4>3. call[u].txn \in Txns
        BY <4>1, WaitingCall
      <4>4. txnWaits[call[u].txn] \subseteq txnWaits'[call[u].txn] /\ granted' = granted
        BY <2>3, <4>3 DEF AcquireWait, Registered, TypeOK
      <4> QED
        BY <4>1, <4>2, <4>4 DEF NoLostWakeup, Cancelled, CanGrantLock
    <3> QED
      BY <3>1, <3>2
  <2> QED
    BY <1>2, <2>1, <2>2, <2>3 DEF AcquireLock
<1>3. ASSUME NEW th \in Threads, Resume(th) PROVE NoLostWakeup'
  <2>1. CASE ResumeCancelled(th)
    <3>1. /\ UNCHANGED <<tableVars, asleep>>
          /\ th \notin asleep
          /\ call' = [call EXCEPT ![th] = NoCall]
      BY <2>1 DEF ResumeCancelled, Awake, Return
    <3> QED
      BY <3>1 DEF TypeOK, NoLostWakeup, Cancelled, CanGrantLock, tableVars
  <2>2. CASE ResumeWait(th)
    BY <2>2 DEF ResumeWait, NoLostWakeup, Cancelled, CanGrantLock, tableVars
  <2>3. CASE ResumeGrant(th)
    BY <2>3 DEF ResumeGrant, NotifyAll, NoLostWakeup
  <2> QED
    BY <1>3, <2>1, <2>2, <2>3 DEF Resume
<1>4. ASSUME NEW th \in Threads, SpuriousWakeup(th) PROVE NoLostWakeup'
  BY <1>4 DEF SpuriousWakeup, NoLostWakeup, Cancelled, CanGrantLock, tableVars
<1>5. ASSUME NEW th \in Threads, NEW t \in Txns, NEW k \in Keys, ReleaseLock(th, t, k)
      PROVE  NoLostWakeup'
  BY <1>5 DEF ReleaseLock, NotifyAll, NoLostWakeup
<1>6. ASSUME NEW th \in Threads, NEW t \in Txns, ReleaseAllLocks(th, t)
      PROVE  NoLostWakeup'
  BY <1>6 DEF ReleaseAllLocks, NotifyAll, NoLostWakeup
<1> QED
  BY <1>1, <1>2, <1>3, <1>4, <1>5, <1>6, StepCases

\* No caller of acquireLock sleeps through the release that lets it go on
\* (lockmgr.cpp:110-119, 128, 148).
THEOREM NoWakeupLost == Spec => []NoLostWakeup
<1>1. Init => NoLostWakeup
  BY DEF Init, NoLostWakeup
<1> QED
  BY <1>1, WakeupStep, TypeCorrect, PTL DEF Spec

------------------------------------------------------------------------------
(* The lock manager implements readers-writer locks *)

\* The mode that is read off the granted requests starts as NONE, and every
\* step grants a compatible lock, releases the locks of one transaction, or
\* does nothing a client of the lock could see (lockmgr.cpp:15-66).
LEMMA RWStep ==
  ASSUME TypeOK, [Next]_lockVars
  PROVE  [RW!Next]_([k \in Keys |-> [t \in Txns |-> ModeOf(t, k)]])
<1> DEFINE mode == [k \in Keys |-> [t \in Txns |-> ModeOf(t, k)]]
<1> DEFINE after == [k \in Keys |-> [t \in Txns |-> ModeOf(t, k)']]
<1>0. mode' = after
  OBVIOUS
<1>1. CASE UNCHANGED <<granted, txnLocks>>
  BY <1>1 DEF ModeOf
<1>2. ASSUME NEW t \in Txns, NEW k \in Keys, NEW type \in LockType, Granting(t, k, type)
      PROVE  RW!Next
  <2>1. granted' = [granted EXCEPT ![k] = @ \cup {Req(t, type)}]
    BY <1>2 DEF Granting
  <2>2. \A r \in granted[k] : r.type = "SHARED" /\ type = "SHARED"
    BY <1>2 DEF Granting, CanGrantLock
  <2>3. \A u \in Txns, l \in Keys : l # k => ModeOf(u, l)' = ModeOf(u, l)
    BY <2>1 DEF ModeOf, TypeOK
  <2>4. \A u \in Txns : u # t => ModeOf(u, k)' = ModeOf(u, k)
    BY <2>1 DEF ModeOf, TypeOK, Req
  <2>5. CASE type = "SHARED"
    <3>1. \A u \in Txns : Req(u, "EXCLUSIVE") \notin granted[k]
      BY <2>2 DEF Req
    <3>2. \A u \in Txns : mode[k][u] # "EXCLUSIVE"
      BY <3>1 DEF ModeOf
    <3>3. ModeOf(t, k)' = "SHARED"
      BY <2>1, <2>5, <3>1 DEF ModeOf, TypeOK, Req
    <3>4. mode' = [mode EXCEPT ![k][t] = "SHARED"]
      BY <2>3, <2>4, <3>3, <1>0
    <3>5. RW!GrantShared(t, k)
      BY <3>2, <3>4 DEF RW!GrantShared
    <3> QED
      BY <3>5 DEF RW!Next
  <2>6. CASE type = "EXCLUSIVE"
    <3>1. granted[k] = {}
      BY <2>2, <2>6
    <3>2. \A u \in Txns : mode[k][u] = "NONE"
      BY <3>1 DEF ModeOf
    <3>3. ModeOf(t, k)' = "EXCLUSIVE"
      BY <2>1, <2>6 DEF ModeOf, TypeOK, Req
    <3>4. mode' = [mode EXCEPT ![k][t] = "EXCLUSIVE"]
      BY <2>3, <2>4, <3>3, <1>0
    <3>5. RW!GrantExclusive(t, k)
      BY <3>2, <3>4 DEF RW!GrantExclusive
    <3> QED
      BY <3>5 DEF RW!Next
  <2> QED
    BY <2>5, <2>6 DEF LockType
<1>3. ASSUME NEW t \in Txns, NEW K \in SUBSET Keys,
             granted' = [k \in Keys |-> IF k \in K THEN Without(t, k) ELSE granted[k]]
      PROVE  RW!Next
  <2>1. \A k \in K : ModeOf(t, k)' = "NONE"
    BY <1>3 DEF ModeOf, Without, Req
  <2>2. \A k \in K, u \in Txns : u # t => ModeOf(u, k)' = ModeOf(u, k)
    BY <1>3 DEF ModeOf, Without, Req
  <2>3. \A k \in Keys \ K, u \in Txns : ModeOf(u, k)' = ModeOf(u, k)
    BY <1>3 DEF ModeOf
  <2>4. \A k \in Keys : after[k] = IF k \in K THEN [mode[k] EXCEPT ![t] = "NONE"] ELSE mode[k]
    BY <2>1, <2>2, <2>3
  <2>5. mode' = [k \in Keys |-> IF k \in K THEN [mode[k] EXCEPT ![t] = "NONE"] ELSE mode[k]]
    BY <2>4, <1>0
  <2>6. RW!Release(t, K)
    BY <2>5 DEF RW!Release
  <2> QED
    BY <2>6 DEF RW!Next
<1>4. ASSUME NEW t \in Txns, NEW k \in Keys, ReleasingOne(t, k) PROVE RW!Next
  <2>1. granted' = [l \in Keys |-> IF l \in {k} THEN Without(t, l) ELSE granted[l]]
    BY <1>4 DEF ReleasingOne, Without, TypeOK
  <2> QED
    BY <2>1, <1>3
<1>5. ASSUME NEW t \in Txns, ReleasingAll(t) PROVE RW!Next
  <2>1. txnLocks[t] \in SUBSET Keys
    BY DEF TypeOK
  <2> QED
    BY <2>1, <1>3, <1>5 DEF ReleasingAll
<1> QED
  BY <1>1, <1>2, <1>4, <1>5, TableStep

\* Whatever its callers do, the lock manager behaves as readers-writer locks:
\* the tables, the queue and the sleeping callers are only its implementation.
THEOREM ImplementsRWLocks == Spec => RWSpec
<1>1. Init => RW!Init
  BY DEF Init, RW!Init, ModeOf
<1> QED
  BY <1>1, RWStep, TypeCorrect, PTL DEF Spec, RWSpec, RW!Spec

------------------------------------------------------------------------------
(* Calls, requests and registered waits *)

\* The threads in one call are finitely many, so they can be counted.
LEMMA CallersFinite ==
  ASSUME NEW k, NEW r
  PROVE  /\ IsFiniteSet(Callers(k, r)) /\ IsFiniteSet(Callers(k, r)')
         /\ Cardinality(Callers(k, r)) \in Nat /\ Cardinality(Callers(k, r)') \in Nat
<1>1. Callers(k, r) \in SUBSET Threads /\ Callers(k, r)' \in SUBSET Threads
  BY DEF Callers
<1>2. IsFiniteSet(Threads)
  BY LockManagerAssumption
<1>3. IsFiniteSet(Callers(k, r)) /\ IsFiniteSet(Callers(k, r)')
  BY <1>1, <1>2, FS_Subset
<1> QED
  BY <1>3, FS_CardinalityType

\* Fewer threads in a call and no fewer requests: the count still fits.
LEMMA CallersShrink ==
  ASSUME TypeOK, TypeOK', QueueCoversCalls, NEW k \in Keys, NEW r \in Requests,
         Callers(k, r)' \subseteq Callers(k, r), queued[k][r] <= queued'[k][r]
  PROVE  Cardinality(Callers(k, r)') <= queued'[k][r]
<1>1. Cardinality(Callers(k, r)') <= Cardinality(Callers(k, r))
  BY CallersFinite, FS_Subset
<1>2. Cardinality(Callers(k, r)) <= queued[k][r]
  BY DEF QueueCoversCalls
<1>3. queued[k][r] \in Nat /\ queued'[k][r] \in Nat
  BY DEF TypeOK
<1> QED
  BY <1>1, <1>2, <1>3, CallersFinite

\* A call that returns leaves every other call as it was.
LEMMA ReturnShrinks ==
  ASSUME TypeOK, NEW th \in Threads, NEW k \in Keys, NEW r \in Requests,
         call' = [call EXCEPT ![th] = NoCall]
  PROVE  Callers(k, r)' = Callers(k, r) \ {th}
<1>1. [txn |-> r.txn, key |-> k, type |-> r.type] \in Calls
  BY DEF Calls, Requests
<1>2. [txn |-> r.txn, key |-> k, type |-> r.type] # NoCall
  BY <1>1, LockManagerAssumption
<1> QED
  BY <1>2 DEF Callers, TypeOK

\* A waiting call is one of the callers of its own request.
LEMMA OwnCaller ==
  ASSUME TypeOK, NEW th \in Threads, Waiting(th)
  PROVE  th \in Callers(call[th].key, Req(call[th].txn, call[th].type))
<1>1. call[th] \in Calls
  BY WaitingCall
<1>2. call[th] = [txn |-> call[th].txn, key |-> call[th].key, type |-> call[th].type]
  BY <1>1 DEF Calls
<1>3. Req(call[th].txn, call[th].type).txn = call[th].txn
      /\ Req(call[th].txn, call[th].type).type = call[th].type
  BY DEF Req
<1> QED
  BY <1>2, <1>3 DEF Callers

\* grantLock finds the request of a call that waited (lockmgr.cpp:38-48).
LEMMA GrantFindsRequest ==
  ASSUME TypeOK, QueueCoversCalls, NEW th \in Threads, Waiting(th)
  PROVE  queued[call[th].key][Req(call[th].txn, call[th].type)] > 0
<1> DEFINE k == call[th].key
<1> DEFINE r == Req(call[th].txn, call[th].type)
<1>1. k \in Keys /\ r \in Requests
  BY WaitingCall
<1> HIDE DEF k, r
<1>2. th \in Callers(k, r)
  BY OwnCaller DEF k, r
<1>3. Cardinality(Callers(k, r)) <= queued[k][r]
  BY <1>1 DEF QueueCoversCalls
<1>4. Cardinality(Callers(k, r)) # 0
  BY <1>2, CallersFinite, FS_EmptySet
<1>5. queued[k][r] \in Nat
  BY <1>1 DEF TypeOK
<1>6. queued[k][r] > 0
  BY <1>3, <1>4, <1>5, CallersFinite
<1> QED
  BY <1>6 DEF k, r

\* Every step that adds a waiting call adds its request, and the step that
\* takes a request away ends one call for it (lockmgr.cpp:108, 113-118).
LEMMA QueueStep ==
  ASSUME TypeOK, TypeOK', QueueCoversCalls, [Next]_lockVars
  PROVE  QueueCoversCalls'
<1> SUFFICES ASSUME NEW k \in Keys, NEW r \in Requests
             PROVE  Cardinality(Callers(k, r)') <= queued'[k][r]
  BY DEF QueueCoversCalls
<1>0. queued[k][r] \in Nat /\ queued'[k][r] \in Nat
  BY DEF TypeOK
<1>s. ASSUME UNCHANGED queued, UNCHANGED call \/ \E th \in Threads : call' = [call EXCEPT ![th] = NoCall]
      PROVE  Cardinality(Callers(k, r)') <= queued'[k][r]
  <2>1. Callers(k, r)' \subseteq Callers(k, r)
    <3>1. CASE UNCHANGED call
      BY <3>1 DEF Callers
    <3>2. CASE \E th \in Threads : call' = [call EXCEPT ![th] = NoCall]
      <4>1. PICK th \in Threads : call' = [call EXCEPT ![th] = NoCall]
        BY <3>2
      <4>2. Callers(k, r)' = Callers(k, r) \ {th}
        BY <4>1, ReturnShrinks
      <4> QED
        BY <4>2
    <3> QED
      BY <1>s, <3>1, <3>2
  <2> QED
    BY <1>s, <1>0, <2>1, CallersShrink
<1>1. CASE UNCHANGED lockVars
  BY <1>1, <1>s DEF lockVars
<1>2. ASSUME NEW th \in Threads, NEW t \in Txns, NEW l \in Keys, NEW type \in LockType,
             AcquireLock(th, t, l, type)
      PROVE  Cardinality(Callers(k, r)') <= queued'[k][r]
  <2>1. CASE AcquireHeld(th, t, l, type) \/ AcquireDeadlock(th, t, l, type)
    BY <2>1, <1>s DEF AcquireHeld, AcquireDeadlock, Return, tableVars
  <2>2. CASE AcquireGrant(th, t, l, type)
    <3> DEFINE q == Enqueued(t, l, type)
    <3>1. /\ Req(t, type) \in Requests
          /\ q \in [Keys -> [Requests -> Nat]]
          /\ q[l][Req(t, type)] = queued[l][Req(t, type)] + 1
          /\ q[l][Req(t, type)] > 0
      BY EnqueuedType, ReqType
    <3>2. queued' = [q EXCEPT ![l][Req(t, type)] = @ - 1]
      BY <2>2, <3>1 DEF AcquireGrant, GrantLock
    <3>3. queued[l][Req(t, type)] \in Nat
      BY <3>1 DEF TypeOK
    <3>4. queued'[l][Req(t, type)] = queued[l][Req(t, type)]
      BY <3>1, <3>2, <3>3
    <3>5. k # l \/ r # Req(t, type) => queued'[k][r] = queued[k][r]
      BY <3>1, <3>2 DEF Enqueued, TypeOK
    <3>6. queued[k][r] <= queued'[k][r]
      BY <1>0, <3>4, <3>5
    <3>7. call' = [call EXCEPT ![th] = NoCall]
      BY <2>2 DEF AcquireGrant, Return
    <3>8. Callers(k, r)' = Callers(k, r) \ {th}
      BY <3>7, ReturnShrinks
    <3>9. Callers(k, r)' \subseteq Callers(k, r)
      BY <3>8
    <3> QED
      BY <3>6, <3>9, CallersShrink
  <2>3. CASE AcquireWait(th, t, l, type)
    <3> DEFINE c == [txn |-> t, key |-> l, type |-> type]
    <3>1. /\ ~Waiting(th)
          /\ queued' = Enqueued(t, l, type)
          /\ call' = [call EXCEPT ![th] = c]
      BY <2>3 DEF AcquireWait
    <3>2. CASE k = l /\ r = Req(t, type)
      <4>1. Callers(k, r)' \subseteq Callers(k, r) \cup {th}
        BY <3>1 DEF Callers, TypeOK
      <4>2. /\ IsFiniteSet(Callers(k, r) \cup {th})
            /\ Cardinality(Callers(k, r) \cup {th}) \in Nat
            /\ Cardinality(Callers(k, r) \cup {th}) <= Cardinality(Callers(k, r)) + 1
        <5>1. IsFiniteSet(Callers(k, r)) /\ Cardinality(Callers(k, r)) \in Nat
          BY CallersFinite
        <5>2. /\ IsFiniteSet(Callers(k, r) \cup {th})
              /\ Cardinality(Callers(k, r) \cup {th}) =
                   IF th \in Callers(k, r) THEN Cardinality(Callers(k, r))
                                           ELSE Cardinality(Callers(k, r)) + 1
          BY <5>1, FS_AddElement
        <5> QED
          BY <5>1, <5>2
      <4>3. Cardinality(Callers(k, r)') <= Cardinality(Callers(k, r) \cup {th})
        BY <4>1, <4>2, FS_Subset
      <4>4. Cardinality(Callers(k, r)) <= queued[k][r]
        BY DEF QueueCoversCalls
      <4>5. queued'[k][r] = queued[k][r] + 1
        BY <3>1, <3>2, EnqueuedType
      <4> QED
        BY <4>2, <4>3, <4>4, <4>5, <1>0, CallersFinite
    <3>3. CASE ~(k = l /\ r = Req(t, type))
      <4>1. c # [txn |-> r.txn, key |-> k, type |-> r.type]
        BY <3>3 DEF Req, Requests
      <4>2. Callers(k, r)' \subseteq Callers(k, r)
        BY <3>1, <4>1 DEF Callers, TypeOK
      <4>3. queued'[k][r] = queued[k][r]
        BY <3>1, <3>3, ReqType DEF Enqueued, TypeOK
      <4> QED
        BY <4>2, <4>3, <1>0, CallersShrink
    <3> QED
      BY <3>2, <3>3
  <2> QED
    BY <1>2, <2>1, <2>2, <2>3 DEF AcquireLock
<1>3. ASSUME NEW th \in Threads, Resume(th)
      PROVE  Cardinality(Callers(k, r)') <= queued'[k][r]
  <2>1. CASE ResumeCancelled(th) \/ ResumeWait(th)
    BY <2>1, <1>s DEF ResumeCancelled, ResumeWait, Return, tableVars
  <2>2. CASE ResumeGrant(th)
    <3> DEFINE l == call[th].key
    <3> DEFINE s == Req(call[th].txn, call[th].type)
    <3>1. Waiting(th)
      BY <2>2 DEF ResumeGrant, Awake
    <3>2. /\ queued' = [queued EXCEPT ![l][s] = @ - 1]
          /\ call' = [call EXCEPT ![th] = NoCall]
      BY <2>2, <3>1, GrantFindsRequest DEF ResumeGrant, GrantLock, Return
    <3>3. l \in Keys /\ s \in Requests /\ th \in Callers(l, s)
      BY <3>1, WaitingCall, OwnCaller
    <3> HIDE DEF l, s
    <3>4. Callers(k, r)' = Callers(k, r) \ {th}
      BY <3>2, ReturnShrinks
    <3>5. CASE k = l /\ r = s
      <4>1. Cardinality(Callers(k, r)') = Cardinality(Callers(k, r)) - 1
        <5>1. th \in Callers(k, r) /\ IsFiniteSet(Callers(k, r))
          BY <3>3, <3>5, CallersFinite
        <5>2. Cardinality(Callers(k, r) \ {th}) = Cardinality(Callers(k, r)) - 1
          BY <5>1, FS_RemoveElement
        <5> QED
          BY <5>2, <3>4
      <4>2. queued'[k][r] = queued[k][r] - 1
        BY <3>2, <3>3, <3>5 DEF TypeOK
      <4>3. Cardinality(Callers(k, r)) <= queued[k][r]
        BY DEF QueueCoversCalls
      <4> QED
        BY <4>1, <4>2, <4>3, <1>0, CallersFinite
    <3>6. CASE ~(k = l /\ r = s)
      <4>1. queued'[k][r] = queued[k][r]
        BY <3>2, <3>3, <3>6 DEF TypeOK
      <4>2. Callers(k, r)' \subseteq Callers(k, r)
        BY <3>4
      <4> QED
        BY <4>1, <4>2, <1>0, CallersShrink
    <3> QED
      BY <3>5, <3>6
  <2> QED
    BY <1>3, <2>1, <2>2 DEF Resume
<1>4. ASSUME NEW th \in Threads, SpuriousWakeup(th)
      PROVE  Cardinality(Callers(k, r)') <= queued'[k][r]
  BY <1>4, <1>s DEF SpuriousWakeup, tableVars
<1>5. ASSUME NEW th \in Threads, NEW t \in Txns, NEW l \in Keys, ReleaseLock(th, t, l)
      PROVE  Cardinality(Callers(k, r)') <= queued'[k][r]
  BY <1>5, <1>s DEF ReleaseLock, Return
<1>6. ASSUME NEW th \in Threads, NEW t \in Txns, ReleaseAllLocks(th, t)
      PROVE  Cardinality(Callers(k, r)') <= queued'[k][r]
  BY <1>6, <1>s DEF ReleaseAllLocks, Return
<1> QED
  BY <1>1, <1>2, <1>3, <1>4, <1>5, <1>6, StepCases

\* Nobody has called a new lock manager yet.
LEMMA QueueInit == ASSUME Init PROVE QueueCoversCalls
<1> SUFFICES ASSUME NEW k \in Keys, NEW r \in Requests
             PROVE  Cardinality(Callers(k, r)) <= queued[k][r]
  BY DEF QueueCoversCalls
<1>1. [txn |-> r.txn, key |-> k, type |-> r.type] \in Calls
  BY DEF Calls, Requests
<1>2. Callers(k, r) = {}
  BY <1>1, LockManagerAssumption DEF Init, Callers
<1>3. queued[k][r] = 0
  BY DEF Init
<1> QED
  BY <1>2, <1>3, FS_EmptySet

\* Every waiting call keeps a request of its own in the queue of its key
\* (lockmgr.cpp:38-48, 108, 118).
THEOREM CallsHaveRequests == Spec => []QueueCoversCalls
BY QueueInit, QueueStep, TypeCorrect, PTL DEF Spec

\* What a step does to the calls and to the registered waits of txnWaits: each
\* registered wait of the new state was there before or belongs to the call
\* that starts to wait, and the call that ends takes its own with it.
LEMMA WaitsStep ==
  ASSUME TypeOK, TypeOK', QueueCoversCalls, WaitsHaveCalls, [Next]_lockVars
  PROVE  WaitsHaveCalls'
<1> SUFFICES ASSUME NEW t \in Txns, NEW k \in txnWaits'[t]
             PROVE  \E u \in Threads : Waiting(u)' /\ call'[u].txn = t /\ call'[u].key = k
  BY DEF WaitsHaveCalls
<1> DEFINE Goal == \E u \in Threads : Waiting(u)' /\ call'[u].txn = t /\ call'[u].key = k
<1>s. ASSUME NEW th \in Threads, k \in txnWaits[t],
             UNCHANGED call \/ call' = [call EXCEPT ![th] = NoCall],
             Waiting(th) => ~(call[th].txn = t /\ call[th].key = k) \/ UNCHANGED call
      PROVE  Goal
  <2>1. PICK u \in Threads : Waiting(u) /\ call[u].txn = t /\ call[u].key = k
    BY <1>s DEF WaitsHaveCalls
  <2>2. call'[u] = call[u]
    BY <1>s, <2>1 DEF TypeOK
  <2> QED
    BY <2>1, <2>2 DEF Waiting
<1>1. CASE UNCHANGED lockVars
  BY <1>1 DEF lockVars, WaitsHaveCalls, Waiting
<1>2. ASSUME NEW th \in Threads, NEW v \in Txns, NEW l \in Keys, NEW type \in LockType,
             AcquireLock(th, v, l, type)
      PROVE  Goal
  <2>1. CASE AcquireHeld(th, v, l, type) \/ AcquireDeadlock(th, v, l, type)
    BY <2>1, <1>s DEF AcquireHeld, AcquireDeadlock, Return, tableVars
  <2>2. CASE AcquireGrant(th, v, l, type)
    <3>1. GrantLock(v, l, type, Enqueued(v, l, type), Registered(v, l))
      BY <2>2 DEF AcquireGrant
    <3>2. txnWaits' = [Registered(v, l) EXCEPT ![v] = @ \ {l}]
      BY <3>1, EnqueuedType DEF GrantLock
    <3>3. k \in txnWaits[t]
      BY <3>2 DEF Registered, TypeOK
    <3>4. ~Waiting(th) /\ call' = [call EXCEPT ![th] = NoCall]
      BY <2>2 DEF AcquireGrant, Return
    <3> QED
      BY <3>3, <3>4, <1>s
  <2>3. CASE AcquireWait(th, v, l, type)
    <3>1. /\ ~Waiting(th)
          /\ call'[th] = [txn |-> v, key |-> l, type |-> type]
          /\ \A u \in Threads : u # th => call'[u] = call[u]
          /\ txnWaits' = [txnWaits EXCEPT ![v] = @ \cup {l}]
      BY <2>3 DEF AcquireWait, Registered, TypeOK
    <3>2. CASE t = v /\ k = l
      <4>1. [txn |-> v, key |-> l, type |-> type] # NoCall
        BY LockManagerAssumption DEF Calls
      <4> QED
        BY <3>1, <3>2, <4>1 DEF Waiting
    <3>3. CASE k \in txnWaits[t]
      <4>1. PICK u \in Threads : Waiting(u) /\ call[u].txn = t /\ call[u].key = k
        BY <3>3 DEF WaitsHaveCalls
      <4> QED
        BY <3>1, <4>1 DEF Waiting
    <3> QED
      BY <3>1, <3>2, <3>3 DEF TypeOK
  <2> QED
    BY <1>2, <2>1, <2>2, <2>3 DEF AcquireLock
<1>3. ASSUME NEW th \in Threads, Resume(th) PROVE Goal
  <2>1. CASE ResumeCancelled(th)
    <3>1. /\ UNCHANGED txnWaits
          /\ call[th].key \notin txnWaits[call[th].txn]
          /\ call' = [call EXCEPT ![th] = NoCall]
      BY <2>1 DEF ResumeCancelled, Cancelled, Return, tableVars
    <3>2. k \in txnWaits[t] /\ ~(call[th].txn = t /\ call[th].key = k)
      BY <3>1
    <3> QED
      BY <3>1, <3>2, <1>s
  <2>2. CASE ResumeWait(th)
    BY <2>2, <1>s DEF ResumeWait, tableVars
  <2>3. CASE ResumeGrant(th)
    <3>1. Waiting(th) /\ call' = [call EXCEPT ![th] = NoCall]
      BY <2>3 DEF ResumeGrant, Awake, Return
    <3>2. txnWaits' = [txnWaits EXCEPT ![call[th].txn] = @ \ {call[th].key}]
      BY <2>3, <3>1, GrantFindsRequest DEF ResumeGrant, GrantLock
    <3>3. k \in txnWaits[t] /\ ~(call[th].txn = t /\ call[th].key = k)
      BY <3>2 DEF TypeOK
    <3> QED
      BY <3>1, <3>3, <1>s
  <2> QED
    BY <1>3, <2>1, <2>2, <2>3 DEF Resume
<1>4. ASSUME NEW th \in Threads, SpuriousWakeup(th) PROVE Goal
  BY <1>4, <1>s DEF SpuriousWakeup, tableVars
<1>5. ASSUME NEW th \in Threads, NEW v \in Txns, NEW l \in Keys, ReleaseLock(th, v, l)
      PROVE  Goal
  BY <1>5, <1>s DEF ReleaseLock, Return
<1>6. ASSUME NEW th \in Threads, NEW v \in Txns, ReleaseAllLocks(th, v) PROVE Goal
  <2>1. k \in txnWaits[t]
    BY <1>6 DEF ReleaseAllLocks, TypeOK
  <2> QED
    BY <1>6, <2>1, <1>s DEF ReleaseAllLocks, Return
<1> QED
  BY <1>1, <1>2, <1>3, <1>4, <1>5, <1>6, StepCases

\* A transaction is registered as waiting for a key only while a call of its
\* own waits for that key (lockmgr.cpp:45, 109, 147).
THEOREM WaitsAreReal == Spec => []WaitsHaveCalls
<1>1. Init => WaitsHaveCalls
  BY DEF Init, WaitsHaveCalls
<1> QED
  BY <1>1, WaitsStep, TypeCorrect, CallsHaveRequests, PTL DEF Spec

\* The search for a cycle has nowhere to go from a transaction that has no
\* registered wait (lockmgr.cpp:165-186).
LEMMA NoWaitNoDeadlock ==
  ASSUME NEW t \in Txns, txnWaits[t] = {}
  PROVE  ~HasDeadlock(t)
<1>1. \A b \in Txns : ~WaitsFor(t, b)
  BY DEF WaitsFor
<1>2. ASSUME NEW S \in SUBSET {t}, Cyclic(S) PROVE FALSE
  <2>1. t \in S
    BY <1>2 DEF Cyclic
  <2>2. PICK b \in S : WaitsFor(t, b)
    BY <1>2, <2>1 DEF Cyclic
  <2> QED
    BY <2>2, <1>1
<1>3. {t} \in SUBSET Txns /\ t \in {t}
  OBVIOUS
<1>4. \A a \in {t}, b \in Txns : WaitsFor(a, b) => b \in {t}
  BY <1>1
<1> QED
  BY <1>2, <1>3, <1>4, Zenon DEF HasDeadlock

\* A transaction on a cycle has a registered wait, hence a waiting call.
LEMMA FalseAlarmFree ==
  ASSUME TypeOK, WaitsHaveCalls
  PROVE  NoFalseAlarm
<1> SUFFICES ASSUME NEW t \in Txns, HasDeadlock(t)
             PROVE  \E th \in Threads : Waiting(th) /\ call[th].txn = t
  BY DEF NoFalseAlarm
<1>1. txnWaits[t] # {}
  BY NoWaitNoDeadlock
<1> QED
  BY <1>1 DEF WaitsHaveCalls

\* A transaction is reported as deadlocked only if another of its calls is
\* already waiting (lockmgr.cpp:103, 152-187).
THEOREM AlarmsAreReal == Spec => []NoFalseAlarm
BY TypeCorrect, WaitsAreReal, FalseAlarmFree, PTL

------------------------------------------------------------------------------
(* What a caller is told *)

\* Threads that do not act keep their call and their last result; the acting
\* thread leaves a wait only through the two ways out of the loop in
\* acquireLock (lockmgr.cpp:110-122).
LEMMA CallStep ==
  ASSUME TypeOK, [Next]_lockVars, NEW th \in Threads, Waiting(th)
  PROVE  \/ call'[th] = call[th]
         \/ ResumeCancelled(th)
         \/ ResumeGrant(th)
<1> DEFINE Goal == call'[th] = call[th] \/ ResumeCancelled(th) \/ ResumeGrant(th)
<1>1. CASE UNCHANGED lockVars
  BY <1>1 DEF lockVars
<1>2. ASSUME NEW u \in Threads, NEW t \in Txns, NEW k \in Keys, NEW type \in LockType,
             AcquireLock(u, t, k, type)
      PROVE  Goal
  <2>1. u # th
    BY <1>2 DEF AcquireLock, AcquireHeld, AcquireDeadlock, AcquireGrant, AcquireWait
  <2>2. call'[th] = call[th]
    BY <1>2, <2>1 DEF AcquireLock, AcquireHeld, AcquireDeadlock, AcquireGrant, AcquireWait,
                      Return, TypeOK
  <2> QED
    BY <2>2
<1>3. ASSUME NEW u \in Threads, Resume(u) PROVE Goal
  <2>1. CASE u = th
    BY <1>3, <2>1 DEF Resume, ResumeWait
  <2>2. CASE u # th
    BY <1>3, <2>2 DEF Resume, ResumeCancelled, ResumeWait, ResumeGrant, Return, TypeOK
  <2> QED
    BY <2>1, <2>2
<1>4. ASSUME NEW u \in Threads, SpuriousWakeup(u) PROVE Goal
  BY <1>4 DEF SpuriousWakeup
<1>5. ASSUME NEW u \in Threads,
             \/ \E t \in Txns, k \in Keys : ReleaseLock(u, t, k)
             \/ \E t \in Txns : ReleaseAllLocks(u, t)
      PROVE  Goal
  <2>1. ~Waiting(u) /\ call' = [call EXCEPT ![u] = NoCall]
    BY <1>5 DEF ReleaseLock, ReleaseAllLocks, Return
  <2>2. u # th
    BY <2>1
  <2>3. call'[th] = call[th]
    BY <2>1, <2>2 DEF TypeOK
  <2> QED
    BY <2>3
<1> QED
  BY <1>1, <1>2, <1>3, <1>4, <1>5, StepCases

\* When acquireLock returns true after a wait, grantLock has just granted the
\* very request it waited with.
LEMMA TrueStep ==
  ASSUME TypeOK, QueueCoversCalls, [Next]_lockVars,
         NEW th \in Threads, Waiting(th), ~Waiting(th)', ok'[th]
  PROVE  /\ call[th].key \in txnLocks'[call[th].txn]
         /\ \E r \in granted'[call[th].key] :
              r.txn = call[th].txn /\ (r.type = "EXCLUSIVE" \/ call[th].type = "SHARED")
<1> DEFINE t == call[th].txn
<1> DEFINE k == call[th].key
<1> DEFINE type == call[th].type
<1>1. call'[th] # call[th]
  BY DEF Waiting
<1>2. ~ResumeCancelled(th)
  BY DEF ResumeCancelled, Return, TypeOK
<1>3. ResumeGrant(th)
  BY <1>1, <1>2, CallStep
<1>4. t \in Txns /\ k \in Keys /\ type \in LockType
  BY WaitingCall
<1>5. /\ granted' = [granted EXCEPT ![k] = @ \cup {Req(t, type)}]
      /\ txnLocks' = [txnLocks EXCEPT ![t] = @ \cup {k}]
  BY <1>3, GrantFindsRequest DEF ResumeGrant, GrantLock
<1> HIDE DEF t, k, type
<1>6. k \in txnLocks'[t] /\ Req(t, type) \in granted'[k]
  BY <1>4, <1>5 DEF TypeOK
<1>7. Req(t, type).txn = t /\ (Req(t, type).type = "EXCLUSIVE" \/ type = "SHARED")
  BY <1>4 DEF Req, LockType
<1> QED
  BY <1>6, <1>7 DEF t, k, type

\* acquireLock tells the truth: a call that waited and returns true has given
\* its transaction the lock (lockmgr.cpp:110-122).
THEOREM TrueIsHeld == Spec => TrueMeansHeld
<1>1. ASSUME TypeOK, QueueCoversCalls, [Next]_lockVars
      PROVE  [\A th \in Threads :
                (Waiting(th) /\ ~Waiting(th)' /\ ok'[th])
                  => /\ call[th].key \in txnLocks'[call[th].txn]
                     /\ \E r \in granted'[call[th].key] :
                          r.txn = call[th].txn
                          /\ (r.type = "EXCLUSIVE" \/ call[th].type = "SHARED")]_lockVars
  BY <1>1, TrueStep
<1> QED
  BY <1>1, TypeCorrect, CallsHaveRequests, PTL DEF Spec, TrueMeansHeld

\* A thread calls acquireLock for transactions it serves only.
CallsServed == \A th \in Threads : Waiting(th) => call[th].txn \in Serves[th]

\* Only acquireLock starts a wait, and a thread calls it for what it serves.
LEMMA ServedStep ==
  ASSUME TypeOK, CallsServed, [Next]_lockVars
  PROVE  CallsServed'
<1> SUFFICES ASSUME NEW th \in Threads, Waiting(th)' PROVE call'[th].txn \in Serves[th]
  BY DEF CallsServed
<1>1. CASE call'[th] = call[th]
  BY <1>1 DEF CallsServed, Waiting
<1>2. CASE call'[th] # call[th]
  <2>1. PICK t \in Serves[th], k \in Keys, type \in LockType : AcquireWait(th, t, k, type)
    BY <1>2 DEF Next, lockVars, tableVars, AcquireLock, AcquireHeld, AcquireDeadlock, AcquireGrant,
                AcquireWait, Resume, ResumeCancelled, ResumeWait, ResumeGrant, Return, Waiting,
                SpuriousWakeup, ReleaseLock, ReleaseAllLocks, TypeOK
  <2> QED
    BY <2>1 DEF AcquireWait, TypeOK
<1> QED
  BY <1>1, <1>2

\* A transaction that one thread works for alone, the use that every caller in
\* the repository makes of the lock manager, is never refused a lock by the
\* check for deadlock: its deadlocks go unreported (lockmgr.cpp:103-109).
THEOREM CheckNeverFires == Spec => []OwnersNeverRefused
<1>1. ASSUME WaitsHaveCalls, CallsServed PROVE OwnersNeverRefused
  <2> SUFFICES ASSUME NEW th \in Threads, ~Waiting(th), NEW t \in Owned(th)
               PROVE  ~HasDeadlock(t)
    BY DEF OwnersNeverRefused
  <2>1. t \in Txns
    BY LockManagerAssumption DEF Owned
  <2>2. \A u \in Threads : Waiting(u) => call[u].txn # t
    BY <1>1 DEF CallsServed, Owned
  <2>3. txnWaits[t] = {}
    BY <1>1, <2>1, <2>2 DEF WaitsHaveCalls
  <2> QED
    BY <2>1, <2>3, NoWaitNoDeadlock
<1>2. Init => CallsServed
  BY DEF Init, CallsServed, Waiting
<1> QED
  BY <1>1, <1>2, ServedStep, TypeCorrect, WaitsAreReal, PTL DEF Spec

------------------------------------------------------------------------------
(* What a release and a cancelled call leave behind *)

\* A transaction that loses a granted request is the one that the step releases: all
\* other steps leave granted requests where they are, and a release of another
\* transaction erases only its own (lockmgr.cpp:50-66, 133-151).
THEOREM ReleasesAreOwn == Spec => OnlyOwnLocksReleased
<1>1. ASSUME TypeOK, [Next]_lockVars, NEW t \in Txns, NEW k \in Keys, Loses(t, k)
      PROVE  \E th \in Threads : ReleaseLock(th, t, k) \/ ReleaseAllLocks(th, t)
  <2>1. ~UNCHANGED <<granted, txnLocks>>
    BY <1>1 DEF Loses
  <2>2. ASSUME NEW v \in Txns, NEW l \in Keys, NEW type \in LockType, Granting(v, l, type)
        PROVE  FALSE
    BY <1>1, <2>2 DEF Loses, Granting, TypeOK
  <2>3. \E th \in Threads :
          \/ \E v \in Txns, l \in Keys : ReleaseLock(th, v, l)
          \/ \E v \in Txns : ReleaseAllLocks(th, v)
    BY <1>1, <2>1, <2>2, ChangeCases
  <2>4. ASSUME NEW th \in Threads, NEW v \in Txns, NEW l \in Keys, ReleaseLock(th, v, l)
        PROVE  v = t /\ l = k
    BY <1>1, <2>4 DEF Loses, ReleaseLock, Without, TypeOK
  <2>5. ASSUME NEW th \in Threads, NEW v \in Txns, ReleaseAllLocks(th, v)
        PROVE  v = t
    BY <1>1, <2>5 DEF Loses, ReleaseAllLocks, Without, TypeOK
  <2> QED
    BY <2>3, <2>4, <2>5
<1>2. ASSUME TypeOK, [Next]_lockVars
      PROVE  [\A t \in Txns, k \in Keys : Loses(t, k) =>
                \E th \in Threads : ReleaseLock(th, t, k) \/ ReleaseAllLocks(th, t)]_lockVars
  BY <1>1, <1>2
<1> QED
  BY <1>2, TypeCorrect, PTL DEF Spec, OnlyOwnLocksReleased

\* Only a new call for the same transaction and key takes back that a waiting
\* call was cancelled, and that takes a second thread (lockmgr.cpp:108-116).
LEMMA StaysCancelled ==
  ASSUME TypeOK, [Next]_lockVars, NEW th \in Threads,
         Waiting(th), Cancelled(th), call[th].txn \in Owned(th)
  PROVE  call[th].key \notin txnWaits'[call[th].txn]
<1> DEFINE t == call[th].txn
<1> DEFINE k == call[th].key
<1> DEFINE Goal == k \notin txnWaits'[t]
<1>t. t \in Txns /\ k \in Keys /\ k \notin txnWaits[t] /\ txnWaits \in [Txns -> SUBSET Keys]
  BY WaitingCall DEF Cancelled, TypeOK
<1>o. t \in Owned(th)
  OBVIOUS
<1> HIDE DEF t, k
<1>1. ASSUME UNCHANGED lockVars PROVE Goal
  BY <1>1, <1>t DEF lockVars
<1>2. ASSUME NEW u \in Threads, NEW v \in Txns, NEW l \in Keys, NEW type \in LockType,
             v \in Serves[u], AcquireLock(u, v, l, type)
      PROVE  Goal
  <2>1. CASE AcquireHeld(u, v, l, type) \/ AcquireDeadlock(u, v, l, type)
    BY <2>1, <1>t DEF AcquireHeld, AcquireDeadlock, tableVars
  <2>2. CASE AcquireGrant(u, v, l, type)
    <3>1. GrantLock(v, l, type, Enqueued(v, l, type), Registered(v, l))
      BY <2>2 DEF AcquireGrant
    <3>2. txnWaits' = [Registered(v, l) EXCEPT ![v] = @ \ {l}]
      BY <3>1, EnqueuedType DEF GrantLock
    <3> QED
      BY <3>2, <1>t DEF Registered
  <2>3. CASE AcquireWait(u, v, l, type)
    <3>1. ~Waiting(u) /\ txnWaits' = [txnWaits EXCEPT ![v] = @ \cup {l}]
      BY <2>3 DEF AcquireWait, Registered
    <3>2. v # t
      BY <3>1, <1>2, <1>o DEF Owned
    <3> QED
      BY <3>1, <3>2, <1>t
  <2> QED
    BY <1>2, <2>1, <2>2, <2>3 DEF AcquireLock
<1>3. ASSUME NEW u \in Threads, Resume(u) PROVE Goal
  <2>1. CASE ResumeCancelled(u) \/ ResumeWait(u)
    BY <2>1, <1>t DEF ResumeCancelled, ResumeWait, tableVars
  <2>2. CASE ResumeGrant(u)
    <3>1. \/ txnWaits' = txnWaits
          \/ txnWaits' = [txnWaits EXCEPT ![call[u].txn] = @ \ {call[u].key}]
      BY <2>2 DEF ResumeGrant, GrantLock
    <3> QED
      BY <3>1, <1>t
  <2> QED
    BY <1>3, <2>1, <2>2 DEF Resume
<1>4. ASSUME NEW u \in Threads, SpuriousWakeup(u) PROVE Goal
  BY <1>4, <1>t DEF SpuriousWakeup, tableVars
<1>5. ASSUME NEW u \in Threads, NEW v \in Txns, NEW l \in Keys, ReleaseLock(u, v, l) PROVE Goal
  BY <1>5, <1>t DEF ReleaseLock
<1>6. ASSUME NEW u \in Threads, NEW v \in Txns, ReleaseAllLocks(u, v) PROVE Goal
  BY <1>6, <1>t DEF ReleaseAllLocks
<1>7. Goal
  BY <1>1, <1>2, <1>3, <1>4, <1>5, <1>6, LockManagerAssumption DEF Next
<1> QED
  BY <1>7 DEF t, k

\* A call whose transaction was released under it can only fail, if no other
\* thread works for that transaction (lockmgr.cpp:113-116, 147).
THEOREM CancelledFails == Spec => CancelledCallFails
<1>1. ASSUME TypeOK, [Next]_lockVars, NEW th \in Threads,
             Waiting(th), Cancelled(th), call[th].txn \in Owned(th)
      PROVE  (Waiting(th)' /\ Cancelled(th)') \/ (~Waiting(th)' /\ ~ok'[th])
  <2>1. CASE call'[th] = call[th]
    BY <1>1, <2>1, StaysCancelled DEF Waiting, Cancelled
  <2>2. CASE ResumeCancelled(th)
    BY <1>1, <2>2 DEF ResumeCancelled, Return, Waiting, TypeOK
  <2>3. ~ResumeGrant(th)
    BY <1>1 DEF ResumeGrant
  <2> QED
    BY <1>1, <2>1, <2>2, <2>3, CallStep
<1>2. ASSUME TypeOK, [Next]_lockVars
      PROVE  [\A th \in Threads :
                (Waiting(th) /\ Cancelled(th) /\ call[th].txn \in Owned(th))
                  => (Waiting(th)' /\ Cancelled(th)') \/ (~Waiting(th)' /\ ~ok'[th])]_lockVars
  BY <1>1, <1>2
<1> QED
  BY <1>2, TypeCorrect, PTL DEF Spec, CancelledCallFails
================================================================================
