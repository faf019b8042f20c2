------------------------------ MODULE LockManager ------------------------------
(****************************************************************************)
(* The lock manager (src/src/lockmgr.cpp).  Every public function runs      *)
(* under lockMutex, so each is one atomic step, except acquireLock, which   *)
(* gives the mutex up inside lockCondition.wait: its call is one step up to *)
(* the wait (or the return) and one step for every time it wakes.           *)
(*                                                                          *)
(* lockTable[key] is a vector of requests.  Its readers ask only whether    *)
(* some granted request of a kind is there (canGrantLock, hasCycle, the     *)
(* upgrade loop) and its granted requests are removed all at once per       *)
(* transaction, so the granted part is a set; waiting requests are taken    *)
(* one at a time, so the other part is a bag.  A map entry that is absent   *)
(* and one that is empty are told apart nowhere and are the same here.      *)
(****************************************************************************)
EXTENDS Naturals, FiniteSets

CONSTANTS
  Threads,    \* client threads that call the lock manager
  Txns,       \* transaction ids
  Keys,
  Serves,     \* Serves[th]: transactions that thread th acquires locks for
  NoCall,     \* the call of a thread that is not inside acquireLock
  MaxQueued   \* bound: equal requests that may be queued on one key

LockType == {"SHARED", "EXCLUSIVE"}
Requests == [txn : Txns, type : LockType]
Calls    == [txn : Txns, key : Keys, type : LockType]

ASSUME LockManagerAssumption ==
  /\ IsFiniteSet(Threads)
  /\ Serves \in [Threads -> SUBSET Txns]
  /\ NoCall \notin Calls
  /\ MaxQueued \in Nat \ {0}

VARIABLES
  granted,    \* granted[k]: the granted requests of lockTable[k]
  queued,     \* queued[k][r]: how many requests r wait in lockTable[k]
  txnLocks,   \* txnLocks[t]: keys t has a granted request on
  txnWaits,   \* txnWaits[t]: keys t is waiting for
  call,       \* call[th]: the acquireLock call thread th waits in, or NoCall
  asleep,     \* threads blocked in lockCondition.wait
  ok          \* ok[th]: what the last lock manager call of th returned

tableVars == <<granted, queued, txnLocks, txnWaits>>
lockVars  == <<granted, queued, txnLocks, txnWaits, call, asleep, ok>>

Waiting(th) == call[th] # NoCall

------------------------------------------------------------------------------
(* Private helpers *)

Req(t, type) == [txn |-> t, type |-> type]

\* Some granted request of t makes a further one of this type unnecessary.  The
\* loop in the code stops at the first granted request of t; which one that is
\* does not matter, since an EXCLUSIVE one is alone on its key (Exclusion).
Held(t, k, type) ==
  /\ k \in txnLocks[t]
  /\ \E r \in granted[k] : r.txn = t /\ (r.type = "EXCLUSIVE" \/ type = "SHARED")

\* Mutant: a reader is let in beside a writer.
CanGrantLock_Reader(k, type) == \A r \in granted[k] : type = "SHARED"

CanGrantLock(k, type) ==
  \A r \in granted[k] : r.type = "SHARED" /\ type = "SHARED"

\* An edge of the graph that hasCycle walks: a waits for a lock that b holds.
WaitsFor(a, b) ==
  a # b /\ \E k \in txnWaits[a] : \E r \in granted[k] : r.txn = b

\* Every member of S waits for a member of S.
Cyclic(S) == S # {} /\ \A a \in S : \E b \in S : WaitsFor(a, b)

\* The depth-first search from t finds a cycle: there is one in every set of
\* transactions that has t and is closed under WaitsFor.
HasDeadlock(t) ==
  \A C \in SUBSET Txns :
    (t \in C /\ \A a \in C, b \in Txns : WaitsFor(a, b) => b \in C)
      => \E S \in SUBSET C : Cyclic(S)

\* Mutant: the granted transaction stays registered as waiting.
GrantLock_KeepsWait(t, k, type, q, w) ==
  IF q[k][Req(t, type)] > 0
  THEN /\ queued'   = [q EXCEPT ![k][Req(t, type)] = @ - 1]
       /\ granted'  = [granted EXCEPT ![k] = @ \cup {Req(t, type)}]
       /\ txnLocks' = [txnLocks EXCEPT ![t] = @ \cup {k}]
       /\ txnWaits' = w
  ELSE /\ queued' = q /\ txnWaits' = w
       /\ UNCHANGED <<granted, txnLocks>>

\* Turn one waiting request (q and w are queued and txnWaits as the caller
\* left them) into a granted one, if there is one.
GrantLock(t, k, type, q, w) ==
  IF q[k][Req(t, type)] > 0
  THEN /\ queued'   = [q EXCEPT ![k][Req(t, type)] = @ - 1]
       /\ granted'  = [granted EXCEPT ![k] = @ \cup {Req(t, type)}]
       /\ txnLocks' = [txnLocks EXCEPT ![t] = @ \cup {k}]
       /\ txnWaits' = [w EXCEPT ![t] = @ \ {k}]
  ELSE /\ queued' = q /\ txnWaits' = w
       /\ UNCHANGED <<granted, txnLocks>>

Return(th, result) ==
  /\ ok' = [ok EXCEPT ![th] = result]
  /\ call' = [call EXCEPT ![th] = NoCall]

\* Mutant: notify_all is forgotten.
NotifyAll_Forgotten == UNCHANGED asleep

NotifyAll == asleep' = {}

------------------------------------------------------------------------------
(* acquireLock, up to its return or its wait *)

AcquireHeld(th, t, k, type) ==
  /\ ~Waiting(th)
  /\ Held(t, k, type)
  /\ Return(th, TRUE)
  /\ UNCHANGED <<tableVars, asleep>>

\* Mutant: the refused request is taken back, although it was not added yet.
AcquireDeadlock_Dequeues(th, t, k, type) ==
  /\ ~Waiting(th)
  /\ ~Held(t, k, type)
  /\ HasDeadlock(t)
  /\ queued' = [queued EXCEPT ![k][Req(t, type)] = @ - 1]
  /\ Return(th, FALSE)
  /\ UNCHANGED <<granted, txnLocks, txnWaits, asleep>>

AcquireDeadlock(th, t, k, type) ==
  /\ ~Waiting(th)
  /\ ~Held(t, k, type)
  /\ HasDeadlock(t)
  /\ Return(th, FALSE)
  /\ UNCHANGED <<tableVars, asleep>>

\* Mutant: a request that is already there is not added again.
Enqueued_Once(t, k, type) == [queued EXCEPT ![k][Req(t, type)] = 1]

\* lockTable[key].emplace_back and txnWaits[txnId].insert
Enqueued(t, k, type) == [queued EXCEPT ![k][Req(t, type)] = @ + 1]
Registered(t, k)     == [txnWaits EXCEPT ![t] = @ \cup {k}]

AcquireGrant(th, t, k, type) ==
  /\ ~Waiting(th)
  /\ ~Held(t, k, type)
  /\ ~HasDeadlock(t)
  /\ CanGrantLock(k, type)
  /\ GrantLock(t, k, type, Enqueued(t, k, type), Registered(t, k))
  /\ Return(th, TRUE)
  /\ NotifyAll

AcquireWait(th, t, k, type) ==
  /\ ~Waiting(th)
  /\ ~Held(t, k, type)
  /\ ~HasDeadlock(t)
  /\ ~CanGrantLock(k, type)
  /\ queued[k][Req(t, type)] < MaxQueued
  /\ queued' = Enqueued(t, k, type)
  /\ txnWaits' = Registered(t, k)
  /\ call' = [call EXCEPT ![th] = [txn |-> t, key |-> k, type |-> type]]
  /\ asleep' = asleep \cup {th}
  /\ UNCHANGED <<granted, txnLocks, ok>>

AcquireLock(th, t, k, type) ==
  \/ AcquireHeld(th, t, k, type)
  \/ AcquireDeadlock(th, t, k, type)
  \/ AcquireGrant(th, t, k, type)
  \/ AcquireWait(th, t, k, type)

------------------------------------------------------------------------------
(* acquireLock, from a return of lockCondition.wait on *)

Awake(th) == Waiting(th) /\ th \notin asleep

Cancelled(th) == call[th].key \notin txnWaits[call[th].txn]

ResumeCancelled(th) ==
  /\ Awake(th)
  /\ Cancelled(th)
  /\ Return(th, FALSE)
  /\ UNCHANGED <<tableVars, asleep>>

ResumeWait(th) ==
  /\ Awake(th)
  /\ ~Cancelled(th)
  /\ ~CanGrantLock(call[th].key, call[th].type)
  /\ asleep' = asleep \cup {th}
  /\ UNCHANGED <<tableVars, call, ok>>

\* Mutant: the loop ends before the test for a cancelled call.
ResumeGrant_Unchecked(th) ==
  /\ Awake(th)
  /\ CanGrantLock(call[th].key, call[th].type)
  /\ GrantLock(call[th].txn, call[th].key, call[th].type, queued, txnWaits)
  /\ Return(th, TRUE)
  /\ NotifyAll

ResumeGrant(th) ==
  /\ Awake(th)
  /\ ~Cancelled(th)
  /\ CanGrantLock(call[th].key, call[th].type)
  /\ GrantLock(call[th].txn, call[th].key, call[th].type, queued, txnWaits)
  /\ Return(th, TRUE)
  /\ NotifyAll

Resume(th) == ResumeCancelled(th) \/ ResumeWait(th) \/ ResumeGrant(th)

\* A condition variable may return from wait without a notification.
SpuriousWakeup(th) ==
  /\ th \in asleep
  /\ asleep' = asleep \ {th}
  /\ UNCHANGED <<tableVars, call, ok>>

------------------------------------------------------------------------------
(* The two release functions, called by any thread *)

\* Mutants: all granted requests of the key are erased; only the shared ones.
Without_Any(t, k) == {}
Without_Shared(t, k) == {r \in granted[k] : r.txn # t \/ r.type = "EXCLUSIVE"}

Without(t, k) == {r \in granted[k] : r.txn # t}

\* The private releaseLock returns early when the key has no entry.
HasEntry(k) == granted[k] # {} \/ \E r \in Requests : queued[k][r] > 0

ReleaseLock(th, t, k) ==
  /\ ~Waiting(th)
  /\ granted' = [granted EXCEPT ![k] = Without(t, k)]
  /\ txnLocks' = [txnLocks EXCEPT ![t] = IF HasEntry(k) THEN @ \ {k} ELSE @]
  /\ Return(th, TRUE)
  /\ NotifyAll
  /\ UNCHANGED <<queued, txnWaits>>

ReleaseAllLocks(th, t) ==
  /\ ~Waiting(th)
  /\ granted' = [k \in Keys |-> IF k \in txnLocks[t] THEN Without(t, k) ELSE granted[k]]
  /\ txnLocks' = [txnLocks EXCEPT ![t] = {}]
  /\ txnWaits' = [txnWaits EXCEPT ![t] = {}]
  /\ Return(th, TRUE)
  /\ NotifyAll
  /\ UNCHANGED queued

------------------------------------------------------------------------------
Init ==
  /\ granted  = [k \in Keys |-> {}]
  /\ queued   = [k \in Keys |-> [r \in Requests |-> 0]]
  /\ txnLocks = [t \in Txns |-> {}]
  /\ txnWaits = [t \in Txns |-> {}]
  /\ call     = [th \in Threads |-> NoCall]
  /\ asleep   = {}
  /\ ok       = [th \in Threads |-> TRUE]

Next ==
  \E th \in Threads :
    \/ \E t \in Serves[th], k \in Keys, type \in LockType : AcquireLock(th, t, k, type)
    \/ Resume(th)
    \/ SpuriousWakeup(th)
    \/ \E t \in Txns, k \in Keys : ReleaseLock(th, t, k)
    \/ \E t \in Txns : ReleaseAllLocks(th, t)

Spec == Init /\ [][Next]_lockVars

------------------------------------------------------------------------------
(* Correctness *)

\* Every variable has its type.
TypeOK ==
  /\ granted  \in [Keys -> SUBSET Requests]
  /\ queued   \in [Keys -> [Requests -> Nat]]
  /\ txnLocks \in [Txns -> SUBSET Keys]
  /\ txnWaits \in [Txns -> SUBSET Keys]
  /\ call     \in [Threads -> Calls \cup {NoCall}]
  /\ asleep   \in SUBSET {th \in Threads : Waiting(th)}
  /\ ok       \in [Threads -> BOOLEAN]

\* A granted EXCLUSIVE request is the only granted request on its key: no
\* interleaving of grants, wake-ups and releases lets canGrantLock be passed
\* twice (lockmgr.cpp:110-118).
Exclusion ==
  \A k \in Keys : \A r, s \in granted[k] : r.type = "EXCLUSIVE" => s = r

\* txnLocks, the index that releaseAllLocks walks, names exactly the keys the
\* transaction has granted requests on: a lock missing from it would never be
\* released (lockmgr.cpp:137-145).
IndexAgrees ==
  \A t \in Txns, k \in Keys : k \in txnLocks[t] <=> \E r \in granted[k] : r.txn = t

\* A thread sleeps on the condition variable only while there is a reason to:
\* its lock cannot be granted and its call was not cancelled.  Every change
\* that ends the reason notifies it (lockmgr.cpp:110-119, 128, 148).
NoLostWakeup ==
  \A th \in asleep : ~Cancelled(th) /\ ~CanGrantLock(call[th].key, call[th].type)

\* The wait graph has no edge without a cause: a transaction is registered as
\* waiting for a key only while one of its calls waits for that key
\* (lockmgr.cpp:45, 109, 147).
WaitsHaveCalls ==
  \A t \in Txns : \A k \in txnWaits[t] :
    \E th \in Threads : Waiting(th) /\ call[th].txn = t /\ call[th].key = k

\* Every waiting call still has a request of its own to be granted, so
\* grantLock never misses and acquireLock never returns true without the lock
\* (lockmgr.cpp:38-48, 118).
Callers(k, r) ==
  {th \in Threads : call[th] = [txn |-> r.txn, key |-> k, type |-> r.type]}

QueueCoversCalls ==
  \A k \in Keys : \A r \in Requests : Cardinality(Callers(k, r)) <= queued[k][r]

\* The check for deadlock gives no false alarm: a transaction that is reported
\* has another call that is already waiting (lockmgr.cpp:103, 152-187).
NoFalseAlarm ==
  \A t \in Txns :
    HasDeadlock(t) => \E th \in Threads : Waiting(th) /\ call[th].txn = t

\* Transactions that no other thread works for.
Owned(th) == {t \in Serves[th] : \A u \in Threads : t \in Serves[u] => u = th}

\* A transaction with a thread of its own is never refused a lock: when its
\* thread asks, no wait of the transaction is registered, so the check for
\* deadlock has no edge to start from (lockmgr.cpp:103-109).
OwnersNeverRefused ==
  \A th \in Threads : ~Waiting(th) => \A t \in Owned(th) : ~HasDeadlock(t)

\* A call that waited and returns true leaves its transaction with the lock in
\* the mode it asked for, whatever happened while it waited
\* (lockmgr.cpp:110-122).
TrueMeansHeld ==
  [][\A th \in Threads :
       (Waiting(th) /\ ~Waiting(th)' /\ ok'[th])
         => /\ call[th].key \in txnLocks'[call[th].txn]
            /\ \E r \in granted'[call[th].key] :
                 r.txn = call[th].txn /\ (r.type = "EXCLUSIVE" \/ call[th].type = "SHARED")]_lockVars

\* A transaction loses a lock only to a release of its own: no release of another,
\* no grant and no cancelled call takes a granted request away, of whatever mode
\* and also when the two share the key (lockmgr.cpp:50-66, 133-151).
Loses(t, k) == \E r \in granted[k] : r.txn = t /\ r \notin granted'[k]

OnlyOwnLocksReleased ==
  [][\A t \in Txns, k \in Keys : Loses(t, k) =>
       \E th \in Threads : ReleaseLock(th, t, k) \/ ReleaseAllLocks(th, t)]_lockVars

\* Once every lock of the transaction was released under a waiting call, the
\* call fails: no later release grants it (lockmgr.cpp:113-116, 147).  That
\* needs a transaction with one thread: with two, the other's new wait for the
\* key registers the transaction again.
CancelledCallFails ==
  [][\A th \in Threads :
       (Waiting(th) /\ Cancelled(th) /\ call[th].txn \in Owned(th))
         => (Waiting(th)' /\ Cancelled(th)') \/ (~Waiting(th)' /\ ~ok'[th])]_lockVars

\* The lock manager implements the readers-writer locks of RWLocks.
ModeOf(t, k) ==
  IF Req(t, "EXCLUSIVE") \in granted[k] THEN "EXCLUSIVE"
  ELSE IF Req(t, "SHARED") \in granted[k] THEN "SHARED"
  ELSE "NONE"

RW == INSTANCE RWLocks WITH mode <- [k \in Keys |-> [t \in Txns |-> ModeOf(t, k)]]

RWSpec == RW!Spec

\* No transactions wait for each other in a cycle: acquireLock returns false
\* on deadlock instead of waiting (API.md:210, TUTORIAL.md:123).
NoWaitCycle == \A S \in SUBSET Txns : ~Cyclic(S)

================================================================================
