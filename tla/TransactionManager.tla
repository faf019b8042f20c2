--------------------------- MODULE TransactionManager ---------------------------
(****************************************************************************)
(* The transaction manager (src/src/transaction.cpp) on top of the lock     *)
(* manager, with the parts of the write-ahead log (wal.cpp) and of the      *)
(* storage manager (storage.cpp) it calls, threads that run its operations  *)
(* concurrently, failing I/O, crashes, shutdown and restart.                *)
(*                                                                          *)
(* One step of a thread is what it does without letting go of a mutex: a    *)
(* whole operation under txnMutex, or one call into the lock manager, the   *)
(* log or the storage.  The log has no mutex of its own: putRecord writes   *)
(* to it outside txnMutex, so its write has a start and an end, and a write *)
(* that overlaps another is a data race whose entry may be spoilt.          *)
(*                                                                          *)
(* Calls for a transaction that is not active, and those whose COMMIT or    *)
(* ABORT entry cannot be written, return false and change nothing: they     *)
(* are not actions.                                                         *)
(*                                                                          *)
(* A value is known by the transaction that wrote it.  Transaction ids      *)
(* start again from 1 with every run of the program, so a transaction is    *)
(* named by <<run, id>> wherever something outlives the run.                *)
(****************************************************************************)
EXTENDS LockManager, Sequences

CONSTANTS
  Ops,          \* what the clients and the environment of an instance do
  Sharing,      \* may a thread use the transactions of other threads?
  NoThread, NoOp, NoKey,
  Stored,       \* keys that the database file has at first
  MaxLog,       \* bound: entries in the log
  MaxFailures,  \* bound: I/O failures
  MaxRun        \* bound: runs of the program

\* "resize": clients put values of several lengths; "leave": they may leave a
\* transaction open; "fail", "full": a write may fail, the pages may be full.
AllOps == {"put", "resize", "get", "delete", "abort", "leave", "fail", "full", "crash", "close"}

INVALID_TXN_ID == 0

\* What a thread can be in the middle of.
Operations ==
       [kind : {"put", "get", "delete"}, txn : Txns, key : Keys]
  \cup [kind : {"commit"}, txn : Txns, key : {NoKey}]

ASSUME TransactionManagerAssumption ==
  /\ Txns \subseteq Nat \ {INVALID_TXN_ID}
  /\ Ops \subseteq AllOps
  /\ "full" \in Ops => \E th \in Threads : Threads = {th}
  /\ Sharing \in BOOLEAN
  /\ Serves = [th \in Threads |-> Txns]     \* Ops and Sharing decide instead
  /\ NoThread \notin Threads /\ NoOp \notin Operations
  /\ Stored \subseteq Keys
  /\ MaxLog \in Nat /\ MaxFailures \in Nat /\ MaxRun \in Nat \ {0}

VARIABLES
  activeTxns, readSet, writeSet, nextTxnId,
  txnMutex,     \* the thread that holds txnMutex between two steps, or NoThread
  wal,          \* the log's entries, those still in the stream's buffer included
  synced,       \* how many of them are in the file
  logging,      \* threads inside wal->logPutRecord
  raced,        \* those of them whose write overlapped another
  cache,        \* the last change made to each key, in the cached pages
  dirty,        \* keys whose page isDirty
  disk,         \* the last change to each key that is in the database file
  astray,       \* keys of which the storage may find something else than that: see Put
  pc, op, mine, \* what each thread does, and the last transaction it began
  run, failures,
  committed, aborted,       \* whose commit, whose abort returned true
  readers, writers, order   \* who accessed a key, and before whom

txnVars    == <<activeTxns, readSet, writeSet, nextTxnId, txnMutex>>
walVars    == <<wal, synced, logging, raced>>
storeVars  == <<cache, dirty, disk, astray>>
threadVars == <<pc, op, mine>>
ended      == <<committed, aborted>>
accesses   == <<readers, writers, order>>

vars == <<lockVars, txnVars, walVars, storeVars, threadVars,
          run, failures, ended, accesses>>

Stamp(t) == <<run, t>>
NoStamp  == <<0, 0>>

------------------------------------------------------------------------------
(* The log *)

Entry(type, t, k, intact) == [type |-> type, by |-> Stamp(t), key |-> k, intact |-> intact]

\* writeLogEntry by a thread that holds txnMutex.  It races with the puts that
\* are inside their own write.
WriteLogEntry(type, t, k) ==
  /\ Len(wal) < MaxLog
  /\ \E intact \in IF logging = {} THEN {TRUE} ELSE BOOLEAN :
       wal' = Append(wal, Entry(type, t, k, intact))
  /\ raced' = raced \cup logging
  /\ UNCHANGED logging

\* Mutant: the flush after the COMMIT entry is left out.
Flush_Skipped == UNCHANGED synced

\* flush: what is in the stream's buffer reaches the file.
Flush == synced' = Len(wal')

\* The stream reports a failure and the caller gives up.
Failure ==
  /\ "fail" \in Ops
  /\ failures < MaxFailures
  /\ failures' = failures + 1

------------------------------------------------------------------------------
(* The storage, as the transaction manager sees it *)

\* A page is in order until a record on it is deleted, or put again with a value of
\* another length.  From then on the walks through it may miss a record or take other
\* bytes for one, so that k itself and any other key on the page may go astray.
GoesAstray(k) == \E S \in SUBSET Keys : k \in S /\ astray' = astray \cup S

\* storage->putRecord: a value of the same length, or a new key on a page that is in
\* order, disturbs no other; a new key may also go to a page that is not.
Put(t, k) ==
  /\ cache' = [cache EXCEPT ![k] = [by |-> Stamp(t), present |-> TRUE]]
  /\ \/ UNCHANGED astray
     \/ ((cache[k].present /\ "resize" \in Ops) \/ astray # {}) /\ GoesAstray(k)

\* storage->deleteRecord, where it found a record.
Delete(t, k) ==
  /\ cache' = [cache EXCEPT ![k] = [by |-> Stamp(t), present |-> FALSE]]
  /\ GoesAstray(k)

\* May storage->getRecord or deleteRecord find a record of k, may it find none?
Found(k) == IF k \in astray THEN BOOLEAN ELSE {cache[k].present}

\* Mutant: a page is marked clean and not written.
Flushed_Nothing(S) == disk

\* The file after flushAll wrote the pages of the keys in S.
Flushed(S) == [k \in Keys |-> IF k \in S THEN cache[k] ELSE disk[k]]

\* Who read or wrote a key comes after those whose access conflicts with it.
NoteRead(t, k) ==
  /\ readers' = [readers EXCEPT ![k] = @ \cup {t}]
  /\ order' = order \cup {<<u, t>> : u \in writers[k] \ {t}}
  /\ UNCHANGED writers

NoteWrite(t, k) ==
  /\ writers' = [writers EXCEPT ![k] = @ \cup {t}]
  /\ order' = order \cup {<<u, t>> : u \in (readers[k] \cup writers[k]) \ {t}}
  /\ UNCHANGED readers

------------------------------------------------------------------------------
(* Threads *)

MutexFree == txnMutex = NoThread

May(th, t) == IF Sharing THEN t \in Txns ELSE t = mine[th]

Goto(th, label) == pc' = [pc EXCEPT ![th] = label] /\ UNCHANGED <<op, mine>>

\* Mutant: the thread does not forget its operation.
Finish_KeepsOp(th) == Goto(th, "idle")

Finish(th) ==
  /\ pc' = [pc EXCEPT ![th] = "idle"]
  /\ op' = [op EXCEPT ![th] = NoOp]
  /\ UNCHANGED mine

\* Mutant: every operation takes a lock to read.
Lock_Shared(kind) == "SHARED"

Lock(kind) == IF kind = "get" THEN "SHARED" ELSE "EXCLUSIVE"

\* beginTransaction.  A transaction whose BEGIN entry cannot be written stays
\* in activeTxns, and the caller gets INVALID_TXN_ID.
Begin(th) ==
  /\ pc[th] = "idle" /\ MutexFree
  /\ nextTxnId \in Txns
  /\ nextTxnId' = nextTxnId + 1
  /\ activeTxns' = activeTxns \cup {nextTxnId}
  /\ readSet' = [readSet EXCEPT ![nextTxnId] = {}]
  /\ writeSet' = [writeSet EXCEPT ![nextTxnId] = {}]
  /\ \/ /\ WriteLogEntry("BEGIN_TXN", nextTxnId, NoKey)
        /\ mine' = [mine EXCEPT ![th] = nextTxnId]
        /\ UNCHANGED failures
     \/ /\ Failure
        /\ mine' = [mine EXCEPT ![th] = INVALID_TXN_ID]
        /\ UNCHANGED <<wal, logging, raced>>
  /\ UNCHANGED <<lockVars, txnMutex, synced, storeVars, pc, op, run, ended, accesses>>

\* putRecord, getRecord and deleteRecord start alike: the transaction must be
\* active, which is looked up under txnMutex ...
Start(th, kind, t, k) ==
  /\ kind \in Ops
  /\ pc[th] = "idle" /\ MutexFree /\ May(th, t)
  /\ t \in activeTxns
  /\ op' = [op EXCEPT ![th] = [kind |-> kind, txn |-> t, key |-> k]]
  /\ pc' = [pc EXCEPT ![th] = "acquire"]
  /\ UNCHANGED <<lockVars, txnVars, walVars, storeVars, mine, run, failures, ended, accesses>>

\* Mutant: acquireLocks is called with txnMutex in hand, as it was before
\* "fix bug #10" (transaction.cpp:208).
Acquire_UnderMutex(th) ==
  /\ pc[th] = "acquire" /\ MutexFree
  /\ AcquireLock(th, op[th].txn, op[th].key, Lock(op[th].kind))
  /\ txnMutex' = IF Waiting(th)' THEN th ELSE NoThread
  /\ Goto(th, "acquired")
  /\ UNCHANGED <<activeTxns, readSet, writeSet, nextTxnId, walVars, storeVars, run, failures,
                 ended, accesses>>

\* ... and then, without txnMutex, acquireLocks is called ...
Acquire(th) ==
  /\ pc[th] = "acquire"
  /\ AcquireLock(th, op[th].txn, op[th].key, Lock(op[th].kind))
  /\ Goto(th, "acquired")
  /\ UNCHANGED <<txnVars, walVars, storeVars, run, failures, ended, accesses>>

\* ... which may wait, and be woken in vain.
Wake(th) ==
  /\ Resume(th) \/ SpuriousWakeup(th)
  /\ UNCHANGED <<txnVars, walVars, storeVars, threadVars, run, failures, ended, accesses>>

Acquired(th) == pc[th] = "acquired" /\ ~Waiting(th)

Refused(th) ==
  /\ Acquired(th) /\ ~ok[th]
  /\ Finish(th)
  /\ UNCHANGED <<lockVars, txnVars, walVars, storeVars, run, failures, ended, accesses>>

------------------------------------------------------------------------------
(* putRecord, with its lock *)

PutLogStart(th) ==
  /\ Acquired(th) /\ ok[th] /\ op[th].kind = "put"
  /\ logging' = logging \cup {th}
  /\ raced' = IF logging = {} THEN raced ELSE raced \cup logging'
  /\ Goto(th, "logging")
  /\ UNCHANGED <<lockVars, txnVars, wal, synced, storeVars, run, failures, ended, accesses>>

PutLogEnds(th) ==
  /\ pc[th] = "logging"
  /\ logging' = logging \ {th}
  /\ raced' = raced \ {th}
  /\ UNCHANGED <<lockVars, txnVars, synced, storeVars, run, ended, accesses>>

PutLogged(th) ==
  /\ PutLogEnds(th)
  /\ Len(wal) < MaxLog
  /\ \E intact \in IF th \in raced THEN BOOLEAN ELSE {TRUE} :
       wal' = Append(wal, Entry("PUT_RECORD", op[th].txn, op[th].key, intact))
  /\ Goto(th, "store")
  /\ UNCHANGED failures

\* Mutant: the result of logPutRecord is ignored.
PutLogFails_GoesOn(th) ==
  PutLogEnds(th) /\ Failure /\ Goto(th, "store") /\ UNCHANGED wal

PutLogFails(th) ==
  PutLogEnds(th) /\ Failure /\ Finish(th) /\ UNCHANGED wal

\* storage->putRecord turns down a key or a value that is too long.  When no page
\* has room it never returns: allocateNewPage locks cacheMutex, which it has.  (So
\* would every later call of the storage, hence the assumption that no other
\* thread is there to make one; what it did to the cached pages nobody sees.)
PutStore(th) ==
  /\ pc[th] = "store"
  /\ \/ /\ Put(op[th].txn, op[th].key)
        /\ dirty' = dirty \cup {op[th].key}
        /\ NoteWrite(op[th].txn, op[th].key)
        /\ Goto(th, "note")
        /\ UNCHANGED failures
     \/ /\ Failure
        /\ Finish(th)
        /\ UNCHANGED <<cache, dirty, astray, accesses>>
     \/ /\ "full" \in Ops
        /\ Goto(th, "hung")
        /\ UNCHANGED <<cache, dirty, astray, failures, accesses>>
  /\ UNCHANGED <<lockVars, txnVars, walVars, disk, run, ended>>

------------------------------------------------------------------------------
(* getRecord, with its lock *)

GetRead(th) ==
  /\ Acquired(th) /\ ok[th] /\ op[th].kind = "get"
  /\ NoteRead(op[th].txn, op[th].key)
  /\ \/ TRUE \in Found(op[th].key) /\ Goto(th, "note")
     \/ FALSE \in Found(op[th].key) /\ Finish(th)
  /\ UNCHANGED <<lockVars, txnVars, walVars, storeVars, run, failures, ended>>

\* putRecord and getRecord end alike: under txnMutex, the key joins the write or
\* the read set, if the transaction is still there.
Note(th) ==
  /\ pc[th] = "note" /\ MutexFree
  /\ LET t == op[th].txn
         k == op[th].key
     IN  /\ writeSet' = IF t \in activeTxns /\ op[th].kind = "put"
                        THEN [writeSet EXCEPT ![t] = @ \cup {k}] ELSE writeSet
         /\ readSet'  = IF t \in activeTxns /\ op[th].kind = "get"
                        THEN [readSet EXCEPT ![t] = @ \cup {k}] ELSE readSet
  /\ Finish(th)
  /\ UNCHANGED <<lockVars, activeTxns, nextTxnId, txnMutex, walVars, storeVars,
                 run, failures, ended, accesses>>

------------------------------------------------------------------------------
(* deleteRecord, with its lock: the rest runs under txnMutex.  Whatever goes *)
(* wrong, it releases all locks of the transaction.                          *)

Deleting(th) ==
  /\ Acquired(th) /\ ok[th] /\ op[th].kind = "delete" /\ MutexFree
  /\ Finish(th)
  /\ UNCHANGED <<activeTxns, readSet, nextTxnId, txnMutex, synced, disk, run, ended>>

\* Mutant: the lock that came too late is kept.
DeleteTooLate_KeepsLocks(th) ==
  /\ Deleting(th)
  /\ op[th].txn \notin activeTxns
  /\ UNCHANGED <<lockVars, writeSet, wal, logging, raced, cache, dirty, astray, failures, accesses>>

DeleteTooLate(th) ==
  /\ Deleting(th)
  /\ op[th].txn \notin activeTxns
  /\ ReleaseAllLocks(th, op[th].txn)
  /\ UNCHANGED <<writeSet, wal, logging, raced, cache, dirty, astray, failures, accesses>>

DeleteLogFails(th) ==
  /\ Deleting(th)
  /\ op[th].txn \in activeTxns
  /\ Failure
  /\ ReleaseAllLocks(th, op[th].txn)
  /\ UNCHANGED <<writeSet, wal, logging, raced, cache, dirty, astray, accesses>>

DeleteNotFound(th) ==
  /\ Deleting(th)
  /\ op[th].txn \in activeTxns
  /\ WriteLogEntry("DELETE_RECORD", op[th].txn, op[th].key)
  /\ FALSE \in Found(op[th].key)
  /\ NoteRead(op[th].txn, op[th].key)
  /\ ReleaseAllLocks(th, op[th].txn)
  /\ UNCHANGED <<writeSet, cache, dirty, astray, failures>>

\* Mutant: the second look at activeTxns is left out.
DeleteFound_Unchecked(th) ==
  /\ Deleting(th)
  /\ WriteLogEntry("DELETE_RECORD", op[th].txn, op[th].key)
  /\ TRUE \in Found(op[th].key)
  /\ Delete(op[th].txn, op[th].key)
  /\ dirty' = dirty \cup {op[th].key}
  /\ NoteWrite(op[th].txn, op[th].key)
  /\ writeSet' = [writeSet EXCEPT ![op[th].txn] = @ \cup {op[th].key}]
  /\ UNCHANGED <<lockVars, failures>>

DeleteFound(th) ==
  /\ Deleting(th)
  /\ op[th].txn \in activeTxns
  /\ WriteLogEntry("DELETE_RECORD", op[th].txn, op[th].key)
  /\ TRUE \in Found(op[th].key)
  /\ Delete(op[th].txn, op[th].key)
  /\ dirty' = dirty \cup {op[th].key}
  /\ NoteWrite(op[th].txn, op[th].key)
  /\ writeSet' = [writeSet EXCEPT ![op[th].txn] = @ \cup {op[th].key}]
  /\ UNCHANGED <<lockVars, failures>>

DeleteApply(th) ==
  \/ DeleteTooLate(th) \/ DeleteLogFails(th) \/ DeleteNotFound(th) \/ DeleteFound(th)

------------------------------------------------------------------------------
(* commitTransaction keeps txnMutex from its first step to its last *)

CommitLog(th, t) ==
  /\ pc[th] = "idle" /\ MutexFree /\ May(th, t)
  /\ t \in activeTxns
  /\ WriteLogEntry("COMMIT_TXN", t, NoKey)
  /\ \/ /\ Flush
        /\ txnMutex' = th
        /\ pc' = [pc EXCEPT ![th] = "flush"]
        /\ op' = [op EXCEPT ![th] = [kind |-> "commit", txn |-> t, key |-> NoKey]]
        /\ UNCHANGED failures
     \/ /\ Failure                      \* of flush: the entry stays in the buffer
        /\ UNCHANGED <<synced, txnMutex, pc, op>>
  /\ UNCHANGED <<lockVars, activeTxns, readSet, writeSet, nextTxnId, storeVars, mine,
                 run, ended, accesses>>

\* The COMMIT or the ABORT entry cannot be written: the call gives up at once.
EndNotLogged(th, t) ==
  /\ pc[th] = "idle" /\ MutexFree /\ May(th, t)
  /\ t \in activeTxns
  /\ Failure
  /\ UNCHANGED <<lockVars, txnVars, walVars, storeVars, threadVars, run, ended, accesses>>

\* storage->flushAll gives up at the first page it cannot write.
CommitFlush(th) ==
  /\ pc[th] = "flush"
  /\ \/ /\ disk' = Flushed(dirty)
        /\ dirty' = {}
        /\ Goto(th, "release")
        /\ UNCHANGED <<txnMutex, failures>>
     \/ /\ Failure
        /\ \E S \in (SUBSET dirty) \ {dirty} : disk' = Flushed(S) /\ dirty' = dirty \ S
        /\ Finish(th)
        /\ txnMutex' = NoThread
  /\ UNCHANGED <<lockVars, activeTxns, readSet, writeSet, nextTxnId, walVars, cache, astray,
                 run, ended, accesses>>

CommitRelease(th) ==
  /\ pc[th] = "release"
  /\ ReleaseAllLocks(th, op[th].txn)
  /\ activeTxns' = activeTxns \ {op[th].txn}
  /\ committed' = committed \cup {Stamp(op[th].txn)}
  /\ Finish(th)
  /\ txnMutex' = NoThread
  /\ UNCHANGED <<readSet, writeSet, nextTxnId, walVars, storeVars,
                 run, failures, aborted, accesses>>

\* abortTransaction is one step; it undoes nothing.
Abort(th, t) ==
  /\ "abort" \in Ops
  /\ pc[th] = "idle" /\ MutexFree /\ May(th, t)
  /\ t \in activeTxns
  /\ WriteLogEntry("ABORT_TXN", t, NoKey)
  /\ ReleaseAllLocks(th, t)
  /\ activeTxns' = activeTxns \ {t}
  /\ aborted' = aborted \cup {Stamp(t)}
  /\ UNCHANGED <<readSet, writeSet, nextTxnId, txnMutex, synced, storeVars, threadVars,
                 run, failures, committed, accesses>>

------------------------------------------------------------------------------
(* The end of a run of the program, and the start of the next: everything    *)
(* but the two files starts afresh, and main does not replay the log.        *)

\* The map that open makes may name a page that is not in order for any key.
Restart(records, entries) ==
  /\ run < MaxRun
  /\ run' = run + 1
  /\ disk' = records /\ cache' = records /\ dirty' = {}
  /\ \E S \in IF astray = {} THEN {{}} ELSE SUBSET Keys : astray' = astray \cup S
  /\ wal' = entries /\ synced' = Len(entries)
  /\ logging' = {} /\ raced' = {}
  /\ granted'  = [k \in Keys |-> {}]
  /\ queued'   = [k \in Keys |-> [r \in Requests |-> 0]]
  /\ txnLocks' = [t \in Txns |-> {}]
  /\ txnWaits' = [t \in Txns |-> {}]
  /\ call'     = [th \in Threads |-> NoCall]
  /\ asleep'   = {}
  /\ ok'       = [th \in Threads |-> TRUE]
  /\ activeTxns' = {} /\ nextTxnId' = 1 /\ txnMutex' = NoThread
  /\ readSet' = [t \in Txns |-> {}] /\ writeSet' = [t \in Txns |-> {}]
  /\ pc' = [th \in Threads |-> "idle"] /\ op' = [th \in Threads |-> NoOp]
  /\ mine' = [th \in Threads |-> INVALID_TXN_ID]
  /\ readers' = [k \in Keys |-> {}] /\ writers' = [k \in Keys |-> {}] /\ order' = {}
  /\ UNCHANGED ended

\* A crash loses the cache and any tail of the log that was not synced; it may
\* come when flushAll has written some of its pages.
Crash ==
  /\ "crash" \in Ops
  /\ \E n \in synced .. Len(wal) :
     \E S \in IF \E th \in Threads : pc[th] = "flush" THEN SUBSET dirty ELSE {{}} :
       Restart(Flushed(S), SubSeq(wal, 1, n))
  /\ UNCHANGED failures

\* storage->close and then wal->close flush what they have, and do not look whether
\* that works.  A crash may come before they are done.
Close ==
  /\ "close" \in Ops
  /\ \A th \in Threads : pc[th] = "idle"
  /\ \/ /\ Restart(Flushed(dirty), wal)
        /\ UNCHANGED failures
     \/ /\ Failure \/ ("crash" \in Ops /\ UNCHANGED failures)
        /\ \E n \in synced .. Len(wal), S \in SUBSET dirty :
             Restart(Flushed(S), SubSeq(wal, 1, n))

------------------------------------------------------------------------------
TMInit ==
  /\ Init
  /\ activeTxns = {} /\ nextTxnId = 1 /\ txnMutex = NoThread
  /\ readSet = [t \in Txns |-> {}] /\ writeSet = [t \in Txns |-> {}]
  /\ wal = <<>> /\ synced = 0 /\ logging = {} /\ raced = {}
  /\ cache = [k \in Keys |-> [by |-> NoStamp, present |-> k \in Stored]]
  /\ dirty = {} /\ disk = cache /\ astray = {}
  /\ pc = [th \in Threads |-> "idle"] /\ op = [th \in Threads |-> NoOp]
  /\ mine = [th \in Threads |-> INVALID_TXN_ID]
  /\ run = 1 /\ failures = 0
  /\ committed = {} /\ aborted = {}
  /\ readers = [k \in Keys |-> {}] /\ writers = [k \in Keys |-> {}] /\ order = {}

\* A thread that has a transaction of its own ends it before it begins another,
\* unless the clients of the instance may leave one as it is.
ThreadStep(th) ==
  \/ (mine[th] \notin activeTxns \/ "leave" \in Ops) /\ Begin(th)
  \/ \E kind \in {"put", "get", "delete"}, t \in Txns, k \in Keys : Start(th, kind, t, k)
  \/ Acquire(th) \/ Wake(th) \/ Refused(th)
  \/ PutLogStart(th) \/ PutLogged(th) \/ PutLogFails(th) \/ PutStore(th)
  \/ GetRead(th) \/ Note(th) \/ DeleteApply(th)
  \/ CommitFlush(th) \/ CommitRelease(th)
  \/ \E t \in Txns : CommitLog(th, t) \/ EndNotLogged(th, t) \/ Abort(th, t)

TMNext == (\E th \in Threads : ThreadStep(th)) \/ Crash \/ Close

TMSpec == TMInit /\ [][TMNext]_vars

------------------------------------------------------------------------------
(* Correctness *)

Stamps == (0 .. MaxRun) \X (Txns \cup {0})
Labels == {"idle", "acquire", "acquired", "logging", "store", "note", "flush", "release", "hung"}

EntryTypes == {"BEGIN_TXN", "COMMIT_TXN", "ABORT_TXN", "PUT_RECORD", "DELETE_RECORD"}
LogEntries == [type : EntryTypes, by : Stamps, key : Keys \cup {NoKey}, intact : BOOLEAN]
Records    == [by : Stamps, present : BOOLEAN]

\* Every variable has its type, and a thread between two steps has an operation.
TMTypeOK ==
  /\ TypeOK
  /\ activeTxns \subseteq Txns /\ nextTxnId \in Nat /\ txnMutex \in Threads \cup {NoThread}
  /\ readSet \in [Txns -> SUBSET Keys] /\ writeSet \in [Txns -> SUBSET Keys]
  /\ wal \in Seq(LogEntries) /\ synced \in 0 .. Len(wal)
  /\ raced \subseteq logging /\ logging \subseteq Threads
  /\ cache \in [Keys -> Records] /\ disk \in [Keys -> Records]
  /\ dirty \subseteq Keys /\ astray \subseteq Keys
  /\ pc \in [Threads -> Labels] /\ op \in [Threads -> Operations \cup {NoOp}]
  /\ \A th \in Threads : pc[th] = "idle" <=> op[th] = NoOp
  /\ mine \in [Threads -> Txns \cup {INVALID_TXN_ID}]
  /\ run \in 1 .. MaxRun /\ failures \in Nat
  /\ committed \subseteq Stamps /\ aborted \subseteq Stamps
  /\ readers \in [Keys -> SUBSET Txns] /\ writers \in [Keys -> SUBSET Txns]
  /\ order \subseteq Txns \X Txns

\* Strict two-phase locking: a transaction keeps an EXCLUSIVE lock on all it
\* wrote and some lock on all it read until it ends (transaction.cpp:66, 93,
\* 118, 162).  deleteRecord breaks it when it fails (transaction.cpp:233), so
\* it is checked of puts and gets.
TwoPhase ==
  \A t \in activeTxns :
    /\ \A k \in writeSet[t] : Req(t, "EXCLUSIVE") \in granted[k]
    /\ \A k \in readSet[t] : \E r \in granted[k] : r.txn = t

\* The transactions that accessed the same keys in conflicting ways can be put
\* in one order that agrees with every access (ARCHITECTURE.md:110).  An access is one
\* to its key; what a page that is not in order makes of it is PageStore's matter.
Serializable ==
  ~ \E S \in SUBSET Txns : S # {} /\ \A t \in S : \E u \in S : <<t, u>> \in order

\* A transaction that has ended has no locks, unless a thread is still inside
\* an operation of it: nothing is left locked forever (transaction.cpp:66, 93,
\* 218-222; ARCHITECTURE.md:140).
EndedHoldNothing ==
  \A t \in Txns \ activeTxns :
    txnLocks[t] # {} => \E th \in Threads : pc[th] # "idle" /\ op[th].txn = t

\* Nobody waits for a lock with txnMutex in hand: those who could release the
\* lock need txnMutex for it (transaction.cpp:208).
NoWaitUnderMutex == \A th \in Threads : Waiting(th) => txnMutex # th

\* The changes of a commit that returned true are in the file as they are in the cache,
\* whatever other transactions and failures came between (transaction.cpp:54-70): where
\* one is the last change of its key, no page of the key has still to be written.
CommittedIsOnDisk ==
  \A k \in Keys : cache[k].by \in committed => disk[k] = cache[k] /\ k \notin dirty

\* A page in the cache holds no change that the log does not have before it
\* (transaction.cpp:123-128, 224-230; TUTORIAL.md:41).
LoggedBeforeStored ==
  \A k \in dirty : \E i \in 1 .. Len(wal) :
    /\ wal[i].by = cache[k].by /\ wal[i].key = k
    /\ wal[i].type = IF cache[k].present THEN "PUT_RECORD" ELSE "DELETE_RECORD"

\* The log has the entries of a transaction that committed, all of them, in
\* the file when commit returns: the change that is in the file of records is
\* also in the synced part of the log (transaction.cpp:54-61; wal.cpp:144).
CommittedIsLogged ==
  \A k \in Keys : cache[k].by \in committed =>
    \E i, j \in 1 .. synced :
      /\ i < j
      /\ wal[i].by = cache[k].by /\ wal[i].key = k
      /\ wal[j].by = cache[k].by /\ wal[j].type = "COMMIT_TXN"

\* The last entry of a transaction that ended in this run is the one that says how:
\* no operation that was under way when it ended is logged after it
\* (transaction.cpp:37-70, 74-98, 216-222).  A crash may lose an ABORT entry.
NothingAfterTheEnd ==
  \A i \in 1 .. Len(wal) :
    wal[i].by[1] = run /\ (\A j \in i + 1 .. Len(wal) : wal[j].by # wal[i].by) =>
      /\ wal[i].by \in committed => wal[i].type = "COMMIT_TXN"
      /\ wal[i].by \in aborted   => wal[i].type = "ABORT_TXN"

\* Only what was committed is there after a restart (test_recovery.cpp:56-57).
OnlyCommittedAfterRestart ==
  \A k \in Keys : disk[k].by # NoStamp /\ disk[k].by[1] < run => disk[k].by \in committed

================================================================================
