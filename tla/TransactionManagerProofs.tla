------------------------ MODULE TransactionManagerProofs ------------------------
(****************************************************************************)
(* What the transaction manager guarantees for any number of threads,       *)
(* transactions, keys, failures and runs of the program: types and control, *)
(* then locking, up to serializability, then what becomes of the data: the  *)
(* log is written before the data, what has been committed is in both       *)
(* files, and nothing is logged of a transaction that has ended.            *)
(****************************************************************************)
EXTENDS TransactionManager, LockManagerProofs

\* The names of tuples of variables are expanded everywhere.
USE DEF txnVars, walVars, storeVars, threadVars, ended, accesses

------------------------------------------------------------------------------
(* Types and control.  Neither is inductive without the other: an operation  *)
(* is typed by its kind, and its kind is known from where its thread is.     *)

\* The thread is in putRecord, getRecord or deleteRecord.
InOperation(th) ==
  pc[th] \in {"acquire", "acquired", "logging", "store", "note", "hung"}

\* The thread is in commitTransaction.
Committing(th) == pc[th] \in {"flush", "release"}

Control ==
  /\ \A th \in Threads :
       /\ InOperation(th) => op[th].kind \in {"put", "get", "delete"} \cap Ops
       /\ pc[th] \in {"logging", "store", "hung"} => op[th].kind = "put"
       /\ pc[th] = "note" => op[th].kind \in {"put", "get"}
       /\ Committing(th) => op[th].kind = "commit" /\ txnMutex = th
       /\ Waiting(th) => pc[th] = "acquired"
       /\ th \in logging => pc[th] = "logging"
  /\ txnMutex # NoThread => Committing(txnMutex)

\* What a thread that is in an operation works on.
LEMMA OperationType ==
  ASSUME TMTypeOK, Control, NEW th \in Threads, pc[th] # "idle"
  PROVE  /\ op[th] \in Operations /\ op[th].txn \in Txns
         /\ op[th].key \in Keys \cup {NoKey}
         /\ InOperation(th) => op[th].key \in Keys
<1>1. op[th] \in Operations
  BY DEF TMTypeOK
<1>2. InOperation(th) => op[th].kind # "commit"
  BY DEF Control
<1> QED
  BY <1>1, <1>2 DEF Operations

\* Every step is one of a thread, or the end of a run of the program.
LEMMA TMStepCases ==
  ASSUME [TMNext]_vars
  PROVE  \/ UNCHANGED vars
         \/ \E th \in Threads : ThreadStep(th)
         \/ Crash \/ Close
BY DEF TMNext

\* The next run starts with what was written of the cache, and with a part of
\* the log that has all that was synced (storage.cpp:44-130; wal.cpp:31-62).
LEMMA EndOfRunIsRestart ==
  ASSUME TMTypeOK, Crash \/ Close
  PROVE  /\ \E S \in SUBSET dirty, n \in synced .. Len(wal) :
                Restart(Flushed(S), SubSeq(wal, 1, n))
         /\ failures' \in {failures, failures + 1}
<1>1. CASE Crash
  <2>1. PICK n \in synced .. Len(wal),
             S \in IF \E th \in Threads : pc[th] = "flush" THEN SUBSET dirty ELSE {{}} :
               Restart(Flushed(S), SubSeq(wal, 1, n))
    BY <1>1 DEF Crash
  <2>2. S \in SUBSET dirty
    OBVIOUS
  <2>3. failures' = failures
    BY <1>1 DEF Crash
  <2> QED
    BY <2>1, <2>2, <2>3
<1>2. CASE Close
  <2>1. CASE Restart(Flushed(dirty), wal) /\ UNCHANGED failures
    <3>1. Len(wal) \in synced .. Len(wal) /\ SubSeq(wal, 1, Len(wal)) = wal
      BY DEF TMTypeOK
    <3> QED
      BY <2>1, <3>1
  <2>2. CASE /\ Failure \/ ("crash" \in Ops /\ UNCHANGED failures)
             /\ \E n \in synced .. Len(wal), S \in SUBSET dirty :
                  Restart(Flushed(S), SubSeq(wal, 1, n))
    BY <2>2 DEF Failure
  <2> QED
    BY <1>2, <2>1, <2>2 DEF Close
<1> QED
  BY <1>1, <1>2

\* A thread uses the lock manager through its public functions only, and a
\* restart makes a new one (transaction.cpp:66, 93, 115, 159, 207-235).
LEMMA LockStep ==
  ASSUME TMTypeOK, Control, [TMNext]_vars
  PROVE  [Next]_lockVars \/ Init'
<1>1. CASE UNCHANGED vars
  BY <1>1 DEF vars
<1>2. ASSUME NEW th \in Threads, ThreadStep(th) PROVE [Next]_lockVars
  <2>1. ASSUME pc[th] # "idle", ReleaseAllLocks(th, op[th].txn) PROVE Next
    BY <2>1, OperationType DEF Next
  <2>2. CASE Acquire(th)
    <3>1. pc[th] = "acquire" /\ AcquireLock(th, op[th].txn, op[th].key, Lock(op[th].kind))
      BY <2>2 DEF Acquire
    <3>2. op[th].txn \in Serves[th] /\ op[th].key \in Keys
      BY <3>1, OperationType, TransactionManagerAssumption DEF InOperation
    <3>3. Lock(op[th].kind) \in LockType
      BY DEF Lock, LockType
    <3> QED
      BY <3>1, <3>2, <3>3, Zenon DEF Next
  <2>3. CASE Wake(th)
    BY <2>3 DEF Wake, Next
  <2>4. CASE DeleteApply(th)
    <3>1. pc[th] # "idle"
      BY <2>4 DEF DeleteApply, DeleteTooLate, DeleteLogFails, DeleteNotFound, DeleteFound,
                  Deleting, Acquired
    <3> QED
      BY <3>1, <2>1, <2>4 DEF DeleteApply, DeleteTooLate, DeleteLogFails, DeleteNotFound,
                              DeleteFound
  <2>5. CASE CommitRelease(th)
    BY <2>1, <2>5 DEF CommitRelease
  <2>6. CASE \E t \in Txns : Abort(th, t)
    BY <2>6, Zenon DEF Abort, Next
  <2>7. CASE \/ Begin(th)
             \/ \E kind \in {"put", "get", "delete"}, t \in Txns, k \in Keys : Start(th, kind, t, k)
             \/ Refused(th) \/ PutLogStart(th) \/ PutLogged(th) \/ PutLogFails(th) \/ PutStore(th)
             \/ GetRead(th) \/ Note(th) \/ CommitFlush(th)
             \/ \E t \in Txns : CommitLog(th, t) \/ EndNotLogged(th, t)
    BY <2>7 DEF Begin, Start, Refused, PutLogStart, PutLogged, PutLogFails, PutLogEnds, PutStore,
                GetRead, Note, CommitFlush, CommitLog, EndNotLogged
  <2> QED
    BY <1>2, <2>2, <2>3, <2>4, <2>5, <2>6, <2>7 DEF ThreadStep
<1>3. CASE Crash \/ Close
  BY <1>3, EndOfRunIsRestart DEF Restart, Init
<1> QED
  BY <1>1, <1>2, <1>3, TMStepCases

\* An entry that is written has the type of the log's entries.
LEMMA EntryType ==
  ASSUME TMTypeOK, NEW type \in EntryTypes, NEW t \in Txns, NEW k \in Keys \cup {NoKey},
         NEW intact \in BOOLEAN
  PROVE  Stamp(t) \in Stamps /\ Entry(type, t, k, intact) \in LogEntries
BY TransactionManagerAssumption DEF TMTypeOK, Stamp, Stamps, Entry, LogEntries

\* One entry more keeps the log and what is known of it typed.
LEMMA LogType ==
  ASSUME TMTypeOK, NEW e \in LogEntries, wal' = Append(wal, e)
  PROVE  /\ wal' \in Seq(LogEntries) /\ Len(wal') = Len(wal) + 1
         /\ synced \in 0 .. Len(wal') /\ Len(wal') \in 0 .. Len(wal')
         /\ wal'[Len(wal) + 1] = e
         /\ \A i \in 1 .. Len(wal) : wal'[i] = wal[i]
BY DEF TMTypeOK

\* writeLogEntry appends one entry, whoever calls it (wal.cpp:81-144).
LEMMA WriteLogEntryType ==
  ASSUME TMTypeOK, NEW type \in EntryTypes, NEW t \in Txns, NEW k \in Keys \cup {NoKey},
         WriteLogEntry(type, t, k)
  PROVE  /\ wal' \in Seq(LogEntries) /\ synced \in 0 .. Len(wal')
         /\ Len(wal') \in 0 .. Len(wal')
         /\ raced' \subseteq logging' /\ logging' = logging
<1>1. PICK intact \in BOOLEAN : wal' = Append(wal, Entry(type, t, k, intact))
  BY DEF WriteLogEntry
<1>2. Entry(type, t, k, intact) \in LogEntries
  BY EntryType
<1>3. wal' \in Seq(LogEntries) /\ synced \in 0 .. Len(wal')
      /\ Len(wal') \in 0 .. Len(wal')
  BY <1>1, <1>2, LogType
<1>4. raced' \subseteq logging' /\ logging' = logging
  BY DEF WriteLogEntry, TMTypeOK
<1> QED
  BY <1>3, <1>4

\* What flushAll leaves in the file are records.
LEMMA FlushedType ==
  ASSUME TMTypeOK, NEW S
  PROVE  Flushed(S) \in [Keys -> Records]
BY DEF TMTypeOK, Flushed

\* The lock manager's variables keep their types under the transaction manager.
LEMMA LockTypeStep ==
  ASSUME TMTypeOK, Control, [TMNext]_vars
  PROVE  TypeOK'
<1>1. ASSUME Init' PROVE TypeOK'
  BY <1>1, LockManagerAssumption DEF Init, TypeOK, Waiting
<1> QED
  BY <1>1, LockStep, TypeOKStep DEF TMTypeOK

\* Every step of a thread keeps the types of all variables.
LEMMA TMTypeStep ==
  ASSUME TMTypeOK, Control, [TMNext]_vars
  PROVE  TMTypeOK'
<1>t. TypeOK'
  BY LockTypeStep
<1>1. CASE UNCHANGED vars
  BY <1>1, <1>t DEF TMTypeOK, vars
<1>2. ASSUME NEW th \in Threads, ThreadStep(th) PROVE TMTypeOK'
  <2>1. ASSUME Begin(th) PROVE TMTypeOK'
    <3>0. /\ nextTxnId \in Txns
          /\ nextTxnId' = nextTxnId + 1
          /\ activeTxns' = activeTxns \cup {nextTxnId}
          /\ readSet' = [readSet EXCEPT ![nextTxnId] = {}]
          /\ writeSet' = [writeSet EXCEPT ![nextTxnId] = {}]
          /\ UNCHANGED <<txnMutex, synced, storeVars, pc, op, run, ended, accesses>>
      BY <2>1 DEF Begin
    <3>1. CASE /\ WriteLogEntry("BEGIN_TXN", nextTxnId, NoKey)
               /\ mine' = [mine EXCEPT ![th] = nextTxnId]
               /\ UNCHANGED failures
      <4>1. /\ wal' \in Seq(LogEntries) /\ synced \in 0 .. Len(wal')
            /\ raced' \subseteq logging' /\ logging' = logging
        BY <3>0, <3>1, WriteLogEntryType DEF EntryTypes
      <4> QED
        BY <3>0, <3>1, <4>1, <1>t DEF TMTypeOK
    <3>2. CASE /\ Failure
               /\ mine' = [mine EXCEPT ![th] = INVALID_TXN_ID]
               /\ UNCHANGED <<wal, logging, raced>>
      BY <3>0, <3>2, <1>t DEF TMTypeOK, Failure
    <3> QED
      BY <2>1, <3>1, <3>2 DEF Begin
  <2>2. ASSUME NEW kind \in {"put", "get", "delete"}, NEW t \in Txns, NEW k \in Keys,
               Start(th, kind, t, k)
        PROVE  TMTypeOK'
    <3>1. [kind |-> kind, txn |-> t, key |-> k] \in Operations
      BY DEF Operations
    <3> QED
      BY <2>2, <3>1, <1>t, TransactionManagerAssumption DEF Start, TMTypeOK, Labels
  <2>3. CASE Acquire(th)
    BY <2>3, <1>t DEF Acquire, Goto, TMTypeOK, Labels
  <2>4. CASE Wake(th)
    BY <2>4, <1>t DEF Wake, TMTypeOK
  <2>5. CASE Refused(th)
    BY <2>5, <1>t DEF Refused, Finish, TMTypeOK, Labels
  <2>6. CASE PutLogStart(th)
    BY <2>6, <1>t DEF PutLogStart, Acquired, Goto, TMTypeOK, Labels
  <2>7. CASE PutLogged(th)
    <3>1. PICK intact \in BOOLEAN :
            wal' = Append(wal, Entry("PUT_RECORD", op[th].txn, op[th].key, intact))
      BY <2>7 DEF PutLogged
    <3>2. Entry("PUT_RECORD", op[th].txn, op[th].key, intact) \in LogEntries
      BY <2>7, OperationType, EntryType DEF PutLogged, PutLogEnds, EntryTypes
    <3>3. wal' \in Seq(LogEntries) /\ synced \in 0 .. Len(wal')
      BY <3>1, <3>2, LogType
    <3> QED
      BY <2>7, <3>3, <1>t DEF PutLogged, PutLogEnds, Goto, TMTypeOK, Labels
  <2>8. CASE PutLogFails(th)
    BY <2>8, <1>t DEF PutLogFails, PutLogEnds, Finish, Failure, TMTypeOK, Labels
  <2>9. CASE PutStore(th)
    <3>1. op[th].txn \in Txns /\ op[th].key \in Keys /\ Stamp(op[th].txn) \in Stamps
      BY <2>9, OperationType, TransactionManagerAssumption
         DEF PutStore, InOperation, TMTypeOK, Stamp, Stamps
    <3>2. CASE Put(op[th].txn, op[th].key) /\ NoteWrite(op[th].txn, op[th].key)
               /\ dirty' = dirty \cup {op[th].key} /\ Goto(th, "note") /\ UNCHANGED failures
      <4>1. astray' \subseteq Keys
        BY <3>2 DEF Put, GoesAstray, TMTypeOK
      <4>2. cache' = [cache EXCEPT ![op[th].key] = [by |-> Stamp(op[th].txn), present |-> TRUE]]
        BY <3>2 DEF Put
      <4> QED
        BY <2>9, <3>1, <3>2, <4>1, <4>2, <1>t
           DEF PutStore, NoteWrite, Goto, TMTypeOK, Labels, Records
    <3>3. CASE Failure /\ Finish(th) /\ UNCHANGED <<cache, dirty, astray, accesses>>
      BY <2>9, <3>3, <1>t DEF PutStore, Failure, Finish, TMTypeOK, Labels
    <3>4. CASE Goto(th, "hung") /\ UNCHANGED <<cache, dirty, astray, failures, accesses>>
      BY <2>9, <3>4, <1>t DEF PutStore, Goto, TMTypeOK, Labels
    <3> QED
      BY <2>9, <3>2, <3>3, <3>4 DEF PutStore
  <2>10. CASE GetRead(th)
    <3>1. op[th].txn \in Txns /\ op[th].key \in Keys
      BY <2>10, OperationType DEF GetRead, Acquired, InOperation
    <3>2. /\ NoteRead(op[th].txn, op[th].key)
          /\ Goto(th, "note") \/ Finish(th)
          /\ UNCHANGED <<txnVars, walVars, storeVars, run, failures, ended>>
      BY <2>10 DEF GetRead
    <3>3. /\ readers' \in [Keys -> SUBSET Txns] /\ writers' \in [Keys -> SUBSET Txns]
          /\ order' \subseteq Txns \X Txns
      BY <3>1, <3>2 DEF NoteRead, TMTypeOK
    <3>4. /\ pc' \in [Threads -> Labels] /\ op' \in [Threads -> Operations \cup {NoOp}]
          /\ mine' = mine
          /\ \A u \in Threads : pc'[u] = "idle" <=> op'[u] = NoOp
      <4>1. pc[th] # "idle"
        BY <2>10 DEF GetRead, Acquired
      <4> QED
        BY <3>2, <4>1 DEF Goto, Finish, TMTypeOK, Labels
    <3> QED
      BY <3>2, <3>3, <3>4, <1>t DEF TMTypeOK
  <2>11. CASE Note(th)
    <3>1. op[th].txn \in Txns /\ op[th].key \in Keys
      BY <2>11, OperationType DEF Note, InOperation
    <3> QED
      BY <2>11, <3>1, <1>t DEF Note, Finish, TMTypeOK, Labels
  <2>12. CASE DeleteApply(th)
    <3>1. /\ Deleting(th)
          /\ op[th].txn \in Txns /\ op[th].key \in Keys /\ Stamp(op[th].txn) \in Stamps
      <4>1. Deleting(th)
        BY <2>12 DEF DeleteApply, DeleteTooLate, DeleteLogFails, DeleteNotFound, DeleteFound
      <4>2. op[th].txn \in Txns /\ op[th].key \in Keys
        BY <4>1, OperationType DEF Deleting, Acquired, InOperation
      <4> QED
        BY <4>1, <4>2 DEF TMTypeOK, Stamp, Stamps
    <3>2. CASE DeleteTooLate(th)
      BY <3>1, <3>2, <1>t DEF DeleteTooLate, Deleting, Finish, TMTypeOK, Labels
    <3>3. CASE DeleteLogFails(th)
      BY <3>1, <3>3, <1>t DEF DeleteLogFails, Deleting, Failure, Finish, TMTypeOK, Labels
    <3>4. CASE DeleteNotFound(th)
      <4>1. /\ wal' \in Seq(LogEntries) /\ synced \in 0 .. Len(wal')
            /\ raced' \subseteq logging' /\ logging' = logging
        BY <3>1, <3>4, WriteLogEntryType DEF DeleteNotFound, EntryTypes
      <4> QED
        BY <3>1, <3>4, <4>1, <1>t DEF DeleteNotFound, Deleting, NoteRead, Finish, TMTypeOK, Labels
    <3>5. CASE DeleteFound(th)
      <4>1. /\ wal' \in Seq(LogEntries) /\ synced \in 0 .. Len(wal')
            /\ raced' \subseteq logging' /\ logging' = logging
        BY <3>1, <3>5, WriteLogEntryType DEF DeleteFound, EntryTypes
      <4>2. cache' \in [Keys -> Records] /\ dirty' \subseteq Keys
        BY <3>1, <3>5 DEF DeleteFound, Delete, TMTypeOK, Records
      <4>5. astray' \subseteq Keys
        BY <3>5 DEF DeleteFound, Delete, GoesAstray, TMTypeOK
      <4>3. /\ writers' \in [Keys -> SUBSET Txns] /\ readers' = readers
            /\ order' \subseteq Txns \X Txns
        BY <3>1, <3>5 DEF DeleteFound, NoteWrite, TMTypeOK
      <4>4. writeSet' \in [Txns -> SUBSET Keys]
        BY <3>1, <3>5 DEF DeleteFound, TMTypeOK
      <4> QED
        BY <3>1, <3>5, <4>1, <4>2, <4>3, <4>4, <4>5, <1>t
           DEF DeleteFound, Deleting, Finish, TMTypeOK, Labels
    <3> QED
      BY <2>12, <3>2, <3>3, <3>4, <3>5 DEF DeleteApply
  <2>13. ASSUME NEW t \in Txns, CommitLog(th, t) PROVE TMTypeOK'
    <3>1. [kind |-> "commit", txn |-> t, key |-> NoKey] \in Operations
      BY DEF Operations
    <3>2. /\ wal' \in Seq(LogEntries) /\ synced \in 0 .. Len(wal')
          /\ Len(wal') \in 0 .. Len(wal')
          /\ raced' \subseteq logging' /\ logging' = logging
      BY <2>13, WriteLogEntryType DEF CommitLog, EntryTypes
    <3>3. /\ synced' \in {Len(wal'), synced} /\ txnMutex' \in {th, txnMutex}
          /\ failures' \in {failures, failures + 1}
      BY <2>13 DEF CommitLog, Flush, Failure
    <3>4. /\ pc' \in [Threads -> Labels] /\ op' \in [Threads -> Operations \cup {NoOp}]
          /\ \A u \in Threads : pc'[u] = "idle" <=> op'[u] = NoOp
      <4>1. \/ UNCHANGED <<pc, op>>
            \/ /\ pc' = [pc EXCEPT ![th] = "flush"]
               /\ op' = [op EXCEPT ![th] = [kind |-> "commit", txn |-> t, key |-> NoKey]]
        BY <2>13 DEF CommitLog
      <4>2. [kind |-> "commit", txn |-> t, key |-> NoKey] # NoOp
        BY <3>1, TransactionManagerAssumption
      <4> QED
        BY <3>1, <4>1, <4>2 DEF TMTypeOK, Labels
    <3>5. UNCHANGED <<activeTxns, readSet, writeSet, nextTxnId, storeVars, mine, run, ended,
                      accesses>>
      BY <2>13 DEF CommitLog
    <3> QED
      BY <3>2, <3>3, <3>4, <3>5, <1>t DEF TMTypeOK
  <2>14. CASE CommitFlush(th)
    <3>0. /\ pc[th] = "flush"
          /\ UNCHANGED <<activeTxns, readSet, writeSet, nextTxnId, walVars, cache, astray, run,
                         ended, accesses>>
      BY <2>14 DEF CommitFlush
    <3>1. CASE disk' = Flushed(dirty) /\ dirty' = {} /\ Goto(th, "release")
               /\ UNCHANGED <<txnMutex, failures>>
      <4>1. disk' \in [Keys -> Records]
        BY <3>1, FlushedType
      <4> QED
        BY <3>0, <3>1, <4>1, <1>t DEF Goto, TMTypeOK, Labels
    <3>2. ASSUME NEW S \in SUBSET dirty, Failure, disk' = Flushed(S), dirty' = dirty \ S,
                 Finish(th), txnMutex' = NoThread
          PROVE  TMTypeOK'
      <4>1. disk' \in [Keys -> Records]
        BY <3>2, FlushedType
      <4> QED
        BY <3>0, <3>2, <4>1, <1>t DEF Finish, Failure, TMTypeOK, Labels
    <3> QED
      BY <2>14, <3>1, <3>2 DEF CommitFlush
  <2>15. CASE CommitRelease(th)
    <3>1. Stamp(op[th].txn) \in Stamps
      BY <2>15, OperationType DEF CommitRelease, TMTypeOK, Stamp, Stamps
    <3> QED
      BY <2>15, <3>1, <1>t DEF CommitRelease, Finish, TMTypeOK, Labels
  <2>16. ASSUME NEW t \in Txns, Abort(th, t) PROVE TMTypeOK'
    <3>1. Stamp(t) \in Stamps
      BY DEF TMTypeOK, Stamp, Stamps
    <3>2. /\ wal' \in Seq(LogEntries) /\ synced \in 0 .. Len(wal')
          /\ raced' \subseteq logging' /\ logging' = logging
      BY <2>16, WriteLogEntryType DEF Abort, EntryTypes
    <3> QED
      BY <2>16, <3>1, <3>2, <1>t DEF Abort, TMTypeOK
  <2>17. CASE \E t \in Txns : EndNotLogged(th, t)
    BY <1>t, <2>17 DEF EndNotLogged, Failure, TMTypeOK
  <2> QED
    BY <1>2, <2>1, <2>2, <2>3, <2>4, <2>5, <2>6, <2>7, <2>8, <2>9, <2>10, <2>11, <2>12, <2>13,
       <2>14, <2>15, <2>16, <2>17 DEF ThreadStep
<1>3. CASE Crash \/ Close
  <2>1. PICK S \in SUBSET dirty, n \in synced .. Len(wal) :
               Restart(Flushed(S), SubSeq(wal, 1, n))
    BY <1>3, EndOfRunIsRestart
  <2>2. SubSeq(wal, 1, n) \in Seq(LogEntries) /\ Len(SubSeq(wal, 1, n)) = n /\ n \in Nat
    BY DEF TMTypeOK
  <2>3. failures' \in Nat
    BY <1>3, EndOfRunIsRestart DEF TMTypeOK
  <2>4. astray' \subseteq Keys
    BY <2>1 DEF Restart, TMTypeOK
  <2> QED
    BY <2>1, <2>2, <2>3, <2>4, <1>t, FlushedType, TransactionManagerAssumption
       DEF Restart, TMTypeOK, Labels, INVALID_TXN_ID
<1> QED
  BY <1>1, <1>2, <1>3, TMStepCases

\* A step of a thread uses the lock manager in one of these ways.
LEMMA LockUse ==
  ASSUME NEW th \in Threads, ThreadStep(th)
  PROVE  \/ UNCHANGED lockVars
         \/ Acquire(th) \/ Wake(th)
         \/ \E t : ReleaseAllLocks(th, t)
BY DEF ThreadStep, Begin, Start, Refused, PutLogStart, PutLogged, PutLogFails, PutLogEnds,
       PutStore, GetRead, Note, DeleteApply, DeleteTooLate, DeleteLogFails, DeleteNotFound,
       DeleteFound, CommitFlush, CommitRelease, CommitLog, EndNotLogged, Abort

\* A step of a thread leaves the calls of the others as they are.
LEMMA OtherCalls ==
  ASSUME TMTypeOK, NEW th \in Threads, ThreadStep(th), NEW u \in Threads, u # th
  PROVE  call'[u] = call[u] /\ ok'[u] = ok[u]
<1>1. CASE UNCHANGED lockVars
  BY <1>1 DEF lockVars
<1>2. CASE Acquire(th)
  BY <1>2 DEF Acquire, AcquireLock, AcquireHeld, AcquireDeadlock, AcquireGrant, AcquireWait, Return,
              TMTypeOK, TypeOK
<1>3. CASE Wake(th)
  BY <1>3 DEF Wake, Resume, ResumeCancelled, ResumeWait, ResumeGrant, SpuriousWakeup, Return,
              TMTypeOK, TypeOK
<1>4. CASE \E t : ReleaseAllLocks(th, t)
  BY <1>4 DEF ReleaseAllLocks, Return, TMTypeOK, TypeOK
<1> QED
  BY <1>1, <1>2, <1>3, <1>4, LockUse

\* A step of a thread leaves the other threads where they are.
LEMMA OtherThreads ==
  ASSUME TMTypeOK, NEW th \in Threads, ThreadStep(th), NEW u \in Threads, u # th
  PROVE  /\ pc'[u] = pc[u] /\ op'[u] = op[u] /\ mine'[u] = mine[u]
         /\ u \in logging' <=> u \in logging
<1>1. CASE Begin(th) \/ (\E t \in Txns : CommitLog(th, t) \/ EndNotLogged(th, t) \/ Abort(th, t))
  BY <1>1 DEF Begin, CommitLog, EndNotLogged, Abort, WriteLogEntry, TMTypeOK
<1>2. CASE \/ \E kind \in {"put", "get", "delete"}, t \in Txns, k \in Keys : Start(th, kind, t, k)
           \/ Acquire(th) \/ Wake(th) \/ Refused(th) \/ PutLogStart(th) \/ PutLogged(th)
           \/ PutLogFails(th)
  BY <1>2 DEF Start, Acquire, Wake, Refused, PutLogStart, PutLogged, PutLogFails, PutLogEnds,
              Goto, Finish, TMTypeOK
<1>3. CASE PutStore(th) \/ GetRead(th) \/ Note(th) \/ CommitFlush(th) \/ CommitRelease(th)
  BY <1>3 DEF PutStore, GetRead, Note, CommitFlush, CommitRelease, Goto, Finish, TMTypeOK
<1>4. CASE DeleteApply(th)
  BY <1>4 DEF DeleteApply, DeleteTooLate, DeleteLogFails, DeleteNotFound, DeleteFound, Deleting,
              WriteLogEntry, Finish, TMTypeOK
<1> QED
  BY <1>1, <1>2, <1>3, <1>4 DEF ThreadStep

\* The mutex changes hands only when it is free, or when its holder lets go.
LEMMA MutexStep ==
  ASSUME TMTypeOK, NEW th \in Threads, ThreadStep(th)
  PROVE  \/ txnMutex' = txnMutex
         \/ txnMutex = NoThread /\ txnMutex' = th
         \/ Committing(th) /\ txnMutex' = NoThread
BY DEF ThreadStep, Begin, Start, Acquire, Wake, Refused, PutLogStart, PutLogged, PutLogFails,
       PutLogEnds, PutStore, GetRead, Note, DeleteApply, DeleteTooLate, DeleteLogFails,
       DeleteNotFound, DeleteFound, Deleting, CommitFlush, CommitRelease, CommitLog, EndNotLogged, Abort,
       MutexFree, Committing

\* Where a thread is tells what it does, and who has txnMutex.
LEMMA ControlStep ==
  ASSUME TMTypeOK, Control, [TMNext]_vars
  PROVE  Control'
<1>1. CASE UNCHANGED vars
  BY <1>1 DEF Control, InOperation, Committing, Waiting, vars, lockVars
<1>2. ASSUME NEW th \in Threads, ThreadStep(th) PROVE Control'
  <2> DEFINE At(u) ==
               /\ InOperation(u) => op[u].kind \in {"put", "get", "delete"} \cap Ops
               /\ pc[u] \in {"logging", "store", "hung"} => op[u].kind = "put"
               /\ pc[u] = "note" => op[u].kind \in {"put", "get"}
               /\ Committing(u) => op[u].kind = "commit" /\ txnMutex = u
               /\ Waiting(u) => pc[u] = "acquired"
               /\ u \in logging => pc[u] = "logging"
  <2>0. At(th) /\ (txnMutex # NoThread => Committing(txnMutex)) /\ th # NoThread
    BY TransactionManagerAssumption DEF Control
  <2>1. ASSUME NEW u \in Threads, u # th PROVE At(u)'
    <3>1. /\ pc'[u] = pc[u] /\ op'[u] = op[u]
          /\ u \in logging' <=> u \in logging
          /\ Waiting(u)' <=> Waiting(u)
      BY <1>2, <2>1, OtherThreads, OtherCalls DEF Waiting
    <3>2. Committing(u) => txnMutex' = txnMutex
      BY <1>2, <2>0, <2>1, MutexStep, TransactionManagerAssumption DEF Control
    <3> QED
      BY <3>1, <3>2 DEF Control, InOperation, Committing
  <2>2. At(th)' /\ (txnMutex' = th => Committing(th)')
    <3> USE <2>0 DEF InOperation, Committing, Waiting
    <3>1. CASE Begin(th)
      BY <3>1 DEF Begin, WriteLogEntry, lockVars, Control
    <3>2. ASSUME NEW kind \in {"put", "get", "delete"}, NEW t \in Txns, NEW k \in Keys,
                 Start(th, kind, t, k)
          PROVE  At(th)' /\ (txnMutex' = th => Committing(th)')
      BY <3>2 DEF Start, MutexFree, lockVars, TMTypeOK
    <3>3. CASE Acquire(th)
      BY <3>3 DEF Acquire, Goto, TMTypeOK, Control
    <3>4. CASE Wake(th)
      BY <3>4 DEF Wake, Resume, ResumeCancelled, ResumeWait, ResumeGrant, Awake, Return,
                  SpuriousWakeup, TMTypeOK, TypeOK, Control
    <3>5. CASE Refused(th)
      BY <3>5 DEF Refused, Acquired, Finish, lockVars, TMTypeOK, Control
    <3>6. CASE PutLogStart(th)
      BY <3>6 DEF PutLogStart, Acquired, Goto, lockVars, TMTypeOK, Control
    <3>7. CASE PutLogged(th) \/ PutLogFails(th)
      BY <3>7 DEF PutLogged, PutLogFails, PutLogEnds, Goto, Finish, lockVars, TMTypeOK, Control
    <3>8. CASE PutStore(th)
      BY <3>8 DEF PutStore, Goto, Finish, lockVars, TMTypeOK, Control
    <3>9. CASE GetRead(th)
      BY <3>9 DEF GetRead, Acquired, Goto, Finish, lockVars, TMTypeOK, Control
    <3>10. CASE Note(th)
      BY <3>10 DEF Note, Finish, lockVars, TMTypeOK, Control
    <3>11. CASE DeleteApply(th)
      <4>1. /\ Acquired(th) /\ Finish(th) /\ logging' = logging /\ txnMutex' = txnMutex
            /\ call'[th] = NoCall
        BY <3>11 DEF DeleteApply, DeleteTooLate, DeleteLogFails, DeleteNotFound, DeleteFound,
                     Deleting, WriteLogEntry, ReleaseAllLocks, Return, Acquired, lockVars,
                     TMTypeOK, TypeOK
      <4> QED
        BY <4>1 DEF Acquired, Finish, TMTypeOK, Control
    <3>12. CASE CommitFlush(th)
      BY <3>12 DEF CommitFlush, Goto, Finish, lockVars, TMTypeOK, Control
    <3>13. CASE CommitRelease(th)
      BY <3>13 DEF CommitRelease, Finish, ReleaseAllLocks, Return, TMTypeOK, TypeOK, Control
    <3>14. ASSUME NEW t \in Txns, CommitLog(th, t)
           PROVE  At(th)' /\ (txnMutex' = th => Committing(th)')
      BY <3>14 DEF CommitLog, WriteLogEntry, lockVars, TMTypeOK, Control
    <3>15. ASSUME NEW t \in Txns, Abort(th, t)
           PROVE  At(th)' /\ (txnMutex' = th => Committing(th)')
      BY <3>15 DEF Abort, WriteLogEntry, ReleaseAllLocks, Return, TMTypeOK, TypeOK, Control
    <3>16. CASE \E t \in Txns : EndNotLogged(th, t)
      BY <3>16 DEF EndNotLogged, lockVars, TMTypeOK, Control, Committing
    <3> QED
      BY <1>2, <3>1, <3>2, <3>3, <3>4, <3>5, <3>6, <3>7, <3>8, <3>9, <3>10, <3>11, <3>12, <3>13,
         <3>14, <3>15, <3>16 DEF ThreadStep
  <2>3. txnMutex' # NoThread => Committing(txnMutex)'
    <3>1. CASE txnMutex' = th
      BY <3>1, <2>2 DEF Committing
    <3>2. CASE txnMutex' # th /\ txnMutex' # NoThread
      <4>1. txnMutex' = txnMutex /\ txnMutex \in Threads
        BY <1>2, <3>2, MutexStep DEF TMTypeOK
      <4>2. pc'[txnMutex] = pc[txnMutex]
        BY <1>2, <3>2, <4>1, OtherThreads
      <4> QED
        BY <2>0, <3>2, <4>1, <4>2 DEF Committing
    <3> QED
      BY <3>1, <3>2
  <2> QED
    BY <2>1, <2>2, <2>3 DEF Control
<1>3. CASE Crash \/ Close
  BY <1>3, EndOfRunIsRestart
     DEF Restart, Control, InOperation, Committing, Waiting
<1> QED
  BY <1>1, <1>2, <1>3, TMStepCases

\* The program starts with every variable typed and every thread idle.
LEMMA TMTypeInit == ASSUME TMInit PROVE TMTypeOK /\ Control
<1>1. TypeOK
  BY TypeOKInit DEF TMInit
<1>2. cache \in [Keys -> Records]
  BY TransactionManagerAssumption DEF TMInit, Records, Stamps, NoStamp
<1>3. TMTypeOK
  BY <1>1, <1>2, TransactionManagerAssumption DEF TMInit, TMTypeOK, Labels, INVALID_TXN_ID
<1>4. Control
  BY DEF TMInit, Init, Control, InOperation, Committing, Waiting
<1> QED
  BY <1>3, <1>4

\* Every variable keeps its type, and what a thread does agrees with where it is.
THEOREM TMTypeCorrect == TMSpec => [](TMTypeOK /\ Control)
BY TMTypeInit, TMTypeStep, ControlStep, PTL DEF TMSpec

\* A thread that has txnMutex is inside commitTransaction and waits for nobody:
\* acquireLock is called without it (transaction.cpp:37-70, 208).
THEOREM MutexHoldersDoNotWait == TMSpec => []NoWaitUnderMutex
<1>1. ASSUME TMTypeOK, Control PROVE NoWaitUnderMutex
  BY <1>1, TransactionManagerAssumption DEF Control, NoWaitUnderMutex, Committing
<1> QED
  BY <1>1, TMTypeCorrect, PTL

------------------------------------------------------------------------------
(* Locks.  What LockManagerProofs shows of the lock manager holds under the  *)
(* transaction manager too: it is used through its functions alone.          *)

\* What LockManagerProofs says of the lock manager.
LocksOK == Exclusion /\ IndexAgrees /\ NoLostWakeup /\ QueueCoversCalls /\ WaitsHaveCalls

\* A new lock manager has no lock and no caller.
LEMMA LocksInit == Init => TypeOK /\ LocksOK
BY TypeOKInit, QueueInit
   DEF Init, LocksOK, Exclusion, IndexAgrees, NoLostWakeup, WaitsHaveCalls

\* The transaction manager keeps it.
LEMMA LocksStep ==
  ASSUME TMTypeOK, Control, LocksOK, [TMNext]_vars
  PROVE  LocksOK'
<1>1. Init' => LocksOK'
  BY LocksInit, PTL
<1>2. ASSUME [Next]_lockVars PROVE LocksOK'
  <2>1. TypeOK /\ TypeOK'
    BY LockTypeStep DEF TMTypeOK
  <2> QED
    BY <1>2, <2>1, ExclusionStep, IndexStep, WakeupStep, QueueStep, WaitsStep DEF LocksOK
<1> QED
  BY <1>1, <1>2, LockStep

\* The lock manager keeps its promises to the threads of the transaction manager.
THEOREM LocksHold == TMSpec => []LocksOK
<1>1. TMInit => LocksOK
  BY LocksInit DEF TMInit
<1> QED
  BY <1>1, LocksStep, TMTypeCorrect, PTL DEF TMSpec

------------------------------------------------------------------------------
(* What a step of a thread touches, one part of the state at a time *)

\* A thread between acquireLocks and the access it acquired the lock for.
Armed(th) == pc[th] \in {"logging", "store", "note"} \/ (Acquired(th) /\ ok[th])

\* A key is accessed by a thread that has passed acquireLocks, and a get does
\* not write (transaction.cpp:133, 177, 232-238).
LEMMA AccessStep ==
  ASSUME TMTypeOK, Control, NEW th \in Threads, ThreadStep(th)
  PROVE  \/ UNCHANGED accesses
         \/ /\ Armed(th) /\ op[th].txn \in Txns /\ op[th].key \in Keys
            /\ UNCHANGED <<activeTxns, nextTxnId, mine>>
            /\ \/ NoteRead(op[th].txn, op[th].key)
               \/ op[th].kind # "get" /\ NoteWrite(op[th].txn, op[th].key)
<1> DEFINE Goal ==
             \/ UNCHANGED accesses
             \/ /\ Armed(th) /\ op[th].txn \in Txns /\ op[th].key \in Keys
                /\ UNCHANGED <<activeTxns, nextTxnId, mine>>
                /\ \/ NoteRead(op[th].txn, op[th].key)
                   \/ op[th].kind # "get" /\ NoteWrite(op[th].txn, op[th].key)
<1>1. CASE PutStore(th)
  <2>1. Armed(th) /\ op[th].kind = "put" /\ op[th].txn \in Txns /\ op[th].key \in Keys
    BY <1>1, OperationType DEF PutStore, Armed, Control, InOperation
  <2> QED
    BY <1>1, <2>1 DEF PutStore, Goto
<1>2. CASE GetRead(th)
  <2>1. Armed(th) /\ op[th].txn \in Txns /\ op[th].key \in Keys
    BY <1>2, OperationType DEF GetRead, Armed, Acquired, InOperation
  <2> QED
    BY <1>2, <2>1 DEF GetRead, Goto, Finish
<1>3. CASE DeleteApply(th)
  <2>0. Deleting(th)
    BY <1>3 DEF DeleteApply, DeleteTooLate, DeleteLogFails, DeleteNotFound, DeleteFound
  <2>1. /\ Armed(th) /\ op[th].kind = "delete" /\ op[th].txn \in Txns /\ op[th].key \in Keys
        /\ UNCHANGED <<activeTxns, nextTxnId, mine>>
    BY <2>0, OperationType DEF Deleting, Finish, Armed, Acquired, InOperation
  <2> QED
    BY <1>3, <2>1 DEF DeleteApply, DeleteTooLate, DeleteLogFails, DeleteNotFound, DeleteFound
<1>4. CASE \/ Begin(th)
           \/ \E kind \in {"put", "get", "delete"}, t \in Txns, k \in Keys : Start(th, kind, t, k)
           \/ Acquire(th) \/ Wake(th) \/ Refused(th) \/ PutLogStart(th) \/ PutLogged(th)
           \/ PutLogFails(th) \/ Note(th) \/ CommitFlush(th) \/ CommitRelease(th)
           \/ \E t \in Txns : CommitLog(th, t) \/ EndNotLogged(th, t) \/ Abort(th, t)
  BY <1>4 DEF Begin, Start, Acquire, Wake, Refused, PutLogStart, PutLogged, PutLogFails,
              PutLogEnds, Note, CommitFlush, CommitRelease, CommitLog, EndNotLogged, Abort
<1> QED
  BY <1>1, <1>2, <1>3, <1>4 DEF ThreadStep

\* Transactions begin and end in three functions only (transaction.cpp:12-98).
LEMMA TxnStep ==
  ASSUME NEW th \in Threads, ThreadStep(th)
  PROVE  \/ UNCHANGED <<activeTxns, nextTxnId, mine, ended>>
         \/ Begin(th)
         \/ CommitRelease(th)
         \/ \E t \in Txns : Abort(th, t)
BY DEF ThreadStep, Start, Acquire, Wake, Refused, PutLogStart, PutLogged, PutLogFails, PutLogEnds,
       PutStore, GetRead, Note, DeleteApply, DeleteTooLate, DeleteLogFails, DeleteNotFound,
       DeleteFound, Deleting, CommitFlush, CommitLog, EndNotLogged, Goto, Finish

\* What a thread works on it has chosen when it was idle and the transaction
\* active, and keeps until it is idle again.
LEMMA OperationStep ==
  ASSUME TMTypeOK, NEW th \in Threads, ThreadStep(th), NEW u \in Threads, pc'[u] # "idle"
  PROVE  \/ pc[u] # "idle" /\ op'[u] = op[u]
         \/ /\ u = th /\ pc[u] = "idle" /\ May(u, op'[u].txn) /\ op'[u].txn \in activeTxns
            /\ UNCHANGED <<activeTxns, nextTxnId, mine>>
<1>1. CASE u # th
  BY <1>1, OtherThreads
<1>2. CASE u = th
  <2>1. ASSUME NEW kind \in {"put", "get", "delete"}, NEW t \in Txns, NEW k \in Keys,
               Start(th, kind, t, k)
        PROVE  /\ pc[th] = "idle" /\ May(th, op'[th].txn) /\ op'[th].txn \in activeTxns
               /\ UNCHANGED <<activeTxns, nextTxnId, mine>>
    BY <2>1 DEF Start, TMTypeOK
  <2>2. ASSUME NEW t \in Txns, CommitLog(th, t)
        PROVE  /\ pc[th] = "idle" /\ May(th, op'[th].txn) /\ op'[th].txn \in activeTxns
               /\ UNCHANGED <<activeTxns, nextTxnId, mine>>
    BY <1>2, <2>2 DEF CommitLog, TMTypeOK
  <2>3. CASE Begin(th) \/ \E t \in Txns : Abort(th, t) \/ EndNotLogged(th, t)
    BY <1>2, <2>3 DEF Begin, Abort, EndNotLogged, TMTypeOK
  <2>4. CASE \/ Acquire(th) \/ Wake(th) \/ Refused(th) \/ PutLogStart(th) \/ PutLogged(th)
             \/ PutLogFails(th) \/ Note(th)
    BY <1>2, <2>4 DEF Acquire, Wake, Refused, PutLogStart, PutLogged, PutLogFails, PutLogEnds,
                      Note, Goto, Finish, TMTypeOK, Resume, ResumeCancelled, ResumeWait,
                      ResumeGrant, SpuriousWakeup, Awake, Acquired, Control
  <2>5. CASE PutStore(th) \/ GetRead(th) \/ DeleteApply(th) \/ CommitFlush(th) \/ CommitRelease(th)
    BY <1>2, <2>5 DEF PutStore, GetRead, DeleteApply, DeleteTooLate, DeleteLogFails,
                      DeleteNotFound, DeleteFound, Deleting, Acquired, CommitFlush, CommitRelease,
                      Goto, Finish, TMTypeOK
  <2> QED
    BY <1>2, <2>1, <2>2, <2>3, <2>4, <2>5 DEF ThreadStep
<1> QED
  BY <1>1, <1>2

------------------------------------------------------------------------------
(* Ids.  A transaction that has ended does not become active again in its    *)
(* run of the program (transaction.cpp:17), and without sharing a thread is   *)
(* never in an operation of a transaction that has ended.                    *)

Ids ==
  /\ nextTxnId > INVALID_TXN_ID
  /\ \A t \in activeTxns : t < nextTxnId
  /\ \A th \in Threads : mine[th] < nextTxnId
  /\ \A th \in Threads : pc[th] # "idle" => op[th].txn < nextTxnId
  /\ \A k \in Keys : \A t \in readers[k] \cup writers[k] : t < nextTxnId
  /\ \A e \in order : e[1] < nextTxnId

\* Each thread works for a transaction of its own.
OwnTxns ==
  /\ \A th \in Threads : pc[th] # "idle" => op[th].txn = mine[th] /\ mine[th] \in activeTxns
  /\ \A th, u \in Threads : mine[th] = mine[u] /\ mine[th] # INVALID_TXN_ID => th = u

\* What a read leaves behind ...
LEMMA ReadNoted ==
  ASSUME TMTypeOK, NEW t \in Txns, NEW k \in Keys, NoteRead(t, k)
  PROVE  /\ writers' = writers
         /\ \A l \in Keys : \A u \in readers'[l] : u \in readers[l] \/ (u = t /\ l = k)
         /\ \A e \in order' : e \in order \/ (e[2] = t /\ e[1] # t /\ e[1] \in writers[k])
BY DEF NoteRead, TMTypeOK

\* ... and what a write does.
LEMMA WriteNoted ==
  ASSUME TMTypeOK, NEW t \in Txns, NEW k \in Keys, NoteWrite(t, k)
  PROVE  /\ readers' = readers
         /\ \A l \in Keys : \A u \in writers'[l] : u \in writers[l] \/ (u = t /\ l = k)
         /\ \A e \in order' :
              e \in order \/ (e[2] = t /\ e[1] # t /\ e[1] \in readers[k] \cup writers[k])
BY DEF NoteWrite, TMTypeOK

\* The ids in use are numbers, in this state and in the next.
LEMMA IdTypes ==
  ASSUME TMTypeOK, TMTypeOK'
  PROVE  /\ nextTxnId \in Nat /\ nextTxnId' \in Nat /\ Txns \subseteq Nat
         /\ INVALID_TXN_ID \in Nat /\ activeTxns \subseteq Nat
         /\ \A th \in Threads : mine[th] \in Nat
         /\ \A k \in Keys : readers[k] \subseteq Nat /\ writers[k] \subseteq Nat
         /\ \A e \in order : e[1] \in Nat
<1>1. Txns \subseteq Nat /\ INVALID_TXN_ID \in Nat
  BY TransactionManagerAssumption DEF INVALID_TXN_ID
<1> QED
  BY <1>1 DEF TMTypeOK

\* Ids are given out in ascending order.
LEMMA IdsStep ==
  ASSUME TMTypeOK, Control, Ids, [TMNext]_vars
  PROVE  Ids'
<1>n. TMTypeOK'
  BY TMTypeStep
<1>1. CASE UNCHANGED vars
  BY <1>1 DEF Ids, vars
<1>2. ASSUME NEW th \in Threads, ThreadStep(th) PROVE Ids'
  <2>1. nextTxnId' \in Nat /\ nextTxnId <= nextTxnId' /\ nextTxnId \in Nat
    <3>1. nextTxnId' = nextTxnId \/ nextTxnId' = nextTxnId + 1
      BY <1>2, TxnStep DEF Begin, CommitRelease, Abort
    <3> QED
      BY <3>1, <1>n, IdTypes
  <2>2. nextTxnId' > INVALID_TXN_ID
    BY <2>1 DEF Ids, INVALID_TXN_ID
  <2>3. ASSUME NEW t \in activeTxns' PROVE t < nextTxnId'
    <3>1. t \in activeTxns \/ (t = nextTxnId /\ nextTxnId' = nextTxnId + 1)
      BY <1>2, TxnStep DEF Begin, CommitRelease, Abort
    <3> QED
      BY <1>n, <2>1, <3>1, IdTypes DEF Ids
  <2>4. ASSUME NEW u \in Threads PROVE mine'[u] < nextTxnId'
    <3>1. CASE mine'[u] = mine[u]
      BY <1>n, <2>1, <3>1, IdTypes DEF Ids
    <3>2. CASE mine'[u] # mine[u]
      <4>1. UNCHANGED mine \/ Begin(th)
        BY <1>2, TxnStep DEF CommitRelease, Abort, Finish
      <4>2. /\ nextTxnId' = nextTxnId + 1
            /\ mine' \in {[mine EXCEPT ![th] = nextTxnId], [mine EXCEPT ![th] = INVALID_TXN_ID]}
        BY <3>2, <4>1 DEF Begin
      <4>3. mine'[u] = nextTxnId \/ mine'[u] = INVALID_TXN_ID
        BY <3>2, <4>2 DEF TMTypeOK
      <4> QED
        BY <2>1, <4>2, <4>3 DEF INVALID_TXN_ID
    <3> QED
      BY <3>1, <3>2
  <2>5. ASSUME NEW u \in Threads, pc'[u] # "idle" PROVE op'[u].txn < nextTxnId'
    <3>1. op'[u].txn < nextTxnId
      BY <1>2, <2>5, OperationStep DEF Ids
    <3>2. op'[u].txn \in Nat
      <4>1. op'[u] \in Operations
        BY <1>n, <2>5 DEF TMTypeOK
      <4> QED
        BY <1>n, <4>1, IdTypes DEF Operations
    <3> QED
      BY <2>1, <3>1, <3>2
  <2>6. ASSUME NEW k \in Keys, NEW t \in readers'[k] \cup writers'[k] PROVE t < nextTxnId'
    <3>1. t \in readers[k] \cup writers[k] \/ (t = op[th].txn /\ pc[th] # "idle")
      BY <1>2, AccessStep, ReadNoted, WriteNoted DEF Armed, Acquired
    <3>2. t < nextTxnId
      BY <3>1 DEF Ids
    <3>3. t \in Nat
      BY <1>n, IdTypes DEF TMTypeOK
    <3> QED
      BY <2>1, <3>2, <3>3
  <2>7. ASSUME NEW e \in order' PROVE e[1] < nextTxnId'
    <3>1. e \in order \/ \E k \in Keys : e[1] \in readers[k] \cup writers[k]
      BY <1>2, AccessStep, ReadNoted, WriteNoted
    <3>2. e[1] < nextTxnId
      BY <3>1 DEF Ids
    <3>3. e[1] \in Nat
      BY <1>n, <3>1, IdTypes
    <3> QED
      BY <2>1, <3>2, <3>3
  <2> QED
    BY <2>2, <2>3, <2>4, <2>5, <2>6, <2>7 DEF Ids
<1>3. CASE Crash \/ Close
  BY <1>3, EndOfRunIsRestart DEF Restart, Ids, INVALID_TXN_ID
<1> QED
  BY <1>1, <1>2, <1>3, TMStepCases

\* beginTransaction never hands out an id twice in a run.
THEOREM IdsAreFresh == TMSpec => []Ids
<1>1. TMInit => Ids
  BY DEF TMInit, Ids, INVALID_TXN_ID
<1> QED
  BY <1>1, IdsStep, TMTypeCorrect, PTL DEF TMSpec

\* A thread ends its transaction when it is in no operation of it.
LEMMA OwnTxnsStep ==
  ASSUME ~Sharing, TMTypeOK, Control, Ids, OwnTxns, [TMNext]_vars
  PROVE  OwnTxns'
<1>n. TMTypeOK' /\ nextTxnId \in Nat /\ activeTxns \subseteq Nat \ {INVALID_TXN_ID}
  BY TMTypeStep, IdTypes, TransactionManagerAssumption DEF TMTypeOK
<1>1. CASE UNCHANGED vars
  BY <1>1 DEF OwnTxns, vars
<1>2. ASSUME NEW th \in Threads, ThreadStep(th) PROVE OwnTxns'
  <2>1. CASE UNCHANGED <<activeTxns, nextTxnId, mine>>
    BY <1>2, <2>1, OperationStep DEF OwnTxns, May
  <2>2. CASE Begin(th)
    <3>1. /\ nextTxnId \in Txns /\ pc[th] = "idle" /\ UNCHANGED <<pc, op>>
          /\ activeTxns' = activeTxns \cup {nextTxnId}
          /\ mine' \in {[mine EXCEPT ![th] = nextTxnId], [mine EXCEPT ![th] = INVALID_TXN_ID]}
      BY <2>2 DEF Begin
    <3>2. \A u \in Threads : mine'[u] = IF u = th THEN mine'[th] ELSE mine[u]
      BY <3>1 DEF TMTypeOK
    <3>3. mine'[th] \in {nextTxnId, INVALID_TXN_ID}
      BY <3>1 DEF TMTypeOK
    <3>4. \A u \in Threads : mine[u] # nextTxnId
      BY <1>n, IdTypes DEF Ids
    <3>5. ASSUME NEW u \in Threads, pc'[u] # "idle"
          PROVE  op'[u].txn = mine'[u] /\ mine'[u] \in activeTxns'
      BY <3>1, <3>2, <3>5 DEF OwnTxns
    <3>6. ASSUME NEW u \in Threads, NEW v \in Threads,
                 mine'[u] = mine'[v], mine'[u] # INVALID_TXN_ID
          PROVE  u = v
      BY <3>2, <3>3, <3>4, <3>6 DEF OwnTxns
    <3> QED
      BY <3>5, <3>6 DEF OwnTxns
  <2>3. CASE CommitRelease(th) \/ \E t \in Txns : Abort(th, t)
    <3>1. PICK t \in Txns :
            /\ activeTxns' = activeTxns \ {t} /\ t = mine[th] /\ pc'[th] = "idle"
            /\ UNCHANGED mine
      <4>1. CASE CommitRelease(th)
        BY <4>1, OperationType DEF CommitRelease, Finish, OwnTxns, TMTypeOK
      <4>2. CASE \E t \in Txns : Abort(th, t)
        BY <4>2 DEF Abort, May
      <4> QED
        BY <2>3, <4>1, <4>2
    <3>2. ASSUME NEW u \in Threads, pc'[u] # "idle"
          PROVE  op'[u].txn = mine'[u] /\ mine'[u] \in activeTxns'
      <4>1. u # th /\ pc[u] # "idle" /\ op'[u] = op[u]
        BY <1>2, <3>1, <3>2, OtherThreads
      <4>2. op[u].txn = mine[u] /\ mine[u] \in activeTxns /\ mine[u] # INVALID_TXN_ID
        BY <1>n, <4>1 DEF OwnTxns
      <4>3. mine[u] # mine[th]
        BY <4>1, <4>2 DEF OwnTxns
      <4> QED
        BY <3>1, <4>1, <4>2, <4>3
    <3> QED
      BY <3>1, <3>2 DEF OwnTxns
  <2> QED
    BY <1>2, <2>1, <2>2, <2>3, TxnStep
<1>3. CASE Crash \/ Close
  BY <1>3, EndOfRunIsRestart DEF Restart, OwnTxns
<1> QED
  BY <1>1, <1>2, <1>3, TMStepCases

\* Without sharing, a transaction does not end under an operation of its own.
THEOREM OperationsAreOwn == ASSUME ~Sharing PROVE TMSpec => []OwnTxns
<1>1. TMInit => OwnTxns
  BY DEF TMInit, OwnTxns
<1> QED
  BY <1>1, OwnTxnsStep, TMTypeCorrect, IdsAreFresh, PTL DEF TMSpec

------------------------------------------------------------------------------
(* Who holds a lock.  A waiting call is the one of the thread's operation, a  *)
(* lock is granted for an operation under way, and it goes with all others   *)
(* of its transaction.                                                       *)

CallIsOp ==
  \A th \in Threads : Waiting(th) =>
    call[th] = [txn |-> op[th].txn, key |-> op[th].key, type |-> Lock(op[th].kind)]

\* t has a lock on k that lets it do what a lock of this type is for.
Holds(t, k, type) ==
  \E r \in granted[k] : r.txn = t /\ (r.type = "EXCLUSIVE" \/ type = "SHARED")

\* A thread waits for the lock that its operation needs.
LEMMA CallIsOpStep ==
  ASSUME TMTypeOK, Control, CallIsOp, [TMNext]_vars
  PROVE  CallIsOp'
<1>1. CASE UNCHANGED vars
  BY <1>1 DEF CallIsOp, Waiting, vars, lockVars
<1>2. ASSUME NEW th \in Threads, ThreadStep(th) PROVE CallIsOp'
  <2> SUFFICES ASSUME NEW u \in Threads, Waiting(u)'
               PROVE  call'[u] = [txn  |-> op'[u].txn, key |-> op'[u].key,
                                  type |-> Lock(op'[u].kind)]
    BY DEF CallIsOp
  <2>1. CASE u # th
    BY <1>2, <2>1, OtherCalls, OtherThreads DEF CallIsOp, Waiting
  <2>2. CASE u = th
    <3>1. CASE Acquire(th)
      BY <2>2, <3>1 DEF Acquire, Goto, AcquireLock, AcquireHeld, AcquireDeadlock, AcquireGrant,
                        AcquireWait, Return, Waiting, TMTypeOK, TypeOK
    <3>2. CASE call'[th] = call[th] /\ ~Acquire(th)
      <4>1. Waiting(th) /\ pc[th] = "acquired"
        BY <2>2, <3>2 DEF Waiting, Control
      <4>2. Control'
        BY ControlStep
      <4>3. op'[th] = op[th]
        BY <1>2, <2>2, <4>1, <4>2, OperationStep DEF Control
      <4> QED
        BY <2>2, <3>2, <4>1, <4>3 DEF CallIsOp
    <3>3. CASE Wake(th) \/ \E t : ReleaseAllLocks(th, t)
      <4>1. call'[th] = call[th] \/ call'[th] = NoCall
        BY <3>3 DEF Wake, Resume, ResumeCancelled, ResumeWait, ResumeGrant, SpuriousWakeup,
                    ReleaseAllLocks, Return, TMTypeOK, TypeOK
      <4> QED
        BY <2>2, <3>1, <3>2, <4>1 DEF Waiting
    <3> QED
      BY <1>2, <3>1, <3>2, <3>3, LockUse DEF lockVars
  <2> QED
    BY <2>1, <2>2
<1>3. CASE Crash \/ Close
  BY <1>3, EndOfRunIsRestart DEF Restart, CallIsOp, Waiting
<1> QED
  BY <1>1, <1>2, <1>3, TMStepCases

\* acquireLock grants at most the lock it was asked for, and takes none away.
LEMMA AcquireGrants ==
  ASSUME TMTypeOK, Control, CallIsOp, NEW th \in Threads, Acquire(th) \/ Wake(th)
  PROVE  /\ op[th].txn \in Txns /\ op[th].key \in Keys /\ Lock(op[th].kind) \in LockType
         /\ InOperation(th) /\ pc'[th] = "acquired" /\ op' = op
         /\ Wake(th) => Waiting(th)
         /\ \/ UNCHANGED <<granted, txnLocks>>
            \/ /\ Granting(op[th].txn, op[th].key, Lock(op[th].kind))
               /\ ok'[th] /\ call'[th] = NoCall
<1> DEFINE Granted(t, k, type) ==
             \/ UNCHANGED <<granted, txnLocks>>
             \/ Granting(t, k, type) /\ ok'[th] /\ call'[th] = NoCall
<1>1. Wake(th) => Waiting(th)
  BY DEF Wake, Resume, ResumeCancelled, ResumeWait, ResumeGrant, Awake, SpuriousWakeup,
         TMTypeOK, TypeOK
<1>2. InOperation(th) /\ pc'[th] = "acquired" /\ op' = op
  BY <1>1 DEF Acquire, Wake, Goto, InOperation, Control, TMTypeOK
<1>3. op[th].txn \in Txns /\ op[th].key \in Keys
  BY <1>2, OperationType DEF InOperation
<1>4. Lock(op[th].kind) \in LockType
  BY DEF Lock, LockType
<1>5. ASSUME NEW t, NEW k, NEW type, NEW q, NEW w,
             CanGrantLock(k, type), GrantLock(t, k, type, q, w), Return(th, TRUE)
      PROVE  Granted(t, k, type)
  BY <1>5 DEF GrantLock, Granting, Return, TMTypeOK, TypeOK
<1>6. CASE Acquire(th)
  <2> DEFINE t == op[th].txn
  <2> DEFINE k == op[th].key
  <2> DEFINE type == Lock(op[th].kind)
  <2>1. AcquireLock(th, t, k, type)
    BY <1>6 DEF Acquire
  <2>2. CASE AcquireGrant(th, t, k, type)
    <3>1. /\ CanGrantLock(k, type) /\ Return(th, TRUE)
          /\ GrantLock(t, k, type, Enqueued(t, k, type), Registered(t, k))
      BY <2>2 DEF AcquireGrant
    <3>2. Granted(t, k, type)
      BY <3>1, <1>5
    <3> QED
      BY <1>1, <1>2, <1>3, <1>4, <3>2
  <2>3. CASE ~AcquireGrant(th, t, k, type)
    <3>1. UNCHANGED <<granted, txnLocks>>
      BY <2>1, <2>3 DEF AcquireLock, AcquireHeld, AcquireDeadlock, AcquireWait, tableVars
    <3> QED
      BY <1>1, <1>2, <1>3, <1>4, <3>1
  <2> QED
    BY <2>2, <2>3
<1>7. CASE Wake(th)
  <2>1. call[th].txn = op[th].txn /\ call[th].key = op[th].key
        /\ call[th].type = Lock(op[th].kind)
    <3>1. call[th] = [txn |-> op[th].txn, key |-> op[th].key, type |-> Lock(op[th].kind)]
      BY <1>1, <1>7, Zenon DEF CallIsOp
    <3> QED
      BY <3>1
  <2>2. Granted(call[th].txn, call[th].key, call[th].type)
    BY <1>5, <1>7 DEF Wake, Resume, ResumeCancelled, ResumeWait, ResumeGrant, SpuriousWakeup,
                      tableVars
  <2> QED
    BY <1>1, <1>2, <1>3, <1>4, <2>1, <2>2
<1> QED
  BY <1>6, <1>7

\* When acquireLock has returned true, the transaction has a lock that will do.
LEMMA AcquiredHolds ==
  ASSUME TMTypeOK, Control, CallIsOp, LocksOK, NEW th \in Threads, Acquire(th) \/ Wake(th),
         [TMNext]_vars, Acquired(th)', ok'[th]
  PROVE  Holds(op[th].txn, op[th].key, Lock(op[th].kind))'
<1> DEFINE t == op[th].txn
<1> DEFINE k == op[th].key
<1> DEFINE type == Lock(op[th].kind)
<1>0. op' = op /\ t \in Txns /\ k \in Keys /\ type \in LockType
  BY AcquireGrants
<1> SUFFICES \E r \in granted'[k] : r.txn = t /\ (r.type = "EXCLUSIVE" \/ type = "SHARED")
  BY <1>0 DEF Holds
<1>1. CASE Acquire(th)
  <2>1. AcquireLock(th, t, k, type)
    BY <1>1 DEF Acquire
  <2>2. CASE AcquireHeld(th, t, k, type)
    BY <2>2 DEF AcquireHeld, Held, tableVars
  <2>3. CASE AcquireDeadlock(th, t, k, type)
    BY <2>3 DEF AcquireDeadlock, Return, TMTypeOK, TypeOK
  <2>4. CASE AcquireGrant(th, t, k, type)
    <3>1. Enqueued(t, k, type)[k][Req(t, type)] > 0
      BY <1>0, EnqueuedType DEF TMTypeOK
    <3>2. granted' = [granted EXCEPT ![k] = @ \cup {Req(t, type)}]
      BY <2>4, <3>1 DEF AcquireGrant, GrantLock
    <3>3. Req(t, type) \in granted'[k]
      BY <1>0, <3>2 DEF TMTypeOK, TypeOK
    <3> QED
      BY <1>0, <3>3, ReqType DEF LockType
  <2>5. CASE AcquireWait(th, t, k, type)
    <3>1. call'[th] = [txn |-> t, key |-> k, type |-> type]
      BY <2>5 DEF AcquireWait, TMTypeOK, TypeOK
    <3>2. call'[th] # NoCall
      BY <1>0, <3>1, LockManagerAssumption DEF Calls
    <3> QED
      BY <3>2 DEF Acquired, Waiting
  <2> QED
    BY <2>1, <2>2, <2>3, <2>4, <2>5 DEF AcquireLock
<1>2. CASE Wake(th)
  <2>1. Waiting(th) /\ [Next]_lockVars
    BY <1>2, AcquireGrants DEF Wake, Next
  <2>2. \E r \in granted'[call[th].key] :
          r.txn = call[th].txn /\ (r.type = "EXCLUSIVE" \/ call[th].type = "SHARED")
    BY <2>1, TrueStep DEF Acquired, TMTypeOK, LocksOK
  <2>3. call[th] = [txn |-> t, key |-> k, type |-> type]
    BY <2>1, Zenon DEF CallIsOp
  <2> QED
    BY <2>2, <2>3
<1> QED
  BY <1>1, <1>2

\* Locks are released of a transaction that ends, or of one whose deletion does
\* not succeed.
LEMMA ReleaseUse ==
  ASSUME TMTypeOK, Control, NEW th \in Threads, ThreadStep(th)
  PROVE  \/ UNCHANGED lockVars
         \/ Acquire(th) \/ Wake(th)
         \/ \E t \in Txns : ReleaseAllLocks(th, t) /\ activeTxns' = activeTxns \ {t}
         \/ Deleting(th) /\ ReleaseAllLocks(th, op[th].txn)
<1>1. CASE CommitRelease(th)
  BY <1>1, OperationType DEF CommitRelease
<1>2. CASE ~CommitRelease(th)
  BY <1>2 DEF ThreadStep, Begin, Start, Refused, PutLogStart, PutLogged, PutLogFails, PutLogEnds,
              PutStore, GetRead, Note, DeleteApply, DeleteTooLate, DeleteLogFails,
              DeleteNotFound, DeleteFound, CommitFlush, CommitLog, EndNotLogged, Abort
<1> QED
  BY <1>1, <1>2

------------------------------------------------------------------------------
(* Nothing stays locked.  A transaction that has ended has locks only between *)
(* the grant to a deletion that came too late and the moment it finds out.    *)

LateDelete(t) ==
  \E th \in Threads : Acquired(th) /\ ok[th] /\ op[th].kind = "delete" /\ op[th].txn = t

\* No other ended transaction has a lock.
OnlyLateDeletes == \A t \in Txns \ activeTxns : txnLocks[t] # {} => LateDelete(t)

\* No thread is inside a put or a get of a transaction that another one ends.
EndsAlone == ~Sharing \/ Ops \cap {"put", "get"} = {}

\* The end of a transaction releases what it has, and nobody else locks for it.
LEMMA LateDeleteStep ==
  ASSUME EndsAlone, ~Sharing => OwnTxns, TMTypeOK, Control, CallIsOp, OnlyLateDeletes,
         [TMNext]_vars
  PROVE  OnlyLateDeletes'
<1>1. CASE UNCHANGED vars
  BY <1>1 DEF OnlyLateDeletes, LateDelete, Acquired, Waiting, vars, lockVars
<1>2. ASSUME NEW th \in Threads, ThreadStep(th) PROVE OnlyLateDeletes'
  <2> SUFFICES ASSUME NEW t \in Txns, t \notin activeTxns', txnLocks'[t] # {}
               PROVE  LateDelete(t)'
    BY DEF OnlyLateDeletes
  <2>1. CASE t \in activeTxns
    <3>1. ReleaseAllLocks(th, t)
      <4>1. CASE CommitRelease(th)
        BY <2>1, <4>1 DEF CommitRelease
      <4>2. CASE \E u \in Txns : Abort(th, u)
        BY <2>1, <4>2 DEF Abort
      <4> QED
        BY <1>2, <2>1, <4>1, <4>2, TxnStep DEF Begin
    <3> QED
      BY <3>1 DEF ReleaseAllLocks, TMTypeOK, TypeOK
  <2>2. ASSUME t \notin activeTxns, LateDelete(t) PROVE LateDelete(t)'
    <3>1. PICK u \in Threads : Acquired(u) /\ ok[u] /\ op[u].kind = "delete" /\ op[u].txn = t
      BY <2>2 DEF LateDelete
    <3>2. CASE u # th
      BY <1>2, <3>1, <3>2, OtherThreads, OtherCalls DEF LateDelete, Acquired, Waiting
    <3>3. CASE u = th
      <4>1. ~Wake(th)
        BY <3>1, <3>3, AcquireGrants DEF Acquired
      <4>2. DeleteTooLate(th)
        BY <1>2, <2>2, <3>1, <3>3, <4>1
           DEF ThreadStep, Begin, Start, Acquire, Refused, PutLogStart, PutLogged, PutLogFails,
               PutLogEnds, PutStore, GetRead, Note, DeleteApply, DeleteLogFails, DeleteNotFound,
               DeleteFound, CommitFlush, CommitRelease, CommitLog, EndNotLogged, Abort, Acquired
      <4>3. ReleaseAllLocks(th, t)
        BY <3>1, <3>3, <4>2 DEF DeleteTooLate
      <4> QED
        BY <4>3 DEF ReleaseAllLocks, TMTypeOK, TypeOK
    <3> QED
      BY <3>2, <3>3
  <2>3. CASE t \notin activeTxns /\ txnLocks[t] = {}
    <3>1. Acquire(th) \/ Wake(th)
      <4>1. txnLocks' # txnLocks
        BY <2>3
      <4>2. ASSUME NEW u, ReleaseAllLocks(th, u) PROVE FALSE
        BY <2>3, <4>2 DEF ReleaseAllLocks, TMTypeOK, TypeOK
      <4> QED
        BY <1>2, <4>1, <4>2, LockUse DEF lockVars
    <3>2. /\ op[th].txn \in Txns /\ InOperation(th) /\ pc'[th] = "acquired" /\ op' = op
          /\ Granting(op[th].txn, op[th].key, Lock(op[th].kind))
          /\ ok'[th] /\ call'[th] = NoCall
      BY <2>3, <3>1, AcquireGrants
    <3>3. op[th].txn = t
      BY <2>3, <3>2 DEF Granting, TMTypeOK, TypeOK
    <3>4. op[th].kind = "delete"
      <4>1. ~OwnTxns
        BY <2>3, <3>2, <3>3 DEF OwnTxns, InOperation
      <4>2. Ops \cap {"put", "get"} = {}
        BY <4>1 DEF EndsAlone
      <4>3. op[th].kind \in {"put", "get", "delete"} \cap Ops
        BY <3>2 DEF Control
      <4> QED
        BY <4>2, <4>3
    <3> QED
      BY <3>2, <3>3, <3>4 DEF LateDelete, Acquired, Waiting
  <2> QED
    BY <2>1, <2>2, <2>3 DEF OnlyLateDeletes
<1>3. CASE Crash \/ Close
  BY <1>3, EndOfRunIsRestart DEF Restart, OnlyLateDeletes
<1> QED
  BY <1>1, <1>2, <1>3, TMStepCases

\* A waiting call is one of the thread's operation, for any number of threads.
LEMMA CallsAreOperations == TMSpec => []CallIsOp
<1>1. TMInit => CallIsOp
  BY DEF TMInit, Init, CallIsOp, Waiting
<1> QED
  BY <1>1, CallIsOpStep, TMTypeCorrect, PTL DEF TMSpec

\* Once a transaction has ended and no thread is inside an operation of it, it
\* has no locks, whatever deletions of it came too late or failed.  Of puts and
\* gets this needs that a transaction's own thread ends it: those of a shared
\* one may be granted a lock when it has ended, and keep it
\* (transaction.cpp:66, 93, 115, 159, 218-222).
THEOREM NothingStaysLocked == ASSUME EndsAlone PROVE TMSpec => []EndedHoldNothing
<1>1. TMInit => OnlyLateDeletes
  BY DEF TMInit, Init, OnlyLateDeletes
<1>2. OnlyLateDeletes => EndedHoldNothing
  BY DEF OnlyLateDeletes, LateDelete, EndedHoldNothing, Acquired
<1>3. TMSpec => [](~Sharing => OwnTxns)
  <2>1. CASE Sharing
    BY <2>1, PTL
  <2>2. CASE ~Sharing
    BY <2>2, OperationsAreOwn, PTL
  <2> QED
    BY <2>1, <2>2
<1> QED
  BY <1>1, <1>2, <1>3, LateDeleteStep, TMTypeCorrect, CallsAreOperations, PTL DEF TMSpec

------------------------------------------------------------------------------
(* Two-phase locking.  A thread that has passed acquireLocks has its lock for *)
(* as long as its transaction is active, since only the end of a transaction  *)
(* or a deletion takes locks away.                                           *)

Guarded ==
  \A th \in Threads : Armed(th) /\ op[th].txn \in activeTxns
    => Holds(op[th].txn, op[th].key, Lock(op[th].kind))

\* A lock stays with a transaction that does.
LEMMA LockKept ==
  ASSUME "delete" \notin Ops, TMTypeOK, Control, CallIsOp, NEW th \in Threads, ThreadStep(th),
         NEW k \in Keys, NEW r \in granted[k], r.txn \in activeTxns'
  PROVE  r \in granted'[k]
<1>1. CASE UNCHANGED lockVars
  BY <1>1 DEF lockVars
<1>2. CASE Acquire(th) \/ Wake(th)
  <2>1. \/ UNCHANGED granted
        \/ Granting(op[th].txn, op[th].key, Lock(op[th].kind))
    BY <1>2, AcquireGrants
  <2>2. granted \in [Keys -> SUBSET Requests]
    BY DEF TMTypeOK, TypeOK
  <2> QED
    BY <2>1, <2>2 DEF Granting
<1>3. CASE \E t \in Txns : ReleaseAllLocks(th, t) /\ activeTxns' = activeTxns \ {t}
  BY <1>3 DEF ReleaseAllLocks, Without, TMTypeOK, TypeOK
<1>4. ~Deleting(th)
  BY DEF Deleting, Acquired, Control, InOperation
<1> QED
  BY <1>1, <1>2, <1>3, <1>4, ReleaseUse

\* A thread is armed by acquireLocks, and stays so with the same operation.
LEMMA ArmedStep ==
  ASSUME TMTypeOK, Control, NEW th \in Threads, ThreadStep(th), NEW u \in Threads, Armed(u)'
  PROVE  \/ Armed(u) /\ op'[u] = op[u]
         \/ u = th /\ (Acquire(th) \/ Wake(th))
<1>1. CASE u # th
  BY <1>1, OtherThreads, OtherCalls DEF Armed, Acquired, Waiting
<1>2. CASE u = th /\ ~Acquire(th) /\ ~Wake(th)
  <2>1. pc'[th] \in {"acquired", "logging", "store", "note"}
    BY <1>2 DEF Armed, Acquired
  <2>2. ~CommitFlush(th) /\ ~CommitRelease(th) /\ ~DeleteApply(th) /\ ~Refused(th)
        /\ ~PutLogFails(th) /\ ~Note(th)
    BY <2>1 DEF CommitFlush, CommitRelease, DeleteApply, DeleteTooLate, DeleteLogFails,
                DeleteNotFound, DeleteFound, Deleting, Refused, PutLogFails, Note, Goto, Finish,
                TMTypeOK
  <2>3. /\ ~Begin(th)
        /\ \A kind \in {"put", "get", "delete"}, t \in Txns, k \in Keys : ~Start(th, kind, t, k)
        /\ \A t \in Txns : ~CommitLog(th, t) /\ ~EndNotLogged(th, t) /\ ~Abort(th, t)
    BY <2>1 DEF Begin, Start, CommitLog, EndNotLogged, Abort, TMTypeOK
  <2>4. PutLogStart(th) \/ PutLogged(th) \/ PutStore(th) \/ GetRead(th)
    BY <1>2, <2>2, <2>3 DEF ThreadStep
  <2>5. Armed(th)
    BY <2>4 DEF PutLogStart, PutLogged, PutLogEnds, PutStore, GetRead, Armed
  <2>6. op'[th] = op[th]
    BY <2>1, <2>4 DEF PutLogStart, PutLogged, PutStore, GetRead, Goto, Finish, TMTypeOK
  <2> QED
    BY <1>2, <2>5, <2>6
<1> QED
  BY <1>1, <1>2

\* What is under way when a transaction begins is not its own.
LEMMA StaysActive ==
  ASSUME TMTypeOK, Ids, NEW th \in Threads, ThreadStep(th),
         NEW t, t \in activeTxns', t # nextTxnId
  PROVE  t \in activeTxns
BY TxnStep DEF Begin, CommitRelease, Abort

\* No step takes the lock away that a thread is working under.
LEMMA GuardedStep ==
  ASSUME "delete" \notin Ops, TMTypeOK, Control, Ids, CallIsOp, LocksOK, Guarded, [TMNext]_vars
  PROVE  Guarded'
<1>1. CASE UNCHANGED vars
  BY <1>1 DEF Guarded, Armed, Acquired, Holds, Waiting, vars, lockVars
<1>2. ASSUME NEW th \in Threads, ThreadStep(th) PROVE Guarded'
  <2> SUFFICES ASSUME NEW u \in Threads, Armed(u)', op'[u].txn \in activeTxns'
               PROVE  Holds(op[u].txn, op[u].key, Lock(op[u].kind))'
    BY DEF Guarded
  <2>1. CASE Armed(u) /\ op'[u] = op[u]
    <3>1. /\ op[u].txn \in Txns /\ op[u].key \in Keys
          /\ op[u].txn < nextTxnId
      BY <2>1, OperationType DEF Armed, Acquired, InOperation, Ids
    <3>2. op[u].txn # nextTxnId
      BY <3>1, TransactionManagerAssumption
    <3>3. op[u].txn \in activeTxns
      BY <1>2, <2>1, <3>2, StaysActive
    <3>4. Holds(op[u].txn, op[u].key, Lock(op[u].kind))
      BY <2>1, <3>3 DEF Guarded
    <3>5. PICK r \in granted[op[u].key] :
            r.txn = op[u].txn /\ (r.type = "EXCLUSIVE" \/ Lock(op[u].kind) = "SHARED")
      BY <3>4 DEF Holds
    <3>6. r \in granted'[op[u].key]
      BY <1>2, <2>1, <3>1, <3>5, LockKept
    <3> QED
      BY <2>1, <3>5, <3>6 DEF Holds
  <2>2. CASE u = th /\ (Acquire(th) \/ Wake(th))
    <3>1. Acquired(th)' /\ ok'[th]
      BY <2>2, AcquireGrants DEF Armed
    <3> QED
      BY <2>2, <3>1, AcquiredHolds
  <2> QED
    BY <1>2, <2>1, <2>2, ArmedStep
<1>3. CASE Crash \/ Close
  BY <1>3, EndOfRunIsRestart DEF Restart, Guarded, Armed, Acquired
<1> QED
  BY <1>1, <1>2, <1>3, TMStepCases

\* The read and write sets grow at the end of an operation, and are empty when
\* the transaction begins.
LEMMA SetsStep ==
  ASSUME "delete" \notin Ops, TMTypeOK, Control, NEW th \in Threads, ThreadStep(th),
         NEW t \in activeTxns', NEW k
  PROVE  /\ k \in writeSet'[t] =>
              \/ k \in writeSet[t] /\ t \in activeTxns
              \/ Armed(th) /\ op[th].kind = "put" /\ t = op[th].txn /\ k = op[th].key /\ Note(th)
         /\ k \in readSet'[t] =>
              \/ k \in readSet[t] /\ t \in activeTxns
              \/ Armed(th) /\ op[th].kind = "get" /\ t = op[th].txn /\ k = op[th].key /\ Note(th)
<1>0. t \in Txns
  BY TMTypeStep DEF TMTypeOK, TMNext
<1>1. CASE Begin(th)
  BY <1>0, <1>1 DEF Begin, TMTypeOK
<1>2. CASE Note(th)
  BY <1>0, <1>2 DEF Note, Armed, TMTypeOK
<1>3. CASE ~Begin(th) /\ ~Note(th)
  <2>1. UNCHANGED <<writeSet, readSet>> /\ activeTxns' \subseteq activeTxns
    <3>1. ~DeleteApply(th)
      BY DEF DeleteApply, DeleteTooLate, DeleteLogFails, DeleteNotFound, DeleteFound, Deleting,
             Acquired, Control, InOperation
    <3> QED
      BY <1>3, <3>1 DEF ThreadStep, Start, Acquire, Wake, Refused, PutLogStart, PutLogged,
                        PutLogFails, PutLogEnds, PutStore, GetRead, CommitFlush, CommitRelease,
                        CommitLog, EndNotLogged, Abort
  <2> QED
    BY <2>1
<1> QED
  BY <1>1, <1>2, <1>3

\* A lock goes when its transaction ends.
LEMMA TwoPhaseStep ==
  ASSUME "delete" \notin Ops, TMTypeOK, Control, CallIsOp, Guarded, TwoPhase, [TMNext]_vars
  PROVE  TwoPhase'
<1>1. CASE UNCHANGED vars
  BY <1>1 DEF TwoPhase, vars, lockVars
<1>2. ASSUME NEW th \in Threads, ThreadStep(th) PROVE TwoPhase'
  <2> SUFFICES ASSUME NEW t \in activeTxns'
               PROVE  /\ \A k \in writeSet'[t] : Req(t, "EXCLUSIVE") \in granted'[k]
                      /\ \A k \in readSet'[t] : \E r \in granted'[k] : r.txn = t
    BY DEF TwoPhase
  <2>0. TMTypeOK' /\ t \in Txns
    BY TMTypeStep DEF TMTypeOK
  <2>1. ASSUME NEW k \in writeSet'[t] PROVE Req(t, "EXCLUSIVE") \in granted'[k]
    <3>1. k \in Keys
      BY <2>0 DEF TMTypeOK
    <3>2. CASE k \in writeSet[t] /\ t \in activeTxns
      <4>1. Req(t, "EXCLUSIVE") \in granted[k]
        BY <3>2 DEF TwoPhase
      <4> QED
        BY <1>2, <3>1, <4>1, LockKept DEF Req
    <3>3. CASE Armed(th) /\ op[th].kind = "put" /\ t = op[th].txn /\ k = op[th].key /\ Note(th)
      <4>1. UNCHANGED <<granted, activeTxns>>
        BY <3>3 DEF Note, lockVars
      <4>2. PICK r \in granted[k] : r.txn = t /\ r.type = "EXCLUSIVE"
        BY <3>3, <4>1 DEF Guarded, Holds, Lock
      <4>3. r = Req(t, "EXCLUSIVE")
        BY <3>1, <4>2 DEF TMTypeOK, TypeOK, Requests, Req
      <4> QED
        BY <4>1, <4>2, <4>3
    <3> QED
      BY <1>2, <3>2, <3>3, SetsStep
  <2>2. ASSUME NEW k \in readSet'[t] PROVE \E r \in granted'[k] : r.txn = t
    <3>1. k \in Keys
      BY <2>0 DEF TMTypeOK
    <3>2. CASE k \in readSet[t] /\ t \in activeTxns
      <4>1. PICK r \in granted[k] : r.txn = t
        BY <3>2 DEF TwoPhase
      <4> QED
        BY <1>2, <3>1, <4>1, LockKept
    <3>3. CASE Armed(th) /\ op[th].kind = "get" /\ t = op[th].txn /\ k = op[th].key /\ Note(th)
      <4>1. UNCHANGED <<granted, activeTxns>>
        BY <3>3 DEF Note, lockVars
      <4> QED
        BY <3>3, <4>1 DEF Guarded, Holds
    <3> QED
      BY <1>2, <3>2, <3>3, SetsStep
  <2> QED
    BY <2>1, <2>2
<1>3. CASE Crash \/ Close
  BY <1>3, EndOfRunIsRestart DEF Restart, TwoPhase
<1> QED
  BY <1>1, <1>2, <1>3, TMStepCases

\* While a transaction is active, no lock on what it read or wrote is lost.
LEMMA LocksGuard == ASSUME "delete" \notin Ops PROVE TMSpec => []Guarded
<1>1. TMInit => Guarded
  BY DEF TMInit, Guarded, Armed, Acquired
<1> QED
  BY <1>1, GuardedStep, TMTypeCorrect, IdsAreFresh, CallsAreOperations, LocksHold, PTL DEF TMSpec

\* Puts and gets follow strict two-phase locking, also in transactions that
\* several threads share: what is in a read or write set stays locked until the
\* transaction ends (transaction.cpp:66, 93, 115-137, 159-180).  A deletion that
\* fails releases all locks, hence none here.
THEOREM LocksKeptToTheEnd == ASSUME "delete" \notin Ops PROVE TMSpec => []TwoPhase
<1>1. TMInit => TwoPhase
  BY DEF TMInit, TwoPhase
<1> QED
  BY <1>1, TwoPhaseStep, TMTypeCorrect, CallsAreOperations, LocksGuard, PTL DEF TMSpec

------------------------------------------------------------------------------
(* Serializability.  An active transaction has locked what it accessed, so     *)
(* whoever made a conflicting access before has ended: an access adds edges   *)
(* to the order that lead from ended transactions to an active one, and those *)
(* close no cycle.                                                           *)

AccessesLocked ==
  /\ \A k \in Keys : \A t \in activeTxns :
       /\ t \in writers[k] => Holds(t, k, "EXCLUSIVE")
       /\ t \in readers[k] => Holds(t, k, "SHARED")
  /\ \A e \in order : e[1] \notin activeTxns

\* Two transactions do not hold the same key if one holds it for writing.
LEMMA NoConflict ==
  ASSUME Exclusion, NEW k \in Keys, NEW t, NEW u, NEW type,
         Holds(t, k, "EXCLUSIVE"), Holds(u, k, type)
  PROVE  t = u
BY DEF Exclusion, Holds

\* An access is made under a lock of its kind.
LEMMA AccessUnderLock ==
  ASSUME OwnTxns, Guarded, NEW th \in Threads, Armed(th)
  PROVE  /\ op[th].txn \in activeTxns
         /\ Holds(op[th].txn, op[th].key, Lock(op[th].kind))
BY DEF OwnTxns, Guarded, Armed, Acquired

\* An access is made under its lock, and adds edges to an active transaction only.
LEMMA AccessesLockedStep ==
  ASSUME "delete" \notin Ops, TMTypeOK, Control, Ids, CallIsOp, LocksOK, OwnTxns, Guarded,
         AccessesLocked, NEW th \in Threads, ThreadStep(th)
  PROVE  /\ AccessesLocked'
         /\ \A e \in order' : e \in order \/ e[2] \in activeTxns'
<1>0. TMTypeOK'
  BY TMTypeStep DEF TMNext
<1> DEFINE t == op[th].txn
<1> DEFINE k == op[th].key
<1>1. ASSUME NEW l \in Keys, NEW u, u \in activeTxns', NEW type, Holds(u, l, type)
      PROVE  Holds(u, l, type)'
  BY <1>1, LockKept DEF Holds
<1>2. ASSUME NEW u \in activeTxns', u < nextTxnId PROVE u \in activeTxns
  <2>1. u # nextTxnId
    BY <1>0, <1>2, IdTypes
  <2> QED
    BY <2>1, StaysActive
<1>3. /\ \A l \in Keys : \A u \in readers[l] \cup writers[l] : u < nextTxnId
      /\ \A e \in order : e[1] < nextTxnId
  BY DEF Ids
<1>4. CASE UNCHANGED accesses
  <2>1. ASSUME NEW l \in Keys, NEW u \in activeTxns'
        PROVE  /\ u \in writers'[l] => Holds(u, l, "EXCLUSIVE")'
               /\ u \in readers'[l] => Holds(u, l, "SHARED")'
    BY <1>1, <1>2, <1>3, <1>4, <2>1 DEF AccessesLocked
  <2>2. \A e \in order' : e[1] \notin activeTxns'
    BY <1>2, <1>3, <1>4 DEF AccessesLocked
  <2> QED
    BY <1>4, <2>1, <2>2 DEF AccessesLocked
<1>5. ASSUME Armed(th), t \in Txns, k \in Keys, activeTxns' = activeTxns, NoteRead(t, k)
      PROVE  /\ AccessesLocked'
             /\ \A e \in order' : e \in order \/ e[2] \in activeTxns'
  <2>0. /\ writers' = writers
        /\ \A l \in Keys : \A u \in readers'[l] : u \in readers[l] \/ (u = t /\ l = k)
        /\ \A e \in order' : e \in order \/ (e[2] = t /\ e[1] # t /\ e[1] \in writers[k])
    BY <1>5, ReadNoted
  <2>1. t \in activeTxns /\ Holds(t, k, "SHARED")
    BY <1>5, AccessUnderLock DEF Holds
  <2>2. \A e \in order' : e[1] \in writers[k] /\ e[1] # t => e[1] \notin activeTxns
    BY <1>5, <2>1, NoConflict DEF AccessesLocked, LocksOK
  <2>3. ASSUME NEW l \in Keys, NEW u \in activeTxns'
        PROVE  /\ u \in writers'[l] => Holds(u, l, "EXCLUSIVE")'
               /\ u \in readers'[l] => Holds(u, l, "SHARED")'
    BY <1>1, <1>5, <2>0, <2>1, <2>3 DEF AccessesLocked
  <2>4. \A e \in order' : e[1] \notin activeTxns'
    BY <1>5, <2>0, <2>2 DEF AccessesLocked
  <2> QED
    BY <1>5, <2>0, <2>1, <2>3, <2>4 DEF AccessesLocked
<1>6. ASSUME Armed(th), t \in Txns, k \in Keys, activeTxns' = activeTxns, op[th].kind # "get",
             NoteWrite(t, k)
      PROVE  /\ AccessesLocked'
             /\ \A e \in order' : e \in order \/ e[2] \in activeTxns'
  <2>0. /\ readers' = readers
        /\ \A l \in Keys : \A u \in writers'[l] : u \in writers[l] \/ (u = t /\ l = k)
        /\ \A e \in order' :
             e \in order \/ (e[2] = t /\ e[1] # t /\ e[1] \in readers[k] \cup writers[k])
    BY <1>6, WriteNoted
  <2>1. t \in activeTxns /\ Holds(t, k, "EXCLUSIVE")
    BY <1>6, AccessUnderLock DEF Lock
  <2>2. \A e \in order' :
          e[1] \in readers[k] \cup writers[k] /\ e[1] # t => e[1] \notin activeTxns
    BY <1>6, <2>1, NoConflict DEF AccessesLocked, LocksOK
  <2>3. ASSUME NEW l \in Keys, NEW u \in activeTxns'
        PROVE  /\ u \in writers'[l] => Holds(u, l, "EXCLUSIVE")'
               /\ u \in readers'[l] => Holds(u, l, "SHARED")'
    BY <1>1, <1>6, <2>0, <2>1, <2>3 DEF AccessesLocked
  <2>4. \A e \in order' : e[1] \notin activeTxns'
    BY <1>6, <2>0, <2>2 DEF AccessesLocked
  <2> QED
    BY <1>6, <2>0, <2>1, <2>3, <2>4 DEF AccessesLocked
<1> QED
  BY <1>4, <1>5, <1>6, AccessStep

\* Such edges close no cycle.
LEMMA SerializableStep ==
  ASSUME "delete" \notin Ops, TMTypeOK, Control, Ids, CallIsOp, LocksOK, OwnTxns, Guarded,
         AccessesLocked, Serializable, [TMNext]_vars
  PROVE  AccessesLocked' /\ Serializable'
<1>1. CASE UNCHANGED vars
  BY <1>1 DEF AccessesLocked, Holds, Serializable, vars, lockVars
<1>2. ASSUME NEW th \in Threads, ThreadStep(th) PROVE AccessesLocked' /\ Serializable'
  <2>1. /\ AccessesLocked'
        /\ \A e \in order' : e \in order \/ e[2] \in activeTxns'
    BY <1>2, AccessesLockedStep
  <2>2. ASSUME NEW S \in SUBSET Txns, S # {}, \A t \in S : \E u \in S : <<t, u>> \in order'
        PROVE  FALSE
    <3>1. \A t \in S : t \notin activeTxns'
      BY <2>1, <2>2 DEF AccessesLocked
    <3>2. \A t \in S : \E u \in S : <<t, u>> \in order
      BY <2>1, <2>2, <3>1
    <3> QED
      BY <2>2, <3>2 DEF Serializable
  <2> QED
    BY <2>1, <2>2 DEF Serializable
<1>3. CASE Crash \/ Close
  BY <1>3, EndOfRunIsRestart DEF Restart, AccessesLocked, Serializable
<1> QED
  BY <1>1, <1>2, <1>3, TMStepCases

\* The accesses of puts and gets can be put in one order that agrees with every
\* conflict, when each transaction has a thread of its own (ARCHITECTURE.md:110;
\* transaction.cpp:115-137, 159-180).  A deletion that fails lets go of locks
\* too early, and a put of a shared transaction may go on after its end.
THEOREM PutsAndGetsSerializable ==
  ASSUME ~Sharing, "delete" \notin Ops
  PROVE  TMSpec => []Serializable
<1>1. TMInit => AccessesLocked /\ Serializable
  BY DEF TMInit, AccessesLocked, Serializable
<1> QED
  BY <1>1, SerializableStep, TMTypeCorrect, IdsAreFresh, CallsAreOperations, LocksHold,
     OperationsAreOwn, LocksGuard, PTL DEF TMSpec

------------------------------------------------------------------------------
(* What a step of a thread touches of the log and of the records *)

\* A thread only appends to the log, and synchronises all of it or nothing.
LEMMA LogGrows ==
  ASSUME TMTypeOK, Control, NEW th \in Threads, ThreadStep(th)
  PROVE  /\ run' = run /\ Len(wal) \in Nat /\ Len(wal') \in Nat /\ synced \in Nat
         /\ Len(wal) <= Len(wal') /\ synced <= Len(wal)
         /\ synced <= synced' /\ synced' <= Len(wal') /\ synced' \in Nat
         /\ \A i \in 1 .. Len(wal) : wal'[i] = wal[i]
<1>0. TMTypeOK'
  BY TMTypeStep DEF TMNext
<1>1. Len(wal) \in Nat /\ Len(wal') \in Nat /\ synced \in 0 .. Len(wal) /\ synced' \in 0 .. Len(wal')
  BY <1>0 DEF TMTypeOK
<1>2. run' = run
  BY DEF ThreadStep, Begin, Start, Acquire, Wake, Refused, PutLogStart, PutLogged, PutLogFails,
         PutLogEnds, PutStore, GetRead, Note, DeleteApply, DeleteTooLate, DeleteLogFails,
         DeleteNotFound, DeleteFound, Deleting, CommitFlush, CommitRelease, CommitLog,
         EndNotLogged, Abort
<1>3. UNCHANGED wal \/ \E e : wal' = Append(wal, e)
  BY DEF ThreadStep, Begin, Start, Acquire, Wake, Refused, PutLogStart, PutLogged, PutLogFails,
         PutLogEnds, PutStore, GetRead, Note, DeleteApply, DeleteTooLate, DeleteLogFails,
         DeleteNotFound, DeleteFound, Deleting, CommitFlush, CommitRelease, CommitLog,
         EndNotLogged, Abort,
         WriteLogEntry
<1>4. synced' = synced \/ synced' = Len(wal')
  BY DEF ThreadStep, Begin, Start, Acquire, Wake, Refused, PutLogStart, PutLogged, PutLogFails,
         PutLogEnds, PutStore, GetRead, Note, DeleteApply, DeleteTooLate, DeleteLogFails,
         DeleteNotFound, DeleteFound, Deleting, CommitFlush, CommitRelease, CommitLog,
         EndNotLogged, Abort,
         Flush
<1>5. /\ Len(wal) <= Len(wal')
      /\ \A i \in 1 .. Len(wal) : wal'[i] = wal[i]
  <2>1. wal \in Seq(LogEntries)
    BY DEF TMTypeOK
  <2> QED
    BY <1>3, <2>1
<1> QED
  BY <1>1, <1>2, <1>4, <1>5

\* Records change in putRecord, in deleteRecord and when flushAll writes them.
LEMMA StoreStep ==
  ASSUME NEW th \in Threads, ThreadStep(th)
  PROVE  \/ UNCHANGED <<cache, dirty, disk>>
         \/ /\ PutStore(th) /\ Put(op[th].txn, op[th].key)
            /\ dirty' = dirty \cup {op[th].key} /\ disk' = disk
         \/ DeleteFound(th)
         \/ CommitFlush(th)
BY DEF ThreadStep, Begin, Start, Acquire, Wake, Refused, PutLogStart, PutLogged, PutLogFails,
       PutLogEnds, PutStore, GetRead, Note, DeleteApply, DeleteTooLate, DeleteLogFails,
       DeleteNotFound, Deleting, CommitRelease, CommitLog,
         EndNotLogged, Abort

------------------------------------------------------------------------------
(* The log is ahead of the records *)

\* The log has this change.
Logged(by, k, type) ==
  \E i \in 1 .. Len(wal) : wal[i].by = by /\ wal[i].key = k /\ wal[i].type = type

\* The type of the entry for a record that is present, or is not.
ChangeType(present) == IF present THEN "PUT_RECORD" ELSE "DELETE_RECORD"

\* A thread that is about to store a record has logged it.
StoreLogged ==
  \A th \in Threads : pc[th] = "store" => Logged(Stamp(op[th].txn), op[th].key, "PUT_RECORD")

\* A record that only the cache has is in the log.
DirtyLogged ==
  \A k \in dirty :
    Logged(cache[k].by, k, ChangeType(cache[k].present))

\* What is in the log stays there while the run goes on.
LEMMA LoggedStays ==
  ASSUME TMTypeOK, Control, NEW th \in Threads, ThreadStep(th),
         NEW by, NEW k, NEW type, Logged(by, k, type)
  PROVE  Logged(by, k, type)'
BY LogGrows DEF Logged

\* An entry that is written is in the log.
LEMMA WrittenIsLogged ==
  ASSUME TMTypeOK, NEW type \in EntryTypes, NEW t \in Txns, NEW k \in Keys \cup {NoKey},
         NEW intact \in BOOLEAN, wal' = Append(wal, Entry(type, t, k, intact)),
         NEW by, by = Stamp(t)
  PROVE  Logged(by, k, type)'
<1>1. Entry(type, t, k, intact) \in LogEntries
  BY EntryType
<1>2. Len(wal') = Len(wal) + 1 /\ wal'[Len(wal) + 1] = Entry(type, t, k, intact)
  BY <1>1, LogType
<1>3. Len(wal) \in Nat
  BY DEF TMTypeOK
<1> QED
  BY <1>2, <1>3 DEF Logged, Entry

\* A thread waits nowhere but in acquireLocks.
LEMMA WakeAt ==
  ASSUME TMTypeOK, Control, NEW th \in Threads, Wake(th)
  PROVE  pc[th] = "acquired" /\ UNCHANGED <<pc, op>>
BY DEF Wake, Resume, ResumeCancelled, ResumeWait, ResumeGrant, Awake, SpuriousWakeup,
       TMTypeOK, TypeOK, Control

\* A thread that stores a record has logged it, and has done nothing since.
LEMMA StoreLoggedStep ==
  ASSUME TMTypeOK, Control, StoreLogged, NEW th \in Threads, ThreadStep(th)
  PROVE  StoreLogged'
<1> SUFFICES ASSUME NEW u \in Threads, pc'[u] = "store"
             PROVE  Logged(Stamp(op[u].txn), op[u].key, "PUT_RECORD")'
  BY DEF StoreLogged
<1>1. run' = run
  BY LogGrows
<1>2. PICK t, k, by : t = op[u].txn /\ k = op[u].key /\ by = Stamp(t)
  OBVIOUS
<1>3. op'[u] = op[u] /\ Logged(by, k, "PUT_RECORD")'
      => Logged(Stamp(op[u].txn), op[u].key, "PUT_RECORD")'
  BY <1>1, <1>2 DEF Logged, Stamp
<1>4. CASE u # th
  <2>1. pc[u] = "store" /\ op'[u] = op[u]
    BY <1>4, OtherThreads
  <2>2. Logged(by, k, "PUT_RECORD")
    BY <1>2, <2>1 DEF StoreLogged
  <2> QED
    BY <1>3, <2>1, <2>2, LoggedStays
<1>5. CASE u = th
  <2>1. ~(\/ Begin(th) \/ Acquire(th) \/ Wake(th) \/ Refused(th) \/ PutLogStart(th)
          \/ PutLogFails(th) \/ Note(th))
    BY <1>5, WakeAt DEF Begin, Acquire, Refused, PutLogStart, PutLogFails, Note, Goto, Finish,
                        TMTypeOK
  <2>2. ~(PutStore(th) \/ GetRead(th) \/ DeleteApply(th) \/ CommitFlush(th) \/ CommitRelease(th))
    BY <1>5 DEF PutStore, GetRead, DeleteApply, DeleteTooLate, DeleteLogFails, DeleteNotFound,
                DeleteFound, Deleting, CommitFlush, CommitRelease, Goto, Finish, TMTypeOK
  <2>3. /\ \A kind \in {"put", "get", "delete"}, v \in Txns, l \in Keys : ~Start(th, kind, v, l)
        /\ \A v \in Txns : ~CommitLog(th, v) /\ ~EndNotLogged(th, v) /\ ~Abort(th, v)
    BY <1>5 DEF Start, CommitLog, EndNotLogged, Abort, TMTypeOK
  <2>4. PutLogged(th)
    BY <2>1, <2>2, <2>3 DEF ThreadStep
  <2>5. PICK intact \in BOOLEAN : wal' = Append(wal, Entry("PUT_RECORD", t, k, intact))
    BY <1>2, <1>5, <2>4 DEF PutLogged
  <2>6. t \in Txns /\ k \in Keys /\ op' = op
    BY <1>2, <1>5, <2>4, OperationType DEF PutLogged, PutLogEnds, Goto, InOperation
  <2>7. Logged(by, k, "PUT_RECORD")'
    BY <1>2, <2>5, <2>6, WrittenIsLogged DEF EntryTypes
  <2> QED
    BY <1>3, <2>6, <2>7
<1> QED
  BY <1>4, <1>5

\* A deletion is logged in the step that makes it.
LEMMA DeleteIsLogged ==
  ASSUME TMTypeOK, Control, NEW th \in Threads, DeleteFound(th)
  PROVE  /\ op[th].txn \in activeTxns /\ op[th].txn \in Txns /\ op[th].key \in Keys
         /\ cache' = [cache EXCEPT ![op[th].key] = [by      |-> Stamp(op[th].txn),
                                                    present |-> FALSE]]
         /\ dirty' = dirty \cup {op[th].key} /\ disk' = disk
         /\ UNCHANGED <<activeTxns, run, committed, aborted>>
         /\ \A by, k : by = Stamp(op[th].txn) /\ k = op[th].key => Logged(by, k, "DELETE_RECORD")'
<1>0. PICK t, k : t = op[th].txn /\ k = op[th].key
  OBVIOUS
<1>1. t \in Txns /\ k \in Keys
  BY <1>0, OperationType DEF DeleteFound, Deleting, Acquired, InOperation
<1>2. PICK intact \in BOOLEAN : wal' = Append(wal, Entry("DELETE_RECORD", t, k, intact))
  BY <1>0 DEF DeleteFound, WriteLogEntry
<1>3. \A by : by = Stamp(t) => Logged(by, k, "DELETE_RECORD")'
  BY <1>1, <1>2, WrittenIsLogged DEF EntryTypes
<1> QED
  BY <1>0, <1>1, <1>3 DEF DeleteFound, Deleting, Delete

\* putRecord stores what it has logged.
LEMMA StoreIsLogged ==
  ASSUME TMTypeOK, Control, StoreLogged, NEW th \in Threads, PutStore(th),
         Put(op[th].txn, op[th].key)
  PROVE  /\ op[th].txn \in Txns /\ op[th].key \in Keys /\ op[th].kind = "put"
         /\ cache' = [cache EXCEPT ![op[th].key] = [by      |-> Stamp(op[th].txn),
                                                    present |-> TRUE]]
         /\ UNCHANGED <<activeTxns, run, committed, aborted>>
         /\ \A by, k : by = Stamp(op[th].txn) /\ k = op[th].key => Logged(by, k, "PUT_RECORD")'
<1>1. pc[th] = "store" /\ wal' = wal /\ UNCHANGED <<activeTxns, run, committed, aborted>>
  BY DEF PutStore
<1>2. op[th].txn \in Txns /\ op[th].key \in Keys /\ op[th].kind = "put"
  BY <1>1, OperationType DEF InOperation, Control
<1>3. ASSUME NEW by, NEW k, by = Stamp(op[th].txn), k = op[th].key
      PROVE  Logged(by, k, "PUT_RECORD")'
  <2>1. Logged(by, k, "PUT_RECORD")
    BY <1>1, <1>3 DEF StoreLogged
  <2> QED
    BY <1>1, <2>1 DEF Logged
<1> QED
  BY <1>1, <1>2, <1>3 DEF Put

\* A record is logged before it is stored.
LEMMA DirtyLoggedStep ==
  ASSUME TMTypeOK, Control, StoreLogged, DirtyLogged, NEW th \in Threads, ThreadStep(th)
  PROVE  DirtyLogged'
<1> SUFFICES ASSUME NEW k \in dirty'
             PROVE  Logged(cache[k].by, k, ChangeType(cache[k].present))'
  BY DEF DirtyLogged
<1>0. k \in Keys
  BY TMTypeStep DEF TMTypeOK, TMNext
<1>1. PICK by, type : by = cache'[k].by /\ type = ChangeType(cache'[k].present)
  OBVIOUS
<1>2. SUFFICES Logged(by, k, type)'
  BY <1>1 DEF Logged, ChangeType
<1>3. CASE k \in dirty /\ cache'[k] = cache[k]
  <2>1. Logged(by, k, type)
    BY <1>1, <1>3 DEF DirtyLogged
  <2> QED
    BY <2>1, LoggedStays
<1>4. CASE PutStore(th) /\ Put(op[th].txn, op[th].key) /\ k = op[th].key
  <2>1. cache'[k] = [by |-> Stamp(op[th].txn), present |-> TRUE]
    BY <1>0, <1>4 DEF Put, TMTypeOK
  <2> QED
    BY <1>1, <1>4, <2>1, StoreIsLogged DEF ChangeType
<1>5. CASE DeleteFound(th) /\ k = op[th].key
  <2>1. cache'[k] = [by |-> Stamp(op[th].txn), present |-> FALSE]
    BY <1>0, <1>5 DEF DeleteFound, Delete, TMTypeOK
  <2> QED
    BY <1>1, <1>5, <2>1, DeleteIsLogged DEF ChangeType
<1>6. \/ UNCHANGED <<cache, dirty, disk>>
      \/ CommitFlush(th)
      \/ /\ k # op[th].key /\ dirty' = dirty \cup {op[th].key}
         /\ Put(op[th].txn, op[th].key) \/ Delete(op[th].txn, op[th].key)
      => k \in dirty /\ cache'[k] = cache[k]
  BY <1>0 DEF CommitFlush, Put, Delete, TMTypeOK
<1> QED
  BY <1>3, <1>4, <1>5, <1>6, StoreStep DEF DeleteFound

\* The log has every change before a page of the cache has it, whatever fails
\* and whoever shares the transaction: putRecord and deleteRecord write the entry
\* and give up when they cannot (transaction.cpp:123-128, 224-230; TUTORIAL.md:41).
THEOREM LogIsAhead == TMSpec => []LoggedBeforeStored
<1>1. TMInit => StoreLogged /\ DirtyLogged
  BY DEF TMInit, StoreLogged, DirtyLogged
<1>2. ASSUME TMTypeOK, Control, StoreLogged, DirtyLogged, [TMNext]_vars
      PROVE  StoreLogged' /\ DirtyLogged'
  <2>1. CASE UNCHANGED vars
    BY <1>2, <2>1 DEF StoreLogged, DirtyLogged, Logged, Stamp, vars
  <2>2. CASE \E th \in Threads : ThreadStep(th)
    BY <1>2, <2>2, StoreLoggedStep, DirtyLoggedStep
  <2>3. CASE Crash \/ Close
    BY <1>2, <2>3, EndOfRunIsRestart DEF Restart, StoreLogged, DirtyLogged
  <2> QED
    BY <1>2, <2>1, <2>2, <2>3, TMStepCases
<1>3. DirtyLogged => LoggedBeforeStored
  BY DEF DirtyLogged, LoggedBeforeStored, Logged, ChangeType
<1> QED
  BY <1>1, <1>2, <1>3, TMTypeCorrect, PTL DEF TMSpec

------------------------------------------------------------------------------
(* Ends.  A transaction that has committed or aborted is not active, and no    *)
(* later one of its run has its id.                                          *)

Ends ==
  \A s \in committed \cup aborted :
    s[1] <= run /\ (s[1] = run => s[2] < nextTxnId /\ s[2] \notin activeTxns)

\* Stamps name their run and their transaction.
LEMMA StampParts ==
  ASSUME NEW t
  PROVE  Stamp(t)[1] = run /\ Stamp(t)[2] = t /\ \A u : Stamp(u) = Stamp(t) => u = t
BY DEF Stamp

\* A stamp has two numbers.
LEMMA StampTypes == ASSUME NEW s \in Stamps PROVE s[1] \in Nat /\ s[2] \in Nat
<1>1. PICK r \in 0 .. MaxRun, t \in Txns \cup {0} : s = <<r, t>>
  BY DEF Stamps
<1> QED
  BY <1>1, TransactionManagerAssumption

\* The run is a number.
LEMMA RunType == ASSUME TMTypeOK PROVE run \in Nat
BY TransactionManagerAssumption DEF TMTypeOK

\* A transaction ends in commitTransaction or in abortTransaction.
LEMMA EndStep ==
  ASSUME TMTypeOK, Control, NEW th \in Threads, ThreadStep(th)
  PROVE  \/ UNCHANGED ended
         \/ /\ CommitRelease(th) /\ op[th].txn \in Txns /\ activeTxns' = activeTxns \ {op[th].txn}
            /\ committed' = committed \cup {Stamp(op[th].txn)} /\ aborted' = aborted
            /\ wal' = wal /\ synced' = synced /\ UNCHANGED <<cache, dirty, disk>>
         \/ \E t \in activeTxns :
              /\ Abort(th, t) /\ t \in Txns /\ activeTxns' = activeTxns \ {t}
              /\ committed' = committed /\ aborted' = aborted \cup {Stamp(t)}
<1>1. CASE CommitRelease(th)
  BY <1>1, OperationType DEF CommitRelease
<1>2. CASE \E t \in Txns : Abort(th, t)
  BY <1>2 DEF Abort
<1>3. CASE ~CommitRelease(th) /\ ~ \E t \in Txns : Abort(th, t)
  BY <1>3, TxnStep DEF Begin
<1> QED
  BY <1>1, <1>2, <1>3

\* A transaction ends once.
LEMMA EndsStep ==
  ASSUME TMTypeOK, Control, Ids, Ends, [TMNext]_vars
  PROVE  Ends'
<1>n. /\ TMTypeOK' /\ run \in Nat /\ nextTxnId \in Nat /\ nextTxnId' \in Nat /\ Txns \subseteq Nat
      /\ \A s \in committed \cup aborted : s[1] \in Nat /\ s[2] \in Nat
  <2>1. TMTypeOK'
    BY TMTypeStep
  <2>2. committed \subseteq Stamps /\ aborted \subseteq Stamps
    BY DEF TMTypeOK
  <2> QED
    BY <2>1, <2>2, StampTypes, RunType, IdTypes
<1>1. CASE UNCHANGED vars
  BY <1>1 DEF Ends, vars
<1>2. ASSUME NEW th \in Threads, ThreadStep(th) PROVE Ends'
  <2>1. run' = run
    BY <1>2, LogGrows
  <2>2. nextTxnId <= nextTxnId' /\ activeTxns' \subseteq activeTxns \cup {nextTxnId}
    <3>1. \/ nextTxnId' = nextTxnId /\ activeTxns' \subseteq activeTxns
          \/ nextTxnId' = nextTxnId + 1 /\ activeTxns' = activeTxns \cup {nextTxnId}
      BY <1>2, TxnStep DEF Begin, CommitRelease, Abort
    <3> QED
      BY <3>1, <1>n
  <2>3. ASSUME NEW s \in committed \cup aborted
        PROVE  s[1] <= run' /\ (s[1] = run' => s[2] < nextTxnId' /\ s[2] \notin activeTxns')
    BY <1>n, <2>1, <2>2 DEF Ends
  <2>4. ASSUME NEW t \in Txns, t < nextTxnId, t \notin activeTxns'
        PROVE  /\ Stamp(t)[1] <= run'
               /\ Stamp(t)[1] = run' => Stamp(t)[2] < nextTxnId' /\ Stamp(t)[2] \notin activeTxns'
    BY <1>n, <2>1, <2>2, <2>4, StampParts
  <2>5. \A s \in committed' \cup aborted' :
          \/ s \in committed \cup aborted
          \/ \E t \in Txns : s = Stamp(t) /\ t < nextTxnId /\ t \notin activeTxns'
    <3>1. pc[th] = "release" => op[th].txn < nextTxnId
      BY DEF Ids
    <3>2. \A t \in activeTxns : t < nextTxnId
      BY DEF Ids
    <3> QED
      BY <1>2, <3>1, <3>2, EndStep DEF CommitRelease
  <2> QED
    BY <2>3, <2>4, <2>5 DEF Ends
<1>3. CASE Crash \/ Close
  <2>1. run' = run + 1 /\ UNCHANGED ended
    BY <1>3, EndOfRunIsRestart DEF Restart
  <2> QED
    BY <1>n, <2>1 DEF Ends
<1> QED
  BY <1>1, <1>2, <1>3, TMStepCases

\* No transaction is active again after its end.
THEOREM EndsAreFinal == TMSpec => []Ends
<1>1. TMInit => Ends
  BY DEF TMInit, Ends
<1> QED
  BY <1>1, EndsStep, TMTypeCorrect, IdsAreFresh, PTL DEF TMSpec

\* An active transaction, or the next one, has not ended.
LEMMA NotEnded ==
  ASSUME TMTypeOK, Ends, NEW t, t \in activeTxns \/ t = nextTxnId
  PROVE  Stamp(t) \notin committed \cup aborted
<1>1. nextTxnId \in Nat
  BY DEF TMTypeOK
<1> QED
  BY <1>1, StampParts DEF Ends

------------------------------------------------------------------------------
(* What has been committed is in the file *)

\* A page that is not dirty is in the file as it is in the cache.
Clean == \A k \in Keys \ dirty : disk[k] = cache[k]

\* A page that holds a change of a committed transaction has been written, and
\* so have all of a transaction that is about to be committed.
DirtyNotCommitted == \A k \in dirty : cache[k].by \notin committed

\* A transaction that is about to release its locks has no change on a dirty page.
ReleaseIsClean ==
  \A th \in Threads : pc[th] = "release" => \A k \in dirty : cache[k].by # Stamp(op[th].txn)

\* A page becomes clean by being written.
LEMMA CleanStep ==
  ASSUME TMTypeOK, Clean, [TMNext]_vars
  PROVE  Clean'
<1>1. CASE UNCHANGED vars
  BY <1>1 DEF Clean, vars
<1>2. ASSUME NEW th \in Threads, ThreadStep(th) PROVE Clean'
  <2>1. CASE UNCHANGED <<cache, dirty, disk>>
    BY <2>1 DEF Clean
  <2>2. CASE /\ Put(op[th].txn, op[th].key) \/ Delete(op[th].txn, op[th].key)
             /\ dirty' = dirty \cup {op[th].key} /\ disk' = disk
    BY <2>2 DEF Put, Delete, Clean, TMTypeOK
  <2>3. CASE CommitFlush(th)
    BY <2>3 DEF CommitFlush, Flushed, Clean, TMTypeOK
  <2> QED
    BY <1>2, <2>1, <2>2, <2>3, StoreStep DEF DeleteFound, Deleting
<1>3. CASE Crash \/ Close
  BY <1>3, EndOfRunIsRestart DEF Restart, Clean
<1> QED
  BY <1>1, <1>2, <1>3, TMStepCases

\* Two threads are never in operations of one transaction.
LEMMA OthersTxns ==
  ASSUME TMTypeOK, OwnTxns, NEW th \in Threads, pc[th] # "idle",
         NEW u \in Threads, pc[u] # "idle", u # th
  PROVE  op[th].txn # op[u].txn /\ op[th].txn \in activeTxns
<1>1. op[th].txn \in activeTxns /\ op[th].txn = mine[th] /\ op[u].txn = mine[u]
  BY DEF OwnTxns
<1>2. mine[th] # INVALID_TXN_ID
  BY <1>1, TransactionManagerAssumption DEF TMTypeOK
<1> QED
  BY <1>1, <1>2 DEF OwnTxns

\* A record changes for an active transaction, in which its thread is.
LEMMA ChangeStep ==
  ASSUME TMTypeOK, Control, NEW th \in Threads, ThreadStep(th)
  PROVE  \/ UNCHANGED <<cache, dirty, disk>>
         \/ CommitFlush(th)
         \/ /\ pc[th] # "idle" /\ op[th].txn \in Txns /\ op[th].key \in Keys
            /\ \E present \in BOOLEAN :
                 cache' = [cache EXCEPT ![op[th].key] = [by      |-> Stamp(op[th].txn),
                                                         present |-> present]]
            /\ dirty' = dirty \cup {op[th].key} /\ disk' = disk
            /\ UNCHANGED <<activeTxns, run, committed, aborted>>
            /\ op[th].kind \in {"put", "delete"}
            /\ pc'[th] # "release"
            /\ op[th].kind = "delete" => op[th].txn \in activeTxns
<1>1. CASE PutStore(th) /\ Put(op[th].txn, op[th].key) /\ dirty' = dirty \cup {op[th].key}
           /\ disk' = disk
  <2>1. pc[th] = "store"
    BY <1>1 DEF PutStore
  <2>2. op[th].kind = "put" /\ op[th].txn \in Txns /\ op[th].key \in Keys
    BY <2>1, OperationType DEF Control, InOperation
  <2>3. UNCHANGED <<activeTxns, run, committed, aborted>> /\ pc'[th] # "release"
    BY <1>1 DEF PutStore, Goto, Finish, TMTypeOK
  <2> QED
    BY <1>1, <2>1, <2>2, <2>3 DEF Put
<1>2. CASE DeleteFound(th)
  <2>1. pc[th] # "idle" /\ op[th].kind = "delete" /\ pc'[th] # "release"
    BY <1>2 DEF DeleteFound, Deleting, Acquired, Finish, TMTypeOK
  <2> QED
    BY <1>2, <2>1, DeleteIsLogged
<1> QED
  BY <1>1, <1>2, StoreStep

\* No page of a committed transaction becomes dirty by a change of its own.
LEMMA DirtyNotCommittedStep ==
  ASSUME TMTypeOK, Control, OwnTxns, Ends, DirtyNotCommitted, ReleaseIsClean,
         NEW th \in Threads, ThreadStep(th)
  PROVE  DirtyNotCommitted'
<1>1. CASE UNCHANGED <<cache, dirty, disk, committed>>
  BY <1>1 DEF DirtyNotCommitted
<1>2. CASE CommitFlush(th)
  BY <1>2 DEF CommitFlush, DirtyNotCommitted
<1>3. CASE CommitRelease(th) /\ committed' = committed \cup {Stamp(op[th].txn)}
           /\ UNCHANGED <<cache, dirty, disk>>
  <2>1. \A k \in dirty : cache[k].by # Stamp(op[th].txn)
    BY <1>3 DEF CommitRelease, ReleaseIsClean
  <2> QED
    BY <1>3, <2>1 DEF DirtyNotCommitted
<1>4. ASSUME NEW k \in Keys, NEW present, NEW t, pc[th] # "idle", t = op[th].txn,
             cache' = [cache EXCEPT ![k] = [by |-> Stamp(t), present |-> present]],
             dirty' = dirty \cup {k}, committed' = committed
      PROVE  DirtyNotCommitted'
  <2>1. Stamp(t) \notin committed
    BY <1>4, NotEnded DEF OwnTxns
  <2> QED
    BY <1>4, <2>1 DEF DirtyNotCommitted, TMTypeOK
<1> QED
  BY <1>1, <1>2, <1>3, <1>4, ChangeStep, EndStep DEF Abort, CommitRelease

\* The flush of a commit has written every page of its transaction.
LEMMA ReleaseIsCleanStep ==
  ASSUME TMTypeOK, Control, OwnTxns, ReleaseIsClean, NEW th \in Threads, ThreadStep(th)
  PROVE  ReleaseIsClean'
<1>0. run' = run
  BY LogGrows
<1> SUFFICES ASSUME NEW u \in Threads, pc'[u] = "release", NEW k \in dirty'
             PROVE  cache'[k].by # Stamp(op[u].txn)'
  BY DEF ReleaseIsClean
<1>1. CASE u # th
  <2>1. pc[u] = "release" /\ op'[u] = op[u] /\ Stamp(op[u].txn)' = Stamp(op[u].txn)
    BY <1>0, <1>1, OtherThreads DEF Stamp
  <2>2. CASE k \in dirty /\ cache'[k] = cache[k]
    BY <2>1, <2>2 DEF ReleaseIsClean
  <2>3. ASSUME NEW l \in Keys, NEW present, NEW t, pc[th] # "idle", t = op[th].txn,
               cache' = [cache EXCEPT ![l] = [by |-> Stamp(t), present |-> present]],
               dirty' = dirty \cup {l}
        PROVE  cache'[k].by # Stamp(op[u].txn)
    <3>1. t # op[u].txn
      BY <1>1, <2>1, <2>3, OthersTxns
    <3>2. Stamp(t) # Stamp(op[u].txn)
      BY <3>1, StampParts
    <3> QED
      BY <2>1, <2>3, <3>2 DEF ReleaseIsClean, TMTypeOK
  <2>4. UNCHANGED <<cache, dirty, disk>> \/ CommitFlush(th) => k \in dirty /\ cache'[k] = cache[k]
    BY DEF CommitFlush
  <2>5. cache'[k].by # Stamp(op[u].txn)
    <3>1. CASE UNCHANGED <<cache, dirty, disk>> \/ CommitFlush(th)
      BY <2>1, <2>2, <2>4, <3>1
    <3>2. CASE ~(UNCHANGED <<cache, dirty, disk>> \/ CommitFlush(th))
      <4>1. PICK present \in BOOLEAN :
              cache' = [cache EXCEPT ![op[th].key] = [by      |-> Stamp(op[th].txn),
                                                      present |-> present]]
        BY <3>2, ChangeStep
      <4>2. op[th].key \in Keys /\ pc[th] # "idle" /\ dirty' = dirty \cup {op[th].key}
        BY <3>2, ChangeStep
      <4> QED
        BY <2>3, <4>1, <4>2
    <3> QED
      BY <3>1, <3>2
  <2> QED
    BY <2>1, <2>5
<1>2. CASE u = th
  <2>1. ~(\/ Begin(th) \/ Acquire(th) \/ Wake(th) \/ Refused(th) \/ PutLogStart(th)
          \/ PutLogged(th) \/ PutLogFails(th) \/ Note(th))
    BY <1>2, WakeAt DEF Begin, Acquire, Refused, PutLogStart, PutLogged, PutLogFails, Note, Goto,
                        Finish, TMTypeOK
  <2>2. ~(PutStore(th) \/ GetRead(th) \/ DeleteApply(th) \/ CommitRelease(th))
    BY <1>2 DEF PutStore, GetRead, DeleteApply, DeleteTooLate, DeleteLogFails, DeleteNotFound,
                DeleteFound, Deleting, CommitRelease, Goto, Finish, TMTypeOK
  <2>3. /\ \A kind \in {"put", "get", "delete"}, v \in Txns, l \in Keys : ~Start(th, kind, v, l)
        /\ \A v \in Txns : ~CommitLog(th, v) /\ ~EndNotLogged(th, v) /\ ~Abort(th, v)
    BY <1>2 DEF Start, CommitLog, EndNotLogged, Abort, TMTypeOK
  <2>4. CommitFlush(th)
    BY <2>1, <2>2, <2>3 DEF ThreadStep
  <2> QED
    BY <1>2, <2>4 DEF CommitFlush, Finish, TMTypeOK
<1> QED
  BY <1>1, <1>2

\* What a commit that returned true wrote is in the file of records as it is in
\* the cache, whatever fails and whoever crashes after it: flushAll comes before
\* the locks are released (transaction.cpp:54-70; storage.cpp:203-222).  A shared
\* transaction may be committed in the middle of a put, which writes after it.
THEOREM CommittedIsWritten == ASSUME ~Sharing PROVE TMSpec => []CommittedIsOnDisk
<1> DEFINE Inv == Clean /\ DirtyNotCommitted /\ ReleaseIsClean
<1>1. TMInit => Inv
  BY DEF TMInit, Clean, DirtyNotCommitted, ReleaseIsClean
<1>2. ASSUME TMTypeOK, Control, OwnTxns, Ends, Inv, [TMNext]_vars
      PROVE  Inv'
  <2>1. CASE UNCHANGED vars
    BY <1>2, <2>1 DEF Clean, DirtyNotCommitted, ReleaseIsClean, Stamp, vars
  <2>2. CASE \E th \in Threads : ThreadStep(th)
    BY <1>2, <2>2, CleanStep, DirtyNotCommittedStep, ReleaseIsCleanStep
  <2>3. CASE Crash \/ Close
    BY <1>2, <2>3, CleanStep, EndOfRunIsRestart DEF Restart, DirtyNotCommitted, ReleaseIsClean
  <2> QED
    BY <1>2, <2>1, <2>2, <2>3, TMStepCases
<1>3. Inv => CommittedIsOnDisk
  BY DEF Clean, DirtyNotCommitted, CommittedIsOnDisk
<1> QED
  BY <1>1, <1>2, <1>3, TMTypeCorrect, OperationsAreOwn, EndsAreFinal, PTL DEF TMSpec

------------------------------------------------------------------------------
(* What has been committed is in the log, and nothing follows the entry that   *)
(* ends a transaction.                                                       *)

\* Entries are written for an active transaction, or the one that begins, under
\* txnMutex; but those of putRecord for whatever transaction it works.
LEMMA WalStep ==
  ASSUME TMTypeOK, Control, NEW th \in Threads, ThreadStep(th)
  PROVE  \/ UNCHANGED <<wal, synced>>
         \/ \E type \in EntryTypes, t \in Txns, k \in Keys \cup {NoKey}, intact \in BOOLEAN :
              /\ wal' = Append(wal, Entry(type, t, k, intact))
              /\ \/ MutexFree /\ (t \in activeTxns \/ t = nextTxnId)
                 \/ pc[th] = "logging" /\ t = op[th].txn
              /\ committed' = committed
              /\ \/ aborted' = aborted
                 \/ type = "ABORT_TXN" /\ aborted' = aborted \cup {Stamp(t)}
<1> DEFINE Goal ==
         \/ UNCHANGED <<wal, synced>>
         \/ \E type \in EntryTypes, t \in Txns, k \in Keys \cup {NoKey}, intact \in BOOLEAN :
              /\ wal' = Append(wal, Entry(type, t, k, intact))
              /\ \/ MutexFree /\ (t \in activeTxns \/ t = nextTxnId)
                 \/ pc[th] = "logging" /\ t = op[th].txn
              /\ committed' = committed
              /\ \/ aborted' = aborted
                 \/ type = "ABORT_TXN" /\ aborted' = aborted \cup {Stamp(t)}
<1>1. ASSUME NEW type \in EntryTypes, NEW t \in Txns, NEW k \in Keys \cup {NoKey},
             WriteLogEntry(type, t, k), MutexFree, t \in activeTxns \/ t = nextTxnId,
             committed' = committed,
             aborted' = aborted \/ (type = "ABORT_TXN" /\ aborted' = aborted \cup {Stamp(t)})
      PROVE  Goal
  <2>1. PICK intact \in BOOLEAN : wal' = Append(wal, Entry(type, t, k, intact))
    BY <1>1 DEF WriteLogEntry
  <2> QED
    BY <1>1, <2>1
<1>2. CASE Begin(th)
  <2>1. UNCHANGED <<wal, synced>> \/ WriteLogEntry("BEGIN_TXN", nextTxnId, NoKey)
    BY <1>2 DEF Begin
  <2>2. MutexFree /\ nextTxnId \in Txns /\ committed' = committed /\ aborted' = aborted
    BY <1>2 DEF Begin
  <2> QED
    BY <1>1, <2>1, <2>2 DEF EntryTypes
<1>3. CASE PutLogged(th)
  <2>1. pc[th] = "logging" /\ committed' = committed /\ aborted' = aborted
    BY <1>3 DEF PutLogged, PutLogEnds
  <2>2. op[th].txn \in Txns /\ op[th].key \in Keys
    BY <2>1, OperationType DEF InOperation
  <2>3. PICK intact \in BOOLEAN :
          wal' = Append(wal, Entry("PUT_RECORD", op[th].txn, op[th].key, intact))
    BY <1>3 DEF PutLogged
  <2> QED
    BY <2>1, <2>2, <2>3 DEF EntryTypes
<1>4. CASE DeleteApply(th)
  <2>1. Deleting(th) /\ committed' = committed /\ aborted' = aborted
    BY <1>4 DEF DeleteApply, DeleteTooLate, DeleteLogFails, DeleteNotFound, DeleteFound, Deleting
  <2>2. op[th].txn \in Txns /\ op[th].key \in Keys /\ MutexFree /\ synced' = synced
    BY <2>1, OperationType DEF Deleting, Acquired, InOperation
  <2>3. \/ wal' = wal
        \/ WriteLogEntry("DELETE_RECORD", op[th].txn, op[th].key) /\ op[th].txn \in activeTxns
    BY <1>4 DEF DeleteApply, DeleteTooLate, DeleteLogFails, DeleteNotFound, DeleteFound
  <2> QED
    BY <1>1, <2>1, <2>2, <2>3 DEF EntryTypes
<1>5. ASSUME NEW t \in Txns, CommitLog(th, t) PROVE Goal
  <2>1. WriteLogEntry("COMMIT_TXN", t, NoKey) /\ MutexFree /\ t \in activeTxns
        /\ committed' = committed /\ aborted' = aborted
    BY <1>5 DEF CommitLog
  <2> QED
    BY <1>1, <2>1 DEF EntryTypes
<1>6. ASSUME NEW t \in Txns, Abort(th, t) PROVE Goal
  <2>1. WriteLogEntry("ABORT_TXN", t, NoKey) /\ MutexFree /\ t \in activeTxns
        /\ committed' = committed /\ aborted' = aborted \cup {Stamp(t)}
    BY <1>6 DEF Abort
  <2> QED
    BY <1>1, <2>1 DEF EntryTypes
<1>7. CASE \/ \E kind \in {"put", "get", "delete"}, t \in Txns, k \in Keys : Start(th, kind, t, k)
           \/ Acquire(th) \/ Wake(th) \/ Refused(th) \/ PutLogStart(th)
           \/ PutLogFails(th) \/ PutStore(th) \/ GetRead(th) \/ Note(th)
           \/ CommitFlush(th) \/ CommitRelease(th) \/ \E t \in Txns : EndNotLogged(th, t)
  BY <1>7 DEF Start, Acquire, Wake, Refused, PutLogStart, PutLogFails, PutLogEnds, PutStore,
              GetRead, Note, CommitFlush, CommitRelease, EndNotLogged
<1> QED
  BY <1>2, <1>3, <1>4, <1>5, <1>6, <1>7 DEF ThreadStep

\* Who may log something of a transaction that another thread is committing.
LogsAlone == ~Sharing \/ "put" \notin Ops

\* The COMMIT entry is in the file, and is the last of its transaction.
CommitLogged(by) ==
  \E j \in 1 .. synced :
    /\ wal[j].by = by /\ wal[j].type = "COMMIT_TXN"
    /\ \A i \in j + 1 .. Len(wal) : wal[i].by # by

\* From its COMMIT entry on a transaction logs nothing.
CommitIsLast == \A th \in Threads : Committing(th) => CommitLogged(Stamp(op[th].txn))

\* No other thread logs for the transaction that one is committing.
LEMMA CommitIsLastStep ==
  ASSUME LogsAlone, ~Sharing => OwnTxns, TMTypeOK, Control, CommitIsLast,
         NEW th \in Threads, ThreadStep(th)
  PROVE  CommitIsLast'
<1> SUFFICES ASSUME NEW u \in Threads, Committing(u)'
             PROVE  CommitLogged(Stamp(op[u].txn))'
  BY DEF CommitIsLast
<1>0. /\ run' = run /\ Len(wal) \in Nat /\ Len(wal') \in Nat /\ synced \in Nat
      /\ Len(wal) <= Len(wal') /\ synced <= Len(wal)
      /\ synced <= synced' /\ synced' <= Len(wal') /\ synced' \in Nat
      /\ \A i \in 1 .. Len(wal) : wal'[i] = wal[i]
  BY LogGrows
<1>1. PICK t, by : t = op'[u].txn /\ by = Stamp(t)
  OBVIOUS
<1>2. SUFFICES CommitLogged(by)'
  BY <1>0, <1>1 DEF Stamp, CommitLogged
<1>3. ASSUME CommitLogged(by),
             \A i \in Len(wal) + 1 .. Len(wal') : wal'[i].by # by
      PROVE  CommitLogged(by)'
  <2>1. PICK j \in 1 .. synced :
          /\ wal[j].by = by /\ wal[j].type = "COMMIT_TXN"
          /\ \A i \in j + 1 .. Len(wal) : wal[i].by # by
    BY <1>3 DEF CommitLogged
  <2>2. j \in 1 .. synced' /\ j \in 1 .. Len(wal)
    BY <1>0
  <2>3. ASSUME NEW i \in j + 1 .. Len(wal') PROVE wal'[i].by # by
    <3>1. CASE i \in j + 1 .. Len(wal)
      BY <1>0, <2>1, <2>2, <3>1
    <3>2. CASE i \in Len(wal) + 1 .. Len(wal')
      BY <1>3, <3>2
    <3> QED
      BY <1>0, <2>2, <3>1, <3>2
  <2> QED
    BY <1>0, <2>1, <2>2, <2>3 DEF CommitLogged
<1>4. CASE u # th
  <2>1. Committing(u) /\ op'[u] = op[u] /\ txnMutex = u /\ u # NoThread
    BY <1>4, OtherThreads, TransactionManagerAssumption DEF Committing, Control
  <2>2. CommitLogged(by)
    BY <1>1, <2>1 DEF CommitIsLast
  <2>3. CASE UNCHANGED <<wal, synced>>
    BY <1>0, <1>3, <2>2, <2>3
  <2>4. CASE ~UNCHANGED <<wal, synced>>
    <3>1. PICK type \in EntryTypes, v \in Txns, k \in Keys \cup {NoKey}, intact \in BOOLEAN :
            /\ wal' = Append(wal, Entry(type, v, k, intact))
            /\ MutexFree \/ (pc[th] = "logging" /\ v = op[th].txn)
      BY <2>4, WalStep
    <3>2. pc[th] = "logging" /\ v = op[th].txn
      BY <2>1, <3>1 DEF MutexFree
    <3>3. "put" \in Ops
      BY <3>2 DEF Control, InOperation
    <3>4. v # t
      BY <1>1, <1>4, <2>1, <3>2, <3>3, OthersTxns DEF LogsAlone, Committing
    <3>5. Len(wal') = Len(wal) + 1 /\ wal'[Len(wal) + 1] = Entry(type, v, k, intact)
      BY <3>1, EntryType, LogType
    <3>6. wal'[Len(wal) + 1].by # by
      BY <1>1, <3>4, <3>5, StampParts DEF Entry
    <3> QED
      BY <1>0, <1>3, <2>2, <3>5, <3>6
  <2> QED
    BY <2>3, <2>4
<1>5. CASE u = th
  <2>1. ~(\/ Begin(th) \/ Acquire(th) \/ Wake(th) \/ Refused(th) \/ PutLogStart(th)
          \/ PutLogged(th) \/ PutLogFails(th) \/ Note(th))
    BY <1>5, WakeAt DEF Committing, Begin, Acquire, Refused, PutLogStart, PutLogged, PutLogFails,
                        Note, Goto, Finish, TMTypeOK
  <2>2. ~(PutStore(th) \/ GetRead(th) \/ DeleteApply(th) \/ CommitRelease(th))
    BY <1>5 DEF Committing, PutStore, GetRead, DeleteApply, DeleteTooLate, DeleteLogFails,
                DeleteNotFound, DeleteFound, Deleting, CommitRelease, Goto, Finish, TMTypeOK
  <2>3. /\ \A kind \in {"put", "get", "delete"}, v \in Txns, l \in Keys : ~Start(th, kind, v, l)
        /\ \A v \in Txns : ~EndNotLogged(th, v) /\ ~Abort(th, v)
    BY <1>5 DEF Committing, Start, EndNotLogged, Abort, TMTypeOK
  <2>4. CASE CommitFlush(th)
    <3>1. Committing(th) /\ op'[th] = op[th] /\ wal' = wal
      BY <1>5, <2>4 DEF Committing, CommitFlush, Goto, Finish, TMTypeOK
    <3>2. CommitLogged(by)
      BY <1>1, <1>5, <3>1 DEF CommitIsLast
    <3> QED
      BY <1>0, <1>3, <3>1, <3>2
  <2>5. ASSUME NEW v \in Txns, CommitLog(th, v) PROVE CommitLogged(by)'
    <3>1. /\ WriteLogEntry("COMMIT_TXN", v, NoKey) /\ Flush
          /\ op' = [op EXCEPT ![th] = [kind |-> "commit", txn |-> v, key |-> NoKey]]
      BY <1>5, <2>5 DEF CommitLog, Committing, TMTypeOK
    <3>2. t = v
      BY <1>1, <1>5, <3>1 DEF TMTypeOK
    <3>3. PICK intact \in BOOLEAN : wal' = Append(wal, Entry("COMMIT_TXN", v, NoKey, intact))
      BY <3>1 DEF WriteLogEntry
    <3>4. Len(wal') = Len(wal) + 1 /\ wal'[Len(wal) + 1] = Entry("COMMIT_TXN", v, NoKey, intact)
      BY <3>3, EntryType, LogType DEF EntryTypes
    <3>5. synced' = Len(wal) + 1
      BY <3>1, <3>4 DEF Flush
    <3> QED
      BY <1>0, <1>1, <3>2, <3>4, <3>5 DEF CommitLogged, Entry
  <2> QED
    BY <2>1, <2>2, <2>3, <2>4, <2>5 DEF ThreadStep
<1> QED
  BY <1>4, <1>5

\* Entry i is the one for a change of k.
Change(i, by, k) ==
  wal[i].by = by /\ wal[i].key = k /\ wal[i].type \in {"PUT_RECORD", "DELETE_RECORD"}

\* Both the change and the commit that made it last are in the synced log.
CommitTraced(by, k) ==
  \E i, j \in 1 .. synced :
    i < j /\ Change(i, by, k) /\ wal[j].by = by /\ wal[j].type = "COMMIT_TXN"

\* A record of key k that a page has, in the cache or in the file, is in the
\* log: anywhere as long as its run goes on, in the file once it is committed.
Traced(record, k) ==
  /\ record.by[1] <= run
  /\ record.by[1] = run => \E i \in 1 .. Len(wal) : Change(i, record.by, k)
  /\ record.by \in committed => CommitTraced(record.by, k)

\* This holds of every record that there is.
AllTraced == \A k \in Keys : Traced(cache[k], k) /\ Traced(disk[k], k)

\* A record that has left a trace in the log keeps it.
LEMMA TracedStep ==
  ASSUME TMTypeOK, Control, CommitIsLast, NEW th \in Threads, ThreadStep(th),
         NEW r, NEW k, Traced(r, k)
  PROVE  Traced(r, k)'
<1>0. /\ run' = run /\ Len(wal) \in Nat /\ Len(wal') \in Nat /\ synced \in Nat
      /\ Len(wal) <= Len(wal') /\ synced <= Len(wal)
      /\ synced <= synced' /\ synced' <= Len(wal') /\ synced' \in Nat
      /\ \A i \in 1 .. Len(wal) : wal'[i] = wal[i]
  BY LogGrows
<1>1. r.by[1] <= run'
  BY <1>0 DEF Traced
<1>2. ASSUME r.by[1] = run' PROVE \E i \in 1 .. Len(wal') : Change(i, r.by, k)'
  <2>1. PICK i \in 1 .. Len(wal) : Change(i, r.by, k)
    BY <1>0, <1>2 DEF Traced
  <2>2. i \in 1 .. Len(wal') /\ wal'[i] = wal[i]
    BY <1>0
  <2> QED
    BY <2>1, <2>2 DEF Change
<1>3. ASSUME CommitTraced(r.by, k) PROVE CommitTraced(r.by, k)'
  <2>1. PICK i \in 1 .. synced, j \in 1 .. synced :
          i < j /\ Change(i, r.by, k) /\ wal[j].by = r.by /\ wal[j].type = "COMMIT_TXN"
    BY <1>3 DEF CommitTraced
  <2>2. /\ i \in 1 .. synced' /\ j \in 1 .. synced'
        /\ wal'[i] = wal[i] /\ wal'[j] = wal[j]
    BY <1>0
  <2> QED
    BY <2>1, <2>2 DEF CommitTraced, Change
<1>4. ASSUME r.by \in committed', r.by \notin committed PROVE CommitTraced(r.by, k)'
  <2>1. CommitRelease(th) /\ r.by = Stamp(op[th].txn) /\ wal' = wal /\ synced' = synced
    BY <1>4, EndStep
  <2>2. CommitLogged(r.by)
    BY <2>1 DEF CommitIsLast, Committing, CommitRelease
  <2>3. PICK j \in 1 .. synced :
          /\ wal[j].by = r.by /\ wal[j].type = "COMMIT_TXN"
          /\ \A i \in j + 1 .. Len(wal) : wal[i].by # r.by
    BY <2>2 DEF CommitLogged
  <2>4. PICK i \in 1 .. Len(wal) : Change(i, r.by, k)
    BY <2>1, StampParts DEF Traced
  <2>5. i < j
    <3>1. i # j
      BY <2>3, <2>4 DEF Change
    <3>2. i \notin j + 1 .. Len(wal)
      BY <2>3, <2>4 DEF Change
    <3> QED
      BY <1>0, <3>1, <3>2
  <2>6. i \in 1 .. synced
    BY <1>0, <2>5
  <2> QED
    BY <2>1, <2>3, <2>4, <2>5, <2>6 DEF CommitTraced, Change
<1> QED
  BY <1>1, <1>2, <1>3, <1>4 DEF Traced

\* A new record is traced: what it needs is logged by then.
LEMMA NewTraced ==
  ASSUME TMTypeOK, Ends, NEW t \in activeTxns, NEW k,
         NEW type \in {"PUT_RECORD", "DELETE_RECORD"},
         UNCHANGED <<run, committed>>, Logged(Stamp(t), k, type)',
         NEW r, r.by = Stamp(t)
  PROVE  Traced(r, k)'
<1>1. r.by[1] = run' /\ run' <= run'
  BY StampParts, RunType
<1>2. r.by \notin committed'
  BY NotEnded
<1>3. \E i \in 1 .. Len(wal') : Change(i, r.by, k)'
  BY DEF Logged, Change, Stamp
<1> QED
  BY <1>1, <1>2, <1>3 DEF Traced

\* A restart takes its records from the cache or from the file, and keeps all of
\* the log that was synced.
LEMMA TracedRestart ==
  ASSUME TMTypeOK, NEW r \in Records, NEW k, Traced(r, k),
         NEW n \in synced .. Len(wal), wal' = SubSeq(wal, 1, n), synced' = n,
         run' = run + 1, committed' = committed
  PROVE  Traced(r, k)'
<1>1. r.by[1] \in Nat /\ run \in Nat /\ r.by[1] <= run
  BY StampTypes, RunType DEF Records, Traced
<1>2. r.by[1] <= run' /\ r.by[1] # run'
  BY <1>1
<1>3. ASSUME r.by \in committed PROVE CommitTraced(r.by, k)'
  <2>1. PICK i \in 1 .. synced, j \in 1 .. synced :
          i < j /\ Change(i, r.by, k) /\ wal[j].by = r.by /\ wal[j].type = "COMMIT_TXN"
    BY <1>3 DEF Traced, CommitTraced
  <2>2. synced \in Nat /\ Len(wal) \in Nat /\ synced <= n /\ n <= Len(wal) /\ n \in Nat
    BY DEF TMTypeOK
  <2>3. \A l \in 1 .. n : wal'[l] = wal[l]
    BY <2>2 DEF TMTypeOK
  <2>4. i \in 1 .. synced' /\ j \in 1 .. synced' /\ wal'[i] = wal[i] /\ wal'[j] = wal[j]
    BY <2>2, <2>3
  <2> QED
    BY <2>1, <2>4 DEF CommitTraced, Change
<1> QED
  BY <1>2, <1>3 DEF Traced

\* A record that is stored has left its trace.
LEMMA AllTracedStep ==
  ASSUME TMTypeOK, Control, OwnTxns, Ends, StoreLogged, CommitIsLast, AllTraced, [TMNext]_vars
  PROVE  AllTraced'
<1> SUFFICES ASSUME NEW k \in Keys, NEW r, r = cache'[k] \/ r = disk'[k]
             PROVE  Traced(r, k)'
  BY DEF AllTraced, Traced
<1>0. \A s : s = cache[k] \/ s = disk[k] => Traced(s, k) /\ s \in Records
  BY DEF AllTraced, TMTypeOK
<1>1. CASE UNCHANGED vars
  BY <1>0, <1>1 DEF Traced, CommitTraced, Change, vars
<1>2. ASSUME NEW th \in Threads, ThreadStep(th) PROVE Traced(r, k)'
  <2>1. CASE r = cache[k] \/ r = disk[k]
    BY <1>0, <1>2, <2>1, TracedStep
  <2>2. CASE PutStore(th) /\ Put(op[th].txn, op[th].key) /\ k = op[th].key /\ r = cache'[k]
    <3>0. PICK t : t = op[th].txn
      OBVIOUS
    <3>1. r = [by |-> Stamp(t), present |-> TRUE] /\ UNCHANGED <<run, committed>>
      BY <2>2, <3>0, StoreIsLogged DEF TMTypeOK
    <3>2. t \in activeTxns
      BY <2>2, <3>0 DEF PutStore, OwnTxns
    <3>3. Logged(Stamp(t), k, "PUT_RECORD")'
      BY <2>2, <3>0, <3>1, StoreIsLogged DEF Stamp, Logged
    <3> QED
      BY <3>1, <3>2, <3>3, NewTraced
  <2>3. CASE DeleteFound(th) /\ k = op[th].key /\ r = cache'[k]
    <3>0. PICK t : t = op[th].txn
      OBVIOUS
    <3>1. r = [by |-> Stamp(t), present |-> FALSE] /\ UNCHANGED <<run, committed>>
      BY <2>3, <3>0, DeleteIsLogged DEF TMTypeOK
    <3>2. t \in activeTxns
      BY <2>3, <3>0, DeleteIsLogged
    <3>3. Logged(Stamp(t), k, "DELETE_RECORD")'
      BY <2>3, <3>0, <3>1, DeleteIsLogged DEF Stamp, Logged
    <3> QED
      BY <3>1, <3>2, <3>3, NewTraced
  <2>4. CASE CommitFlush(th)
    <3>1. cache' = cache
      BY <2>4 DEF CommitFlush
    <3>2. disk'[k] = cache[k] \/ disk'[k] = disk[k]
      BY <2>4 DEF CommitFlush, Flushed
    <3> QED
      BY <2>1, <3>1, <3>2
  <2>5. CASE /\ k # op[th].key \/ r = disk'[k]
             /\ Put(op[th].txn, op[th].key) \/ Delete(op[th].txn, op[th].key)
             /\ disk' = disk
    BY <2>1, <2>5 DEF Put, Delete, TMTypeOK
  <2> QED
    BY <1>2, <2>1, <2>2, <2>3, <2>4, <2>5, StoreStep DEF DeleteFound, Deleting
<1>3. CASE Crash \/ Close
  <2>1. PICK S \in SUBSET dirty, n \in synced .. Len(wal) :
               Restart(Flushed(S), SubSeq(wal, 1, n))
    BY <1>3, EndOfRunIsRestart
  <2>2. r = cache[k] \/ r = disk[k]
    BY <2>1 DEF Restart, Flushed
  <2>3. synced' = n
    BY <2>1 DEF Restart, TMTypeOK
  <2> QED
    BY <1>0, <2>1, <2>2, <2>3, TracedRestart DEF Restart
<1> QED
  BY <1>1, <1>2, <1>3, TMStepCases

\* A put that is about to store has logged, whoever shares the transaction.
LEMMA StoresAreLogged == TMSpec => []StoreLogged
<1>1. TMInit => StoreLogged
  BY DEF TMInit, StoreLogged
<1>2. ASSUME TMTypeOK, Control, StoreLogged, [TMNext]_vars PROVE StoreLogged'
  <2>1. CASE UNCHANGED vars
    BY <1>2, <2>1 DEF StoreLogged, Logged, Stamp, vars
  <2>2. CASE Crash \/ Close
    BY <2>2, <1>2, EndOfRunIsRestart DEF Restart, StoreLogged
  <2> QED
    BY <1>2, <2>1, <2>2, StoreLoggedStep, TMStepCases
<1> QED
  BY <1>1, <1>2, TMTypeCorrect, PTL DEF TMSpec

\* Without sharing, a thread is in an operation of its own transaction.
LEMMA OwnIfUnshared == TMSpec => [](~Sharing => OwnTxns)
<1>1. CASE Sharing
  BY <1>1, PTL
<1>2. CASE ~Sharing
  BY <1>2, OperationsAreOwn, PTL
<1> QED
  BY <1>1, <1>2

\* A COMMIT entry that commitTransaction has flushed stays the last of its
\* transaction until the function returns, and is in the file.
LEMMA CommitsAreLast == ASSUME LogsAlone PROVE TMSpec => []CommitIsLast
<1>1. TMInit => CommitIsLast
  BY DEF TMInit, CommitIsLast, Committing
<1>2. ASSUME ~Sharing => OwnTxns, TMTypeOK, Control, CommitIsLast, [TMNext]_vars
      PROVE  CommitIsLast'
  <2>1. CASE UNCHANGED vars
    BY <1>2, <2>1 DEF CommitIsLast, CommitLogged, Committing, Stamp, vars
  <2>2. CASE Crash \/ Close
    BY <2>2, <1>2, EndOfRunIsRestart DEF Restart, CommitIsLast, Committing
  <2> QED
    BY <1>2, <2>1, <2>2, CommitIsLastStep, TMStepCases
<1> QED
  BY <1>1, <1>2, TMTypeCorrect, OwnIfUnshared, PTL DEF TMSpec

\* Of what a commit that returned true wrote, the synced part of the log has the
\* entry and the COMMIT entry after it, through crashes and restarts: recovery
\* can redo it (transaction.cpp:54-61; wal.cpp:144).
THEOREM CommittedIsRecoverable == ASSUME ~Sharing PROVE TMSpec => []CommittedIsLogged
<1>1. TMInit => AllTraced
  <2> SUFFICES ASSUME TMInit, NEW k \in Keys, NEW r, r = cache[k] \/ r = disk[k]
               PROVE  Traced(r, k)
    BY DEF AllTraced
  <2>1. r.by = <<0, 0>> /\ run = 1 /\ committed = {}
    BY DEF TMInit, NoStamp
  <2> QED
    BY <2>1 DEF Traced
<1>2. AllTraced => CommittedIsLogged
  BY DEF AllTraced, Traced, CommitTraced, Change, CommittedIsLogged
<1>3. LogsAlone
  BY DEF LogsAlone
<1> QED
  BY <1>1, <1>2, <1>3, AllTracedStep, TMTypeCorrect, OperationsAreOwn, EndsAreFinal,
     StoresAreLogged, CommitsAreLast, PTL DEF TMSpec

------------------------------------------------------------------------------
(* Nothing is logged of a transaction that has ended *)

\* The log has entries of this run and of earlier ones.
LogOfRuns == \A i \in 1 .. Len(wal) : wal[i].by[1] <= run

\* Entry i is the last one of its transaction.
LastEntry(i) == \A j \in i + 1 .. Len(wal) : wal[j].by # wal[i].by

\* An entry is written for a transaction that has not ended.
LEMMA EntryOfUnended ==
  ASSUME LogsAlone, ~Sharing => OwnTxns, TMTypeOK, Control, Ends,
         NEW th \in Threads, ThreadStep(th), ~UNCHANGED <<wal, synced>>
  PROVE  \E e \in LogEntries :
           /\ Len(wal') = Len(wal) + 1 /\ wal'[Len(wal) + 1] = e
           /\ e.by[1] = run /\ e.by \notin committed \cup aborted
           /\ committed' = committed
           /\ aborted' = aborted \/ (e.type = "ABORT_TXN" /\ aborted' = aborted \cup {e.by})
<1>1. PICK type \in EntryTypes, t \in Txns, k \in Keys \cup {NoKey}, intact \in BOOLEAN :
        /\ wal' = Append(wal, Entry(type, t, k, intact))
        /\ \/ MutexFree /\ (t \in activeTxns \/ t = nextTxnId)
           \/ pc[th] = "logging" /\ t = op[th].txn
        /\ committed' = committed
        /\ \/ aborted' = aborted
           \/ type = "ABORT_TXN" /\ aborted' = aborted \cup {Stamp(t)}
  BY WalStep
<1>2. t \in activeTxns \/ t = nextTxnId
  <2>1. ASSUME pc[th] = "logging" PROVE ~Sharing
    BY <2>1 DEF Control, InOperation, LogsAlone
  <2> QED
    BY <1>1, <2>1 DEF OwnTxns
<1>3. Stamp(t) \notin committed \cup aborted /\ Stamp(t)[1] = run
  BY <1>2, NotEnded, StampParts
<1>e. PICK e : e = Entry(type, t, k, intact)
  OBVIOUS
<1>4. e \in LogEntries /\ e.by = Stamp(t) /\ e.type = type
  BY <1>e, EntryType DEF Entry
<1>5. Len(wal') = Len(wal) + 1 /\ wal'[Len(wal) + 1] = e
  BY <1>1, <1>e, <1>4, LogType
<1> QED
  BY <1>1, <1>3, <1>4, <1>5

\* abortTransaction has logged its entry when it ends the transaction.
LEMMA AbortLogs ==
  ASSUME TMTypeOK, NEW th \in Threads, NEW t \in Txns, Abort(th, t)
  PROVE  wal' # wal
<1>1. PICK intact : wal' = Append(wal, Entry("ABORT_TXN", t, NoKey, intact))
  BY DEF Abort, WriteLogEntry
<1> QED
  BY <1>1 DEF TMTypeOK

\* A transaction that has its COMMIT or ABORT entry gets no other.
LEMMA NothingAfterStep ==
  ASSUME LogsAlone, ~Sharing => OwnTxns, TMTypeOK, Control, Ends, CommitIsLast, LogOfRuns,
         NothingAfterTheEnd, NEW th \in Threads, ThreadStep(th)
  PROVE  LogOfRuns' /\ NothingAfterTheEnd'
<1>0. /\ run' = run /\ run \in Nat /\ Len(wal) \in Nat /\ Len(wal') \in Nat
      /\ Len(wal) <= Len(wal')
      /\ \A i \in 1 .. Len(wal) : wal'[i] = wal[i]
  BY LogGrows, RunType
<1>1. CASE UNCHANGED <<wal, synced>>
  <2>1. LogOfRuns'
    BY <1>0, <1>1 DEF LogOfRuns
  <2>2. ASSUME NEW i \in 1 .. Len(wal), wal[i].by[1] = run, LastEntry(i)
        PROVE  /\ wal[i].by \in committed' => wal[i].type = "COMMIT_TXN"
               /\ wal[i].by \in aborted'   => wal[i].type = "ABORT_TXN"
    <3>1. /\ wal[i].by \in committed => wal[i].type = "COMMIT_TXN"
          /\ wal[i].by \in aborted   => wal[i].type = "ABORT_TXN"
      BY <2>2 DEF NothingAfterTheEnd, LastEntry
    <3>2. ~ \E t \in Txns : Abort(th, t)
      BY <1>0, <1>1, AbortLogs
    <3>3. CASE CommitRelease(th) /\ wal[i].by = Stamp(op[th].txn) /\ aborted' = aborted
      <4>1. CommitLogged(wal[i].by)
        BY <3>3 DEF CommitIsLast, Committing, CommitRelease
      <4>2. PICK j \in 1 .. synced :
              /\ wal[j].by = wal[i].by /\ wal[j].type = "COMMIT_TXN"
              /\ \A l \in j + 1 .. Len(wal) : wal[l].by # wal[i].by
        BY <4>1 DEF CommitLogged
      <4>3. j \in 1 .. Len(wal)
        BY LogGrows
      <4>4. i \notin j + 1 .. Len(wal) /\ j \notin i + 1 .. Len(wal)
        BY <2>2, <4>2 DEF LastEntry
      <4>5. i = j
        BY <1>0, <4>3, <4>4
      <4> QED
        BY <3>1, <3>3, <4>2, <4>5
    <3> QED
      BY <3>1, <3>2, <3>3, EndStep
  <2> QED
    BY <1>0, <1>1, <2>1, <2>2 DEF NothingAfterTheEnd, LastEntry
<1>2. CASE ~UNCHANGED <<wal, synced>>
  <2>1. PICK e \in LogEntries :
          /\ Len(wal') = Len(wal) + 1 /\ wal'[Len(wal) + 1] = e
          /\ e.by[1] = run /\ e.by \notin committed \cup aborted
          /\ committed' = committed
          /\ aborted' = aborted \/ (e.type = "ABORT_TXN" /\ aborted' = aborted \cup {e.by})
    BY <1>2, EntryOfUnended
  <2>2. LogOfRuns'
    BY <1>0, <2>1 DEF LogOfRuns
  <2>3. ASSUME NEW i \in 1 .. Len(wal'), wal'[i].by[1] = run, LastEntry(i)'
        PROVE  /\ wal'[i].by \in committed' => wal'[i].type = "COMMIT_TXN"
               /\ wal'[i].by \in aborted'   => wal'[i].type = "ABORT_TXN"
    <3>1. CASE i = Len(wal) + 1
      BY <2>1, <3>1
    <3>2. CASE i \in 1 .. Len(wal)
      <4>1. wal'[i] = wal[i] /\ LastEntry(i) /\ e.by # wal[i].by
        <5>1. wal'[i] = wal[i]
          BY <1>0, <3>2
        <5>2. Len(wal) + 1 \in i + 1 .. Len(wal')
          BY <1>0, <2>1, <3>2
        <5>3. e.by # wal[i].by
          BY <2>1, <2>3, <5>1, <5>2 DEF LastEntry
        <5>4. ASSUME NEW j \in i + 1 .. Len(wal) PROVE wal[j].by # wal[i].by
          <6>1. j \in i + 1 .. Len(wal') /\ wal'[j] = wal[j]
            BY <1>0, <3>2
          <6> QED
            BY <2>3, <5>1, <6>1 DEF LastEntry
        <5> QED
          BY <5>1, <5>3, <5>4 DEF LastEntry
      <4>2. /\ wal[i].by \in committed => wal[i].type = "COMMIT_TXN"
            /\ wal[i].by \in aborted   => wal[i].type = "ABORT_TXN"
        BY <2>3, <3>2, <4>1 DEF NothingAfterTheEnd, LastEntry
      <4> QED
        BY <2>1, <4>1, <4>2
    <3> QED
      BY <1>0, <2>1, <3>1, <3>2
  <2> QED
    BY <1>0, <2>2, <2>3 DEF NothingAfterTheEnd, LastEntry
<1> QED
  BY <1>1, <1>2

\* The last entry of a transaction that ended in this run is its COMMIT or ABORT
\* entry: no operation logs anything after it.  Of putRecord this needs that no
\* other thread ends the transaction, since it looks only once whether it is
\* active; deleteRecord looks again (transaction.cpp:107-131, 216-222).
THEOREM EndIsLastEntry == ASSUME LogsAlone PROVE TMSpec => []NothingAfterTheEnd
<1>1. TMInit => LogOfRuns /\ NothingAfterTheEnd
  BY DEF TMInit, LogOfRuns, NothingAfterTheEnd
<1>2. ASSUME ~Sharing => OwnTxns, TMTypeOK, Control, Ends, CommitIsLast, LogOfRuns,
             NothingAfterTheEnd, [TMNext]_vars
      PROVE  LogOfRuns' /\ NothingAfterTheEnd'
  <2>1. CASE UNCHANGED vars
    BY <1>2, <2>1 DEF LogOfRuns, NothingAfterTheEnd, vars
  <2>2. CASE Crash \/ Close
    <3>1. PICK n \in synced .. Len(wal) : wal' = SubSeq(wal, 1, n) /\ run' = run + 1
      BY <1>2, <2>2, EndOfRunIsRestart DEF Restart
    <3>2. ASSUME NEW i \in 1 .. Len(wal') PROVE wal'[i].by[1] \in Nat /\ wal'[i].by[1] <= run
      <4>1. i \in 1 .. Len(wal) /\ wal'[i] = wal[i]
        BY <1>2, <3>1 DEF TMTypeOK
      <4>2. wal[i] \in LogEntries
        BY <1>2, <4>1 DEF TMTypeOK
      <4>3. wal[i].by \in Stamps
        BY <4>2 DEF LogEntries
      <4> QED
        BY <1>2, <4>1, <4>3, StampTypes DEF LogOfRuns
    <3>3. run \in Nat
      BY <1>2, RunType
    <3>4. \A i \in 1 .. Len(wal') : wal'[i].by[1] <= run' /\ wal'[i].by[1] # run'
      BY <3>1, <3>2, <3>3
    <3> QED
      BY <3>4 DEF LogOfRuns, NothingAfterTheEnd
  <2> QED
    BY <1>2, <2>1, <2>2, NothingAfterStep, TMStepCases
<1> QED
  BY <1>1, <1>2, TMTypeCorrect, OwnIfUnshared, EndsAreFinal, CommitsAreLast, PTL DEF TMSpec

================================================================================
