# StoneDB engine: models and proofs

TLA+ models of the StoneDB storage engine, the TLC runs that check them on small
instances, and theorems that TLAPS has proved of them. Every definition is
translated from the C++ sources under `src/`; where a document and the code say
different things, the model does what the code does, and the last part of
[Findings](#findings) says where they differ. File and line numbers are those of
`src/src/*.cpp` unless a path is given.

## Inventory

| Part | State | Operations | Shared with |
|---|---|---|---|
| Lock manager (`lockmgr.cpp`) | `lockTable` (granted and waiting requests per key), `txnLocks`, `txnWaits`, `lockMutex`, `lockCondition` | `acquireLock`, `releaseLock`, `releaseAllLocks`, `hasDeadlock`, `printLockStatus` | every client thread |
| Transaction manager (`transaction.cpp`) | `activeTxns` with their read and write sets, `nextTxnId`, `txnMutex` | `beginTransaction`, `commitTransaction`, `abortTransaction`, `putRecord`, `getRecord`, `deleteRecord` | calls the other three |
| Write-ahead log (`wal.cpp`) | one `std::fstream`, with a buffer and a failbit, and the file | `log*`, `flush`, `replayLog`, `checkpoint`, `truncateLog`, `open`, `close` | no mutex of its own |
| Storage manager (`storage.cpp`) | page cache with dirty flags, `allocatedPages`, `keyToPage`, `cacheMutex`, the file | `putRecord`, `getRecord`, `deleteRecord`, `scanRecords`, `flushAll`, `open`, `close`, and the page functions | every client thread |
| Command line (`main.cpp`) | the command under way, the file of backup and restore | `put`, `get`, `del`, `scan`, `backup`, `restore`, `quit` | single-threaded client of the transaction manager and of `scanRecords` |
| Statistics, error codes, logging | counters and strings | none that anything depends on | |

How they interact. A client thread calls the transaction manager. A put, get or
delete looks its transaction up under `txnMutex`, lets go of it, calls
`acquireLock` (which may sleep), and then calls the log and the storage. A commit
keeps `txnMutex` from its first line to its last: it writes and flushes COMMIT,
flushes all dirty pages, and releases the locks. `main` opens the two files and
does not replay the log, so what a crash leaves in the database file is what the
next run has. Its loop makes one transaction per command, and reacts to a failure of
each part of it in its own way: it aborts after a put or delete that failed, not after
a commit that failed, except for restore.

What is hard in it:

- **Interleaving.** `acquireLock` gives `lockMutex` up in the middle, on a
  condition variable that all waiters of all keys share; `releaseAllLocks` cancels
  a waiting call by erasing `txnWaits` and leaves its request in the queue; a
  transaction can end while one of its operations waits for a lock; puts write the
  log without any mutex.
- **Deadlock.** Two keys in opposite orders, waiting for a lock with `txnMutex` in
  hand, and a function that locks a mutex its caller holds (`storage.cpp:292`).
- **Crashes and partial failure.** Commit has three effects in a fixed order, and
  each can fail; `flushAll` stops at the first page it cannot write; the log's
  buffer is cut anywhere, also inside an entry, and the next run appends behind it.
- **Answers.** A command is several writes to two files; the user knows only what the
  loop printed, and the loop ignores some results (the id of `beginTransaction`, the
  commit of a get, single puts of a restore).
- **Text.** `backup` escapes values for JSON; `restore` reads them back by hand, with
  rules of its own for where a value starts and ends.
- **Layout.** Six loops walk through a page, by rules that differ; a deleted record
  keeps its place. Two readers of the log disagree on where an entry has its lengths.

What makes each part correct: readers-writer exclusion, no lost wake-up, an index
that covers all granted locks and a true answer that means a held lock (lock
manager); strict two-phase locking, serializability, write-ahead order, durable
commits, nothing left locked (transactions); a log that can be read again and keeps
what a commit flushed (log); a record that stays what was put, in every walk (storage); answers that stay
true, and nothing left locked that the user cannot know of (command line).
`PROJECT.json` lists the hazards one by one with the line where each bites.

## Modules

| Module | What it is |
|---|---|
| `RWLocks` | abstract: what a lock manager promises its transactions |
| `LockManager` | `lockmgr.cpp`; its property `RWSpec` maps it to `RWLocks` |
| `LockClients` | `LockManager` used by clients that lock in ascending order |
| `TransactionManager` | `transaction.cpp`, on `LockManager`, with the log and the storage as it sees them |
| `Bytes` | `memcpy` of lengths and ids, zeros, slices |
| `WalFormat`, `WriteAheadLog` | the bytes of the log; the log over several runs of the program |
| `KVStore` | abstract: what a storage manager promises the transaction manager |
| `PageLayout`, `PageStore` | the bytes of a page; the storage manager over several runs; its property `ImplementsKVStore` maps it to `KVStore` |
| `BackupFile`, `CommandLine` | the text of a backup file; `main.cpp`, on `TransactionManager` |
| `MC*` | values of the constants for TLC |
| `LockManagerProofs`, `LockClientsProofs` | the theorems about `LockManager` and `LockClients` |
| `TransactionManagerProofs` | the theorems about `TransactionManager`: locking, up to serializability; what becomes of the data |
| `SequenceInduction` | induction over numbers, and lemmas about joined sequences that rest on it |
| `WalProofs` | the theorems about `WriteAheadLog` and the bytes of an entry |
| `PageStoreProofs` | the theorems about `PageStore` and the walks through a page |
| `BackupFileProofs`, `CommandLineProofs` | the theorems about what `restore` reads, and about `CommandLine` |

`LockManager` is extended by `LockClients` and by `TransactionManager`, and that by
`CommandLine`; their actions are the actions of the module below joined with their own. The log and the storage appear twice:
in `TransactionManager` as a sequence of entries and a function from keys to writers,
because there the question is who does what in which order; in `WriteAheadLog` and
`PageStore` as bytes, because there the question is what a reader makes of them.
`ImplementsKVStore` ties the two views of the storage together until the first delete or resize:
`cache` and `disk` of `TransactionManager` are `mem` and `file` of `KVStore`. From then on pages do not
behave like a map (finding 5), and `TransactionManager` does not take them for one: see `astray` below.

### LockManager

One action for each path through `acquireLock` up to its return or its wait
(`AcquireHeld`, `AcquireDeadlock`, `AcquireGrant`, `AcquireWait`), one for each
thing a woken caller does (`ResumeCancelled`, `ResumeWait`, `ResumeGrant`),
`SpuriousWakeup`, `ReleaseLock` and `ReleaseAllLocks`; each is one step because it
runs under `lockMutex`. `granted` and `queued` are the two parts of `lockTable`:
a set, since granted requests are only tested for and removed all at once, and a
bag, since waiting ones are taken one at a time. `call`, `asleep` and `ok` are the
stack of a client thread: the call it waits in, whether it is in the condition
variable, and what its last call returned. `hasCycle`'s depth-first search is
modelled by what it decides: there is a cycle in everything reachable from the
transaction. `MaxQueued` bounds equal waiting requests on one key.

### LockClients

A transaction of its own for every thread, keys in ascending order of `Rank`, and
everything released at the end: `test_concurrent.cpp` has such clients, with one
key each. Fairness is weak fairness of two things per thread. `Resume`: a thread
that has been woken and can take `lockMutex` runs on, which an operating system
that schedules every runnable thread gives. `ClientFinish`: a client that is not
waiting ends its transaction some time. Nothing obliges a sleeping thread to wake
without a notification, so a lost wake-up would be a counterexample, and nothing
obliges a client to take locks. `CommandLine` is the only other specification that assumes fairness.

### TransactionManager

One step is what a thread does without letting go of a mutex, or one call into the
lock manager, the log or the storage. An operation is `Start` (the lookup),
`Acquire` and `Wake` (the lock), then for a put `PutLogStart`, `PutLogged` or
`PutLogFails`, `PutStore` and `Note`; for a get `GetRead` and `Note`; for a delete
one step under `txnMutex`, `DeleteApply`. Commit is `CommitLog`, `CommitFlush` and
`CommitRelease` with `txnMutex` kept between them; abort is one step, which undoes
nothing. `Crash` keeps any prefix of the log that has what was flushed, and inside
`CommitFlush` any part of the pages. `Close` flushes the pages, all or, if that fails or a crash
comes in between, some of them. Both start the next run with the next value of `run`. An I/O call may
fail, up to `MaxFailures` times.

`astray` is the set of keys of which the storage may find something else than what was last put. A delete,
or a put of another length (`"resize"` in `Ops`), adds its key and any others: in the code a delete or a resize
leaves bytes on the page that the walks misread, and may hide any record of that page (`storage.cpp:320-324, 501,
685-688`). Of a key in `astray` a get or a delete may find a record or none (`Found`), and a new record
may go to a damaged page, so once anything is astray each put and each restart may add keys. `astray` takes
no notice of pages, so it says less than the code does; that a page on which nothing was deleted or resized stays
in order is `RecordsStay`. What is said of `cache` and `disk` is about the change that was made last, not about
what a walk finds; properties about what the user gets leave out the keys in `astray`.

A log write outside `txnMutex` has a start and an end; one that overlaps another is
a data race, and its entry may or may not be spoilt (`intact`). A value is known by
the transaction that wrote it, written `<<run, id>>` because ids start again with
every run. `readers`, `writers` and `order` are history variables for `Serializable`.

`Sharing` says whether a thread may use transactions that other threads began; the
API allows it, `main.cpp` and the tests do not do it. `Ops` selects what clients and
environment of a run do; without `"resize"` all values have one length; `"full"` lets a put find no page with room and stay in
`putRecord` forever, which is modelled for programs with one thread, as with more of them
the others would stop at their next call of the storage.

### WalFormat and WriteAheadLog

`Serialize`, `Deserialize` and the loop of `replayLog` are given by offsets, as in
the code. `replayLog` does not use `deserializeEntry`; it reads 24 bytes in which it
expects both lengths, and `gcount` after its two reads counts the second alone.
`file` and `buffer` are the two parts of the stream; a flush and the seeks of
`replayLog` move one to the other. A `Crash` keeps any number of entries and
`CutBytes` bytes of the next; `ends` and `torn` record where an entry ends and behind
which a part of one was left.

### PageLayout and PageStore

`RecordsOf` (get, delete), `ScannedOf`, `IndexedOf` (open), `UpdatableOf` and `RoomFor`
(put) are the walks; `Walk` has what they share and its two arguments what they do
not: where to go on from a dead place that does not say how long it is, and which
places count as records. `FindFreeSpaceInPage` gives the page it leaves and whether
the record is in it, since it may erase the old record and then find no room.
In `PageStore` every operation is one step under `cacheMutex`. A put that finds no room
in any page calls `allocateNewPage`, which locks `cacheMutex` again: from then on
`hung` is true and nothing happens but a crash. `kept`, `stored`, `moved` and `mixed` are
history: what each key should have, in memory and in the file, and which keys and
pages saw a delete or a change of length.

Abstractions, and why they are sound:

- only dirty pages are kept: nobody else writes the file, so a clean page is the
  page of the file. `evictLRUPage` runs only when `open` reads pages, where none is dirty.
- the loops over `allocatedPages`, a hash table of small integers inserted in
  ascending order, meet them in descending order; that is what libstdc++ does for up to
  13 pages, and the runs have at most three.
- tests against `MAX_VALUE_SIZE` (2^20) are left out: a length has 16 bits.

The key-value store: `Mem` is what `getRecord` would return for each key now, `File` what it
would return after a restart, both by walking through the bytes. Until a record is
deleted or resized, every step of `PageStore` is a step of `KVStore` on the two: a put
changes one key in memory and nothing in the file, moves of the map (`keyToPage`)
change nothing, a flush that stops half-way brings some keys of the file up to date.

### BackupFile and CommandLine

A command is a sequence of calls (`cmd.calls`; restore has one put for each record it
reads, scan has none). `Accept` takes one at the prompt, `BeginTransaction`, `MakeCall`,
`Commit` and `AbortCommand` start the calls of the transaction manager, `Work` is every
step inside one of them; `Returned` and `Committed` say where the loop goes on after a result,
which differs from command to command. A call for a transaction that was
never begun returns false and changes nothing; that is no action of `TransactionManager`, so it is a
step here (the second half of `MakeCall`, and of `EndFails`). A COMMIT or ABORT that cannot be written
is one (`EndNotLogged`). Since the loop may then begin its next transaction, `Ops` has `"leave"`: a
thread begins although its last transaction is still active.
`Backup` makes no transaction. `EndOfRun` is quit, end of input, or a crash at any step.

`TransactionManager` knows a record by who wrote it; `shown` and `saved` add the value it has in
the cache and in the file. `LengthTells` ties the two: a put makes its key go astray when the
value it finds has another length. A scan (`Scans`) shows the values of the keys that did not go astray, and of
the others nothing or anything in `StrayValues`, maybe several times. `Promises` and `RestoreBringsBack` speak of
keys that did not go astray; nothing more is true of the code, as finding 5 shows.
`expected` is what the answers so far allow for each key:
`Done`, `NotDone` and `Unsure` are the three kinds of answers, and a command without an
answer is like the third.

Fairness is weak fairness of the steps of the loop and its calls together: the program
has one thread, which runs on as long as it can. Nothing obliges the user to type, the
program to crash or the disk to fail.

`BackupFile` has the text of a file as a sequence of characters, `Escape` for the eight
passes of `backup` over a value, and the parser of `restore` by positions as in the code.
A quoted name with its colon is one character, since a quote inside a value has a
backslash before it; indentation is one blank; keys are one character, as they are
neither escaped nor decoded. `Plain` says which values survive: not empty, not
starting with a blank, without comma, bracket or control characters other than tab,
newline and return. `FormatReadsBack` in `MCCommandLine` says that these are *exactly*
the ones, for all values of up to three of twelve characters beside one of up to one,
in both orders.

## Runs

All runs use two TLC workers and finish in two to three minutes at most. Deadlock is checked
in the runs of the lock manager, where a thread that is not waiting can always call
something; the others stop at their bounds, and say so.

| Run | Instance | Distinct states | What it shows |
|---|---|---|---|
| `locks` | 3 threads, 2 transactions (one shared by two threads), 1 key | 23 thousand | exclusion, the index, no lost wake-up, no stray or missing request, no false alarm, results that are true, and `RWSpec` |
| `locks_ordered` | 3 clients, 2 keys, 2 transactions each | 28 thousand | `OrderedWaits` and, under fairness, `OrderedClientsFinish` |
| `locks_undetected` | 2 threads, 2 keys | violation | `NoWaitCycle` fails |
| `txn_isolation` | 2 threads, 2 keys; put, get, abort, one failure | 2.3 million | with values of one length, strict two-phase locking, serializability; commits are in both files, the log is ahead of the pages |
| `txn_deletes` | 1 key, shared transactions; delete, abort, one failure, crash, shutdown | 0.9 million | nothing left locked, nothing logged after the end, no wait under `txnMutex` |
| `txn_failed_delete` | put, delete | violation | `Serializable` fails |
| `txn_close_keeps` | put, shutdown | violation | `OnlyCommittedAfterRestart` fails |
| `wal` | 4 entries, 2 transactions a run, 2 runs | 0.8 million | the log can be read again, the part of an entry that a crash leaves is taken for none, commits stay |
| `wal_replay` | the same | violation | `CommittedAreReplayed` fails |
| `pages` | 3 keys, one empty value, pages of 18 bytes, 2 runs | 0.2 million | records stay, scans are complete, what is put on an undamaged page is read, `KVStore` is implemented |
| `pages_delete` | the same | violation | `DeletesOne` fails |
| `cli` | 2 keys, values of two lengths, 2 commands a run, 2 runs; put, delete, scan, backup, restore; one failure, full store, crash, quit | 0.8 million | of keys that did not go astray: answers stay true, restore brings back what backup wrote; commits are in the database file, nothing is left behind, and under fairness every command is answered |

Why the bounds are enough. *Locks:* a third thread is what makes a notification reach
somebody other than the one it is for, and two threads in one transaction are what
makes a cancelled call meet a new request of the same kind; what happens on two keys
differs from what happens on one only in the wait graph, which `locks_ordered` and
`locks_undetected` have. *Transactions:* a serialization conflict and a write that
overtakes a commit need two transactions; a log of 5 entries has room for both to
begin, to write and to end. A delete that comes too late for its transaction needs less: 4 entries are two transactions of
which one deletes and ends. Ids of the second run meet ids of the first with
`MaxRun = 2`. *Command line:* two commands in a run let the second one meet what a failure of the
first left behind, and the second run meets what the end of the first left in the file; one
failure can hit any write. One key is in the file at first and the other is not, so a put and a
backup make a file of two records. The value that is put has the length of the one in the file and comes back cut
short by restore, so that three values of two lengths are in play, and a key may or may not go astray.
`StrayValues` has one value, so a backup may show a stray key or not. A log of 8 entries has room for a put, and for a
restore of two records with a commit and an abort. Gets are left out: they change nothing, and come by the steps
that a restore makes. *Log:* four entries are a transaction with two operations; the eight
`CutBytes` end in each field of an entry, so every test of `deserializeEntry` fails once.
The header size and the greatest key are those of the code. *Pages:* 18 bytes have room for two
small records or one large one, so a put can fit, be moved to the second page, or find
no room; `RECORD_HEADER_SIZE` is the code's; a key of the greatest length (2) is there, and an
empty value, with which a record ends with its key. `MaxMoves` counts only deletes and changes of length, the steps that damage a page; puts of the same
length, gets and flushes are not bounded.

`TwoPhase` and `Serializable` are checked of puts and gets, since a delete that fails
breaks them (`txn_failed_delete`). `EndedHoldNothing` and `NothingAfterTheEnd` are
checked of deletes when transactions are shared, since a put or get that comes too late
breaks them, as described below. `RecordsStay`, `ScanComplete` and `PutIsRead` except pages on which
a record was deleted or resized, and `PutIsRead` also a put that finds a shorter value; on such pages what a put
stores may not be found (see [Findings](#findings)). `LogDecodes` and
`CommitsSurvive` speak of the entries before the first torn one.

## Proofs

Eight modules hold theorems. They speak of the specifications that the runs check, for
every value of the constants that the assumptions in those modules allow: any number of threads,
transactions, keys, entries, failures and runs of the program, keys and values
of any length (in the log, of up to 65535 bytes). Bounds such as `MaxLog` or `MaxRun` are
constants like the others. Hypotheses beyond the assumptions are in the tables.

### Lock manager

| Theorem | Property | Rests on |
|---|---|---|
| `TypeCorrect` | `TypeOK` | inductive as it stands |
| `MutualExclusion` | `Exclusion` | `TypeOK`, `TableStep` |
| `IndexComplete` | `IndexAgrees` | `TypeOK`, `TableStep` |
| `NoWakeupLost` | `NoLostWakeup` | `TypeOK` |
| `ImplementsRWLocks` | `RWSpec` | `TypeOK`: every step grants, releases or stutters |
| `CallsHaveRequests` | `QueueCoversCalls` | `TypeOK` |
| `WaitsAreReal` | `WaitsHaveCalls` | `QueueCoversCalls` |
| `AlarmsAreReal` | `NoFalseAlarm` | `WaitsHaveCalls` |
| `TrueIsHeld` | `TrueMeansHeld` | `QueueCoversCalls` |
| `CheckNeverFires` | `OwnersNeverRefused` | `WaitsHaveCalls`, `CallsServed` (a call is for a transaction its thread serves) |
| `ReleasesAreOwn` | `OnlyOwnLocksReleased` | `TypeOK`, `ChangeCases` |
| `CancelledFails` | `CancelledCallFails` | `TypeOK`, `StaysCancelled` |
| `OrderedClientsNeverCycle` (of `LockClients`) | `OrderedWaits` | `Ordered`: who waits for a key has only smaller ones |

They assume finitely many threads, so that callers can be counted,
and a value `NoCall` that is no call.

The argument. `TableStep` says that as far as granted locks go a step either grants
one request that may be granted, or takes all locks of one transaction on some keys
away, or does nothing; exclusion, the index and the refinement follow from it. `ChangeCases` adds who does it: what
a transaction loses it loses in a step of `ReleaseLock` or `ReleaseAllLocks` of its own. A call that
waited is granted its own request only if that request is still in the queue, and
`releaseAllLocks` and equal requests of other threads make that less than obvious:
`QueueCoversCalls` is the strengthening that says there are as many equal requests
as callers, and it is proved by counting. With it, a grant never misses, so a
transaction is never left registered as waiting (`WaitsHaveCalls`), and from that
follow the two statements about the check for deadlock: it never reports a
transaction that has no other call waiting, and so never reports one that has a single thread.
That is the general form of what `locks_undetected` shows by example. For clients
that lock in one order, each edge of the wait graph leads to a transaction with
a key of a higher rank, so no cycle closes.

### Transaction manager

| Theorem | Property | Hypotheses | Rests on |
|---|---|---|---|
| `TMTypeCorrect` | `TMTypeOK` | | `Control` |
| `MutexHoldersDoNotWait` | `NoWaitUnderMutex` | | `Control` |
| `LocksHold` | the invariants of `LockManager` | | each step is one of `LockManager`, or restarts it |
| `IdsAreFresh`, `OperationsAreOwn` | `Ids`, `OwnTxns` | the second: `~Sharing` | `Control` |
| `NothingStaysLocked` | `EndedHoldNothing` | `EndsAlone` | `CallIsOp`, `OnlyLateDeletes` |
| `LocksKeptToTheEnd` | `TwoPhase` | no deletes | `Guarded`, `LocksOK` |
| `PutsAndGetsSerializable` | `Serializable` | `~Sharing`, no deletes | `Guarded`, `AccessesLocked`, `OwnTxns` |
| `LogIsAhead` | `LoggedBeforeStored` | | `StoreLogged`, `DirtyLogged` |
| `EndsAreFinal` | `Ends` | | `Ids` |
| `CommittedIsWritten` | `CommittedIsOnDisk` | `~Sharing` | `Clean`, `DirtyNotCommitted`, `ReleaseIsClean`, `Ends` |
| `CommittedIsRecoverable` | `CommittedIsLogged` | `~Sharing` | `StoreLogged`, `CommitIsLast`, `AllTraced` |
| `EndIsLastEntry` | `NothingAfterTheEnd` | `LogsAlone` | `CommitIsLast`, `LogOfRuns` |

The hypotheses are about how the code is used, and are those of the runs:

- *No deletes* (`"delete" \notin Ops`): a delete of a missing key releases all locks of its
  transaction, which breaks both properties (`txn_failed_delete`).
- `~Sharing`: a thread uses transactions that it began itself, as `main` and the tests do.
- `EndsAlone` is `~Sharing \/ Ops \cap {"put", "get"} = {}`: where transactions are shared, no put or
  get is made, since one whose transaction ends while it waits keeps the lock that it then gets.
- `LogsAlone` is `~Sharing \/ "put" \notin Ops`: such a put also logs after the COMMIT.

The argument. Where a thread is (`pc`) and what it is doing there (`op`, `call`) are typed
together (`Control`). *Locking:* a waiting call is that of its thread's operation (`CallIsOp`), so the
lock it is granted is the one the operation needs; a thread that has passed `acquireLock` holds it as
long as its transaction is active (`Guarded`), and a lock of a transaction that has ended belongs to a
delete that is about to notice (`OnlyLateDeletes`). A transaction that has accessed a key still holds its
lock on it while it is active (`AccessesLocked`), so whoever conflicts with it came before and has ended:
new edges of `order` lead from ended transactions to an active one, and close no cycle.
*Data:* with `txnMutex` in hand from COMMIT to the release, nobody else begins or ends a transaction, but
others go on with their puts; what makes a commit durable is that none of these has
the stamp of the one that commits (`ReleaseIsClean`, `DirtyNotCommitted`), and a page that is not dirty is
the same in the file (`Clean`). `Traced` follows a record back to its entry in the log, over restarts after
which ids are used again: `Ends` and stamps with the number of the run tell them apart.

### Log

| Theorem | Property | Rests on |
|---|---|---|
| `WalTypeCorrect` | `WalTypeOK` | `WalInv` |
| `LogIsReadable` | `LogDecodes` | `WalInv`, `PlacedRead` |
| `CommitsAreKept` | `CommitsSurvive` | `WalInv`, `PlacedRead` |
| `PartsAreNoEntries` | `CutIsNoEntry` | `WalInv`, `DeserializePart` |

They assume of the constants what the types of the code say: a timestamp has eight bytes, keys and
values are strings of bytes, and shorter than 65536, which is what a length of two bytes can say. The
code also takes longer values; what it logs for them cannot be read (hazard at `wal.cpp:81`).

The argument. `deserializeEntry` undoes `serializeEntry` whatever follows the entry
(`DeserializeWhole`), and finds no entry in a proper part of one (`DeserializePart`). `WalInv` has the types, what a
commit flushed (`CommitsFlushed`), and `Placed`: entry `i` of `written` is in the bytes of the log up to
`ends[i]`, directly behind the one before it or behind a torn part. None of the properties is inductive,
since they speak of what a reader makes of the bytes; `Placed` is: an append adds a place (`PlacedAppend`), a crash takes
places away (`PlacedCut`), and moving bytes from the buffer to the file changes none. What reading finds in bytes with
places is a lemma about data (`PlacedRead`), by induction from the last entry back.

### Command line

| Theorem | Property | Rests on |
|---|---|---|
| `CommandsAreTransactions` | `CLSpec => TMSpec` | `Manager`, `Loop` |
| `CommandsAreDurable` | `CommittedIsOnDisk`, `CommittedIsLogged` | the theorem before, `CommittedIsWritten`, `CommittedIsRecoverable` |
| `CLTypeCorrect` | `CLTypeOK` | `CLInv` |
| `AnswersAreKept` | `Promises` (of keys not in `astray`) | `CLInv` |
| `PromptIsClean` | `CleanPrompt` | `CLInv` |
| `RestoreReadsRecords` (of `BackupFile`) | | `Laid` |

They assume one thread, transactions that are not shared, finitely many keys and `StrayValues`, and keys
that are not characters with a meaning in the text of a backup (quotes, brackets, blanks, names of
fields), which `backup` does not escape.

The argument. Every step of the loop is a step that the transaction manager allows its clients, or one that
does not touch it; so its invariants (`Manager`) hold of the program, too. `Loop` says where the thread is at each stage
of a command. `Promises` itself is not inductive: whether a value may be there depends on which calls of the command
have been made (`KeyValues`), what a crash brings back is what the file has (`SavedShown`, `CellsOK`), and that a commit which
returned true has put all of it there needs `ReleaseWrote` and, to tell the records of this command from older ones
with the same id, `Fresh` and `StampsOld`. `CleanPrompt` counts transactions that were left open (`LeftOpen`). A
restore makes its calls from what the parser finds in the file; that it finds keys that were backed up, each
with a value, and never takes a part of a value for a key, is `RestoreReadsRecords`.

### Storage manager

| Theorem | Property | Hypotheses | Rests on |
|---|---|---|---|
| `StoreInvariant` | `StoreInv` | | inductive as it stands |
| `StoreTypeCorrect` | `StoreTypeOK` | | `Shape` |
| `UndamagedRecordsStay` | `RecordsStay` | nothing is damaged, or it is the first run | `PagesSound`, `MapRight` |
| `ScansAreComplete` | `ScanComplete` | | `PagesSound`, `WalksAgree` |
| `PagesImplementKVStore` | `ImplementsKVStore` | | `MemIsKept` |
| `HarmlessPutsAreRead` | `PutIsRead` | | `PutKeepsPage`, `ShortenedPage` |

They assume of the constants: a page of at most 65535 bytes (the code's has 4096), a record header of at
least the two lengths, keys that are not empty and not longer than `MAX_KEY_SIZE`, and a value
`Nothing` that is none of the values. Nothing is assumed of how long values are, or of how many pages, keys,
puts, deletes and runs there are.

The argument. A page is `Laid` if it has records one behind the other from its first byte on and only zeros behind the
last. On such a page the walks of get, scan, open and put come by the same places, although what
they do with a dead place differs (`WalksAgree`), and the walk that looks for room ends where the
records end (`RoomAtEnd`). A put keeps a page laid (`PutKeepsPage`): it either writes
over a value of the same length (`ReplaceKeepsPage`), or adds a record at the end (`AddKeepsPage`), or leaves the page
as it is and does not have the key there. A page is `Sound` if it is laid and its records are
those that `kept`, or `stored` for the page in the file, has for it. `StoreInv` says that every page that is not in `mixed` is
sound in memory and in the file (`PagesSound`), that the file lags behind memory in values only (`Ghosts`), and
that the map knows where each key is (`MapRight`). What happens on one page does not disturb another: an attempt
to put that finds no room leaves the page alone (`Tried`), a delete changes the page it found its record on, and a flush of
some of the pages leaves a file whose pages are sound each for itself (`SavedSound`), from which `open` makes
a map that is right (`IndexedRight`). Which of two pages a loop over `allocatedPages` meets first makes no difference to this, since
a key is on one sound page only.

The hypotheses. *Nothing is damaged* is `mixed = {}`, no record was deleted or resized. *The first run:*
after a delete the walks go on in the middle of the old value (finding 5), and what
they find there is up to the user, who chose the value. If it looks like a record of some other key, the next `open` makes an entry
for that key, and `getRecord` looks there first. So `RecordsStay` in later runs of a damaged store is
true only of values whose bytes do not look like records, as those of the run. *`Harmless`*, which is part of
`PutIsRead`: the record is new on a page that is not in `mixed`, or replaces a value that is no shorter. A shorter value leaves the
rest of the old one between its record and the next, where walks can stop or go astray, but not before they have met the new
record (`WalkReaches`). A longer value is written elsewhere, and the old place is dead: whether walks get past it depends on
the bytes of the old value.

### Induction over data

The theorems about texts and bytes need induction over recursive functions of any argument. The
library's rules for that take an operator as parameter. `SequenceInduction`
has rules about sets of numbers instead (`SetInduction`, `DownInduction`: a set that has its first number, and
with each the next, has all of them); a proof defines the set of numbers for which the claim holds. That
`CHOOSE` finds the function a recursive definition means is proved first (`DecodesExists`, `ReadsExists`, `RestoresExists`,
`FollowsExists` for the walks).

### Only model-checked

- Liveness: `OrderedClientsFinish` and `Answered`. The prover has no rules for fairness.
- `RecordsStay` of damaged stores after the first run. It depends on the instance, as said above.
- `RestoreBringsBack` and `FormatReadsBack`: which values a backup brings back unchanged. Proved is only that
  what is read are keys that were backed up, with values.

## Findings

Five runs end in a counterexample to what a document or a test of the repository says:

1. `locks_undetected`: `hasDeadlock` runs before the new wait is registered (103-109), so two
   transactions that lock two keys in opposite orders sleep forever.
2. `txn_failed_delete`: a delete of a missing key releases every lock of its
   transaction, which goes on (`transaction.cpp:233`).
3. `txn_close_keeps`: `close` writes pages of transactions that never committed;
   `test_recovery.cpp:57` asserts that they are not there.
4. `wal_replay`: `replayLog` expects `valueLen` next to `keyLen`, `serializeEntry` puts the key
   between them, and a new log has no header to skip; nothing is replayed.
5. `pages_delete`: after a delete the walks go on `keyLen` bytes short of the next
   record, and the records behind are lost.

Met on the way, and part of the models although no run is about them:

- `abortTransaction` undoes nothing, where `docs/API.md` lines 127 and 167 speak of rolling back.
- A put or get whose transaction was ended by another thread while it waited keeps
  the lock it then gets; a delete looks again and gives it back (`transaction.cpp:118, 216`).
- A transaction that has a key SHARED and asks for EXCLUSIVE waits for itself (`lockmgr.cpp:91-110`).
- The log is ahead of the cached page in order only; it is flushed at commit, so the file of
  pages never has what the log file lacks only because pages are flushed after it.
- A commit whose page flush failed may be aborted afterwards; COMMIT is in the log then,
  and `replayLog` would count the transaction as committed.
- `replayLog` matches ids over the whole log, and ids start again from 1 in every run.
  A second replay in a row returns nothing, because the first left the stream failed.
- What is appended behind a torn entry cannot be found again. `replayLog` reads the torn part and what follows
  as one, at places where no entry was written, and the bytes of some values look like an entry there: it
  may return an operation that was never logged. So nothing holds in general of what it returns, and no property
  speaks of it but the one that fails.
- In a dead place get looks for a record with a value that is not empty (`storage.cpp:335`), put for one of any
  length (733). With records of keys of four and five bytes, both with an empty value, and the first deleted, put
  writes a third behind the second and returns true, and get ends its walk before both. So `PutIsRead` leaves out
  pages on which a record was deleted or resized.
- A put without room never returns (`storage.cpp:292`), where `docs/TUTORIAL.md:106` says a
  page is allocated. A larger value erases the old record before the new one has a place,
  and a crash between the flushes of two pages can bring the old value back, or neither.
- After a commit that failed the command loop does not abort (`main.cpp:190-197, 243-250`): the key stays
  locked, and the next command on it never gets an answer. `scan` and `backup` take no locks and show the value.
- `restore` cuts a value at a comma or bracket (`main.cpp:474-476`), so the values in
  `docs/USAGE_GUIDE.md:93-95` do not survive a backup; an empty value comes back as the newline and blanks
  behind it, leading blanks are lost, and `\b`, `\f` and `\u` are not decoded.
- `valueLen` has 16 bits in the log and in a page, and a value may have 2^20 bytes.

## Not modelled

The arguments of `main.cpp`, the spelling of commands (a leading blank and quotes around the
value of a put are taken off), `help` and `stats` are input and output. A backup that cannot write
all of its file, which the loop does not notice, and files that `backup` did not write
are not modelled, nor are keys with quotes, which `backup` does not escape. Statistics, error codes and
logging have no effect on anything else. `flushPage` has no caller and would be a `FlushAll`
of one page; `deallocatePage` has none either, and `allocateNewPage` never gets past its first line. Failures of single writes of the log are in
`TransactionManager`, not in `WriteAheadLog`. Hash table order beyond 13 pages, values
of more than 65535 bytes and 2^64 transaction ids are out of reach of any run.

## Plan

Done, in this order: `RWLocks`, `LockManager`, `LockManagerProofs`, `LockClients`,
`TransactionManager`, `WalFormat` and `WriteAheadLog`, `PageLayout` and `PageStore`,
`KVStore`, `BackupFile` and `CommandLine`; then the proofs about all of them, `PageStoreProofs` last.

What is left: a condition on values (no part of one looks like a record) under which `RecordsStay`
holds of damaged stores, too; liveness stays with TLC.
