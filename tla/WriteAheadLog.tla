----------------------------- MODULE WriteAheadLog -----------------------------
(****************************************************************************)
(* The write-ahead log over several runs of the program (src/src/wal.cpp),  *)
(* with the bytes of WalFormat: entries go to the stream's buffer, flush    *)
(* and the stream's own seeks move them to the file, a crash keeps any part *)
(* of the buffer, down to a byte.  It is used as TransactionManager uses  *)
(* it: ids ascend from 1 in every run, and a transaction is begun before    *)
(* its operations and ended once.                                           *)
(*                                                                          *)
(* open never writes a header: it opens the file in a mode that creates it, *)
(* so the branch that would write one is not reached.  truncateLog does     *)
(* write one.  checkpoint does to the log what flush does.  The two sets    *)
(* committedTxns and activeTxns of the class are only written.              *)
(****************************************************************************)
EXTENDS WalFormat, SequencesExt

CONSTANTS
  Keys, Values,       \* strings, as sequences of bytes
  NoResult,           \* replayLog was not the last call
  MaxEntries,         \* bound: entries in one log
  MaxTxns,            \* bound: transactions begun in one run of the program
  MaxRun,             \* bound: runs of the program
  CutBytes            \* bound: how much of an entry that is cut off may be left

Bytes == 0 .. 255

ASSUME WriteAheadLogAssumption ==
  /\ WAL_HEADER_SIZE \in Nat /\ MaxEntries \in Nat /\ MaxTxns \in Nat /\ MaxRun \in Nat \ {0}
  /\ CutBytes \subseteq Nat
  /\ Timestamp \in [1 .. 8 -> Bytes]
  /\ \A s \in Keys \cup Values : s \in Seq(Bytes) /\ Len(s) < 65536

VARIABLES
  file,       \* the bytes of the file
  buffer,     \* the bytes in the stream's buffer
  failed,     \* the stream's failbit
  nextTxnId, active,
  run,
  header,     \* how many bytes of the file are a header
  written,    \* entries written since the log was created or truncated
  committed,  \* indexes in written of COMMIT entries that were flushed
  ends,       \* where each of them ends in the file
  torn,       \* after which of them a crash left a part of an entry
  replayed    \* what the last call, if it was replayLog, returned

vars == <<file, buffer, failed, nextTxnId, active, run, header, written, ends, committed, torn,
          replayed>>

Log == file \o buffer

Init ==
  /\ file = <<>> /\ buffer = <<>> /\ failed = FALSE
  /\ nextTxnId = 1 /\ active = {} /\ run = 1
  /\ header = 0 /\ written = <<>> /\ ends = <<>> /\ committed = {} /\ torn = {}
  /\ replayed = NoResult

------------------------------------------------------------------------------
\* writeLogEntry clears the stream's error first.  It appends to the file as it
\* is, the part of an entry that a crash left there included.
WriteLogEntry(e) ==
  /\ Len(written) < MaxEntries
  /\ written' = Append(written, e)
  /\ ends' = Append(ends, Len(Log) + Size(e))
  /\ failed' = FALSE
  /\ replayed' = NoResult
  /\ UNCHANGED <<run, header, torn>>

Buffered(e) == file' = file /\ buffer' = buffer \o Serialize(e)

\* Mutant: the stream is not flushed.
Flushed_Forgotten(data) == file' = file /\ buffer' = data

Flushed(data) == file' = file \o data /\ buffer' = <<>>

LogBeginTxn ==
  LET e == Entry("BEGIN_TXN", nextTxnId, <<>>, <<>>)
  IN  /\ nextTxnId <= MaxTxns
      /\ WriteLogEntry(e) /\ Buffered(e)
      /\ nextTxnId' = nextTxnId + 1
      /\ active' = active \cup {nextTxnId}
      /\ UNCHANGED committed

LogOperation(e) ==
  WriteLogEntry(e) /\ Buffered(e) /\ UNCHANGED <<nextTxnId, active, committed>>

LogPutRecord(t, k, v) == t \in active /\ LogOperation(Entry("PUT_RECORD", t, k, v))

LogDeleteRecord(t, k) == t \in active /\ LogOperation(Entry("DELETE_RECORD", t, k, <<>>))

LogCommitTxn(t) ==
  LET e == Entry("COMMIT_TXN", t, <<>>, <<>>)
  IN  /\ t \in active
      /\ WriteLogEntry(e) /\ Flushed(buffer \o Serialize(e))
      /\ active' = active \ {t}
      /\ committed' = committed \cup {Len(written')}
      /\ UNCHANGED nextTxnId

LogAbortTxn(t) ==
  LET e == Entry("ABORT_TXN", t, <<>>, <<>>)
  IN  /\ t \in active
      /\ WriteLogEntry(e) /\ Buffered(e)
      /\ active' = active \ {t}
      /\ UNCHANGED <<nextTxnId, committed>>

\* flush and checkpoint
Flush ==
  /\ Flushed(buffer)
  /\ failed' = FALSE
  /\ replayed' = NoResult
  /\ UNCHANGED <<nextTxnId, active, run, header, written, ends, committed, torn>>

\* A stream that failed before cannot seek.  The seek of one that has not moves
\* its buffer to the file.
ReplayLog ==
  /\ IF failed
     THEN replayed' = <<>> /\ UNCHANGED <<file, buffer, failed>>
     ELSE /\ Flushed(buffer)
          /\ replayed' = Replay(Log)
          /\ failed' = RanShort(Log)
  /\ UNCHANGED <<nextTxnId, active, run, header, written, ends, committed, torn>>

\* Mutant: the new file gets no header.
TruncatedFile_Empty == <<>>

TruncatedFile == Zeros(WAL_HEADER_SIZE)

TruncateLog ==
  /\ file' = TruncatedFile /\ buffer' = <<>>
  /\ failed' = FALSE
  /\ header' = WAL_HEADER_SIZE
  /\ written' = <<>> /\ ends' = <<>> /\ committed' = {} /\ torn' = {}
  /\ replayed' = NoResult
  /\ UNCHANGED <<nextTxnId, active, run>>

------------------------------------------------------------------------------
\* The next run of the program opens the same file; what of the buffer the last
\* one left in it depends on how it ended.
Restart(left) ==
  /\ run < MaxRun
  /\ run' = run + 1
  /\ file' = file \o left /\ buffer' = <<>> /\ failed' = FALSE
  /\ nextTxnId' = 1 /\ active' = {}
  /\ replayed' = NoResult
  /\ UNCHANGED header

Close ==
  /\ Restart(buffer)
  /\ UNCHANGED <<written, ends, committed, torn>>

EndOf(i) == IF i = 0 THEN header ELSE ends[i]

\* The first kept entries stay, and c bytes of what follows them.
Crash ==
  \E kept \in 0 .. Len(written), c \in CutBytes :
    LET left == EndOf(kept) + c - Len(file)
    IN  /\ left \in 0 .. Len(buffer)
        /\ kept < Len(written) => EndOf(kept) + c < EndOf(kept + 1)
        /\ Restart(SubSeq(buffer, 1, left))
        /\ written' = SubSeq(written, 1, kept)
        /\ ends' = SubSeq(ends, 1, kept)
        /\ torn' = {i \in torn : i < kept} \cup (IF c = 0 THEN {} ELSE {kept})
        /\ UNCHANGED committed

Next ==
  \/ LogBeginTxn
  \/ \E t \in active :
       \/ \E k \in Keys, v \in Values : LogPutRecord(t, k, v)
       \/ \E k \in Keys : LogDeleteRecord(t, k)
       \/ LogCommitTxn(t) \/ LogAbortTxn(t)
  \/ Flush \/ ReplayLog \/ TruncateLog
  \/ Close \/ Crash

Spec == Init /\ [][Next]_vars

------------------------------------------------------------------------------
\* The variables have their types, and the header is in the file or is not
\* there at all: it is written as a whole when the log is truncated.
WalTypeOK ==
  /\ file \in Seq(Bytes) /\ buffer \in Seq(Bytes)
  /\ failed \in BOOLEAN
  /\ nextTxnId \in Nat \ {0} /\ active \subseteq 1 .. nextTxnId - 1
  /\ run \in 1 .. MaxRun
  /\ header \in {0, WAL_HEADER_SIZE} /\ Len(file) >= header
  /\ Len(written) <= MaxEntries /\ Len(ends) = Len(written)
  /\ committed \subseteq 1 .. Len(written) /\ torn \subseteq 0 .. Len(written)

\* The entries after the header, taken with deserializeEntry.
Contents(data) == Decoded(SubSeq(data, header + 1, Len(data)))

\* Whatever was appended, flushed, replayed, truncated and cut off by a crash,
\* deserializeEntry finds in the log, one after the other, the entries that
\* serializeEntry wrote.  Where a crash left a part of an entry, this holds of
\* the entries before it (wal.cpp:63-126).
LogDecodes ==
  /\ torn = {} => Contents(Log) = written
  /\ \A i \in torn : (\A j \in torn : i <= j) => IsPrefix(SubSeq(written, 1, i), Contents(Log))

\* deserializeEntry takes the part of an entry that a crash left for no entry,
\* wherever the crash cut a log that was whole (wal.cpp:86-116).
CutIsNoEntry == [][torn = {} /\ torn' # {} => Contents(file') = written']_vars

\* What logCommitTxn has flushed stays: its COMMIT and every entry before it,
\* the transaction's operations among them, can be read from the file after
\* any crash (wal.cpp:141-144), unless the log was torn before it was written.
CommitsSurvive ==
  \A i \in committed :
    (\A j \in torn : i <= j) => IsPrefix(SubSeq(written, 1, i), Contents(file))

\* replayLog returns every operation of every committed transaction
\* (TUTORIAL.md:114, ARCHITECTURE.md:161).
CommittedAreReplayed ==
  replayed # NoResult =>
    \A i \in committed : \A j \in 1 .. i :
      IsOperation(written[j]) /\ written[j].txnId = written[i].txnId
        => \E n \in DOMAIN replayed : replayed[n] = written[j]
================================================================================
