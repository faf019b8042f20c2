------------------------------- MODULE WalFormat -------------------------------
(****************************************************************************)
(* The bytes of the write-ahead log (src/src/wal.cpp): what serializeEntry  *)
(* writes, what deserializeEntry makes of it, and what replayLog, which     *)
(* does not use deserializeEntry, makes of it.  Offsets count from 0 as in  *)
(* the code.  A type and a transaction id are known by their bytes, so an   *)
(* entry that was read at the wrong place is still an entry.                *)
(****************************************************************************)
EXTENDS Bytes

CONSTANTS
  Timestamp,          \* the eight bytes of the clock, the same in every entry
  WAL_HEADER_SIZE,
  MAX_KEY_SIZE

NoEntry == <<>>

TypeBytes ==
  [BEGIN_TXN     |-> <<0, 0, 0, 0>>, COMMIT_TXN    |-> <<1, 0, 0, 0>>,
   ABORT_TXN     |-> <<2, 0, 0, 0>>, PUT_RECORD    |-> <<3, 0, 0, 0>>,
   DELETE_RECORD |-> <<4, 0, 0, 0>>]

Entry(type, txnId, key, value) ==
  [type |-> TypeBytes[type], txnId |-> Uint64(txnId), key |-> key, value |-> value]

IsOperation(e) == e.type \in {TypeBytes.PUT_RECORD, TypeBytes.DELETE_RECORD}
IsCommit(e)    == e.type = TypeBytes.COMMIT_TXN

Size(e) == 24 + Len(e.key) + Len(e.value)

------------------------------------------------------------------------------
\* Mutant: the two lengths are written side by side, as replayLog reads them.
Serialize_LengthsFirst(e) ==
  e.type \o e.txnId \o Timestamp \o Uint16(Len(e.key)) \o Uint16(Len(e.value)) \o e.key \o e.value

Serialize(e) ==
  e.type \o e.txnId \o Timestamp \o Uint16(Len(e.key)) \o e.key \o Uint16(Len(e.value)) \o e.value

\* Mutant: the length of the value is not compared with what is there.
Deserialize_AnyLength(data) ==
  LET keyLen   == Word(data, 20)
      valueLen == Word(data, 22 + keyLen)
      there    == Len(data) - (24 + keyLen)
  IN  IF Len(data) < 22 \/ Len(data) < 24 + keyLen THEN NoEntry
      ELSE [type |-> Slice(data, 0, 4), txnId |-> Slice(data, 4, 8),
            key |-> Slice(data, 22, keyLen),
            value |-> Slice(data, 24 + keyLen, IF valueLen <= there THEN valueLen ELSE there)]

Deserialize(data) ==
  LET keyLen   == Word(data, 20)
      valueLen == Word(data, 22 + keyLen)
  IN  IF Len(data) < 22 \/ Len(data) < 24 + keyLen \/ Len(data) < 24 + keyLen + valueLen
      THEN NoEntry
      ELSE [type |-> Slice(data, 0, 4), txnId |-> Slice(data, 4, 8),
            key |-> Slice(data, 22, keyLen), value |-> Slice(data, 24 + keyLen, valueLen)]

\* The entries that deserializeEntry finds one after the other.
Decoded(data) ==
  LET from[o \in 0 .. Len(data)] ==
        LET e == Deserialize(SubSeq(data, o + 1, Len(data)))
        IN  IF e = NoEntry THEN <<>> ELSE <<e>> \o from[o + Size(e)]
  IN  from[0]

------------------------------------------------------------------------------
(* The loop of replayLog.  It reads 24 bytes in which it expects both       *)
(* lengths; where the entry has a key, the second one is taken from it.     *)

KeyLenAt(data, o)   == Word(data, o + 20)
ValueLenAt(data, o) == Word(data, o + 22)

\* What gcount says after the last read: that read alone, and nothing when the
\* one before it had already come to the end.
Gcount(data, o) ==
  LET rest == Len(data) - (o + 24 + KeyLenAt(data, o))
  IN  IF o + 24 + KeyLenAt(data, o) > Len(data) THEN 0
      ELSE IF ValueLenAt(data, o) <= rest THEN ValueLenAt(data, o) ELSE rest

HasHeader(data, o) == o + 24 <= Len(data)

Readable(data, o) ==
  /\ HasHeader(data, o)
  /\ KeyLenAt(data, o) <= MAX_KEY_SIZE
  /\ Gcount(data, o) = KeyLenAt(data, o) + ValueLenAt(data, o)

EntryAt(data, o) ==
  [type |-> Slice(data, o, 4), txnId |-> Slice(data, o + 4, 8),
   key |-> Slice(data, o + 24, KeyLenAt(data, o)),
   value |-> Slice(data, o + 24 + KeyLenAt(data, o), ValueLenAt(data, o))]

\* Where the loop reads, the place where it stops included.
Places(data) ==
  LET from[o \in 0 .. Len(data) + WAL_HEADER_SIZE] ==
        IF Readable(data, o)
        THEN <<o>> \o from[o + 24 + KeyLenAt(data, o) + ValueLenAt(data, o)]
        ELSE <<o>>
  IN  from[WAL_HEADER_SIZE]

\* A read came to the end of the file, which leaves the stream failed.
RanShort(data) ==
  LET places == Places(data)
      o == places[Len(places)]
  IN  \/ ~HasHeader(data, o)
      \/ /\ KeyLenAt(data, o) <= MAX_KEY_SIZE
         /\ o + 24 + KeyLenAt(data, o) + ValueLenAt(data, o) > Len(data)

EntriesRead(data) ==
  LET places == Places(data)
  IN  [i \in 1 .. Len(places) - 1 |-> EntryAt(data, places[i])]

Replay(data) ==
  LET entries == EntriesRead(data)
      committed == {entries[i].txnId : i \in {j \in DOMAIN entries : IsCommit(entries[j])}}
      Kept(e) == IsOperation(e) /\ e.txnId \in committed
  IN  SelectSeq(entries, Kept)
================================================================================
