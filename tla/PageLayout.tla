------------------------------ MODULE PageLayout -------------------------------
(****************************************************************************)
(* The bytes of a page (src/src/storage.cpp): where the walks of open, of   *)
(* get, delete and scan, and of put find a record, and what put and delete  *)
(* write.  A record is keyLen(2) valueLen(2) key value; keyLen 0 is a place *)
(* without a record.  Offsets count from 0 as in the code.                  *)
(*                                                                          *)
(* The tests against MAX_VALUE_SIZE are left out: a length has 16 bits and  *)
(* is never that large.                                                     *)
(****************************************************************************)
EXTENDS Bytes, FiniteSetsExt, Functions

CONSTANTS PAGE_SIZE, RECORD_HEADER_SIZE, MAX_KEY_SIZE

Offsets == 0 .. PAGE_SIZE + MaxUint16

KeyLen(data, o)   == Word(data, o)
ValueLen(data, o) == Word(data, o + 2)

KeyAt(data, o)   == Slice(data, o + 4, KeyLen(data, o))
ValueAt(data, o) == Slice(data, o + 4 + KeyLen(data, o), ValueLen(data, o))

RecordBytes(key, value) == Uint16(Len(key)) \o Uint16(Len(value)) \o key \o value

\* Mutant: what was there is moved up.
Written_Inserts(data, o, bytes) ==
  SubSeq(data, 1, o) \o bytes \o SubSeq(data, o + 1, PAGE_SIZE)

\* memcpy into the page; what goes beyond its end is not in the page.
Written(data, o, bytes) ==
  [i \in 1 .. PAGE_SIZE |-> IF i - o \in DOMAIN bytes THEN bytes[i - o] ELSE data[i]]

InLoop(o) == o < PAGE_SIZE - RECORD_HEADER_SIZE

Dead(data, o)  == KeyLen(data, o) = 0
Fits(data, o)  == o + 4 + KeyLen(data, o) + ValueLen(data, o) <= PAGE_SIZE
After(data, o) == o + 4 + KeyLen(data, o) + ValueLen(data, o)

\* A dead place whose valueLen tells how far to go on.
Skippable(data, o) == Dead(data, o) /\ ValueLen(data, o) > 0 /\ After(data, o) < PAGE_SIZE

\* What a search takes for a record.
Plausible(data, o) ==
  /\ KeyLen(data, o) \in 1 .. MAX_KEY_SIZE
  /\ ValueLen(data, o) > 0
  /\ Fits(data, o)

NotFound == PAGE_SIZE + MaxUint16

\* The inner search of get, delete and scan.
Search(data, o) ==
  LET from[s \in Offsets] ==
        IF ~InLoop(s) THEN NotFound
        ELSE IF Plausible(data, s) THEN s
        ELSE IF Skippable(data, s) THEN from[After(data, s)] ELSE from[s + 4]
  IN  from[o + 4]

\* The inner search of open: it gives up after half a page, and a dead place is
\* skipped wherever that leads.
SearchOnOpen(data, o) ==
  LET from[s \in Offsets] ==
        IF ~InLoop(s) THEN NotFound
        ELSE IF Plausible(data, s) THEN s
        ELSE IF Dead(data, s) /\ ValueLen(data, s) > 0 THEN from[After(data, s)]
        ELSE IF s + 4 > o + PAGE_SIZE \div 2 THEN NotFound ELSE from[s + 4]
  IN  from[o + 4]

\* The records of a page, by their offsets in the order of the walk: resume says
\* where it goes on from a dead place that does not tell, accepts what it takes.
Walk(data, resume, accepts) ==
  LET from[o \in Offsets] ==
        IF ~InLoop(o) THEN <<>>
        ELSE IF Skippable(data, o) THEN from[After(data, o)]
        ELSE IF Dead(data, o) THEN from[resume[o]]
        ELSE IF accepts[o] THEN <<o>> \o from[After(data, o)] ELSE <<>>
  IN  from[0]

\* The walk of getRecord and deleteRecord.
RecordsOf(data) ==
  Walk(data, [o \in Offsets |-> Search(data, o)],
             [o \in Offsets |-> Fits(data, o)])

\* Mutant: a key of the greatest length ends the walk.
ScannedOf_Shorter(data) ==
  Walk(data, [o \in Offsets |-> Search(data, o)],
             [o \in Offsets |-> Fits(data, o) /\ KeyLen(data, o) < MAX_KEY_SIZE])

\* The walk of scanRecords.
ScannedOf(data) ==
  Walk(data, [o \in Offsets |-> Search(data, o)],
             [o \in Offsets |-> Fits(data, o) /\ KeyLen(data, o) <= MAX_KEY_SIZE])

\* The walk of open.
IndexedOf(data) ==
  Walk(data, [o \in Offsets |-> SearchOnOpen(data, o)],
             [o \in Offsets |-> Fits(data, o) /\ KeyLen(data, o) <= MAX_KEY_SIZE])

\* The first walk of findFreeSpaceInPage: it does not search.
UpdatableOf(data) ==
  Walk(data, [o \in Offsets |-> NotFound],
             [o \in Offsets |-> Fits(data, o)])

\* The places, of those of a walk, that have a record of the key.  A walk goes
\* forward, so that it meets the least of them first.
With(data, places, key) == {o \in Range(places) : KeyAt(data, o) = key}

------------------------------------------------------------------------------
\* The second walk of findFreeSpaceInPage: from the start to a dead place with
\* room for the record, or to where the walk ends.
HasRoom(data, o, size) == InLoop(o) /\ Dead(data, o) /\ 4 + ValueLen(data, o) >= size

\* Its inner search asks for a keyLen only.
SearchForRoom(data, o) ==
  LET from[s \in Offsets] ==
        IF s >= PAGE_SIZE - 4 THEN NotFound
        ELSE IF KeyLen(data, s) \in 1 .. MAX_KEY_SIZE THEN s
        ELSE IF s + 4 > o + 100 THEN NotFound ELSE from[s + 4]
  IN  from[o + 4]

RoomFor(data, size) ==
  LET from[o \in Offsets] ==
        IF ~InLoop(o) \/ HasRoom(data, o, size) THEN o
        ELSE IF Skippable(data, o) THEN from[After(data, o)]
        ELSE IF Dead(data, o)
             THEN LET s == SearchForRoom(data, o) IN IF s = NotFound THEN o ELSE from[s]
        ELSE IF Fits(data, o) THEN from[After(data, o)] ELSE o
  IN  from[0]

\* Mutant: the end of the page is not looked at.
RoomFound_Beyond(data, o, size) ==
  HasRoom(data, o, size) \/ (InLoop(o) /\ KeyLen(data, o) = 0 /\ ValueLen(data, o) = 0)

\* May the record be written where that walk came to?
RoomFound(data, o, size) ==
  \/ HasRoom(data, o, size)
  \/ InLoop(o) /\ o + size <= PAGE_SIZE /\ KeyLen(data, o) = 0 /\ ValueLen(data, o) = 0

InPlace(data, o, value) == ValueLen(data, o) >= Len(value)

\* findFreeSpaceInPage: the page it leaves, and whether the record is in it.
FindFreeSpaceInPage(data, key, value) ==
  LET here == With(data, UpdatableOf(data), key)
      size == 4 + Len(key) + Len(value)
      erased == IF here = {} THEN data ELSE Written(data, Min(here), Uint16(0))
      room == RoomFor(erased, size)
  IN  IF here # {} /\ InPlace(data, Min(here), value)
      THEN [page |-> Written(Written(data, Min(here) + 2, Uint16(Len(value))),
                             Min(here) + 4 + KeyLen(data, Min(here)), value),
            ok |-> TRUE]
      ELSE IF RoomFound(erased, room, size)
      THEN [page |-> Written(erased, room, RecordBytes(key, value)), ok |-> TRUE]
      ELSE [page |-> erased, ok |-> FALSE]
================================================================================
