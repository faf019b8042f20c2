------------------------------- MODULE PageStore -------------------------------
(****************************************************************************)
(* The storage manager (src/src/storage.cpp) over several runs of the       *)
(* program, with the bytes of PageLayout.  cacheMutex makes every operation *)
(* one step.  A clean page of the cache is the page of the file, which      *)
(* nobody else writes, so the model keeps the dirty ones only; evictLRUPage *)
(* is reached from open alone, where none is dirty.                         *)
(*                                                                          *)
(* putRecord calls allocateNewPage with cacheMutex in hand, and             *)
(* allocateNewPage locks it: a put that finds no room never returns, and    *)
(* nobody is served any more.  No page is ever added or freed during a run; *)
(* open counts one page more than the file has.                             *)
(****************************************************************************)
EXTENDS PageLayout, SequencesExt

CONSTANTS
  Keys,               \* the keys, sequences of bytes
  Values(_),          \* the values each of them is given, sequences of bytes
  Nothing,            \* the value of a key that is not there
  MaxMoves,           \* bound: deletes, and puts of a value of another length
  MaxRun              \* bound: runs of the program

\* A page is shorter than what a length of 16 bits can say, and what a walk
\* leaves of it at the end is at least the two lengths.
ASSUME PageStoreAssumption ==
  /\ PAGE_SIZE \in Nat /\ PAGE_SIZE <= MaxUint16
  /\ RECORD_HEADER_SIZE \in 4 .. PAGE_SIZE /\ MAX_KEY_SIZE \in Nat
  /\ MaxMoves \in Nat /\ MaxRun \in Nat \ {0}
  /\ \A k \in Keys :
       /\ k \in Seq(0 .. 255) /\ Len(k) \in 1 .. MAX_KEY_SIZE
       /\ Nothing \notin Values(k) /\ \A v \in Values(k) : v \in Seq(0 .. 255)

VARIABLES
  disk,       \* the pages of the file, page 0 first
  dirty,      \* pageCache: the pages that differ from the file
  allocatedPages,
  keyToPage,
  hung,       \* has a put locked cacheMutex twice?
  run,
  kept,       \* what each key should have, and the page it was put on
  stored,     \* the same of the file
  moved,      \* keys whose record was deleted, or left behind by a put elsewhere or of
              \* another length
  mixed,      \* pages on which that happened
  moves       \* how often that happened

ghosts == <<kept, stored, moved, mixed, moves>>
vars == <<disk, dirty, allocatedPages, keyToPage, hung, run, ghosts>>

\* The loops over allocatedPages, a hash table, meet the page ids that open
\* inserted in descending order.
PagesInOrder ==
  LET n == Cardinality(allocatedPages) IN [i \in 1 .. n |-> n - i]

OnDisk(p) == IF p < Len(disk) THEN disk[p + 1] ELSE Zeros(PAGE_SIZE)

getPage(cache, p) == IF p \in DOMAIN cache THEN cache[p] ELSE OnDisk(p)

Changed(f, x, y)  == [z \in DOMAIN f \cup {x} |-> IF z = x THEN y ELSE f[z]]
Without(f, x)     == [z \in DOMAIN f \ {x} |-> f[z]]

Init ==
  /\ disk = <<Zeros(PAGE_SIZE)>> /\ dirty = <<>> /\ allocatedPages = {0, 1} /\ keyToPage = <<>>
  /\ hung = FALSE /\ run = 1
  /\ kept = [k \in Keys |-> [value |-> Nothing, page |-> 0]] /\ stored = kept
  /\ moved = {} /\ mixed = {} /\ moves = 0

------------------------------------------------------------------------------
(* Records and where they are. *)

RecordAt(p, page, o) ==
  [page |-> p, offset |-> o, key |-> KeyAt(page, o), value |-> ValueAt(page, o)]

\* The records that getRecord and deleteRecord come by, and scanRecords.
Records(cache) ==
  UNION {{RecordAt(p, getPage(cache, p), o) : o \in Range(RecordsOf(getPage(cache, p)))} :
         p \in allocatedPages}
ScanRecords(cache) ==
  UNION {{RecordAt(p, getPage(cache, p), o) : o \in Range(ScannedOf(getPage(cache, p)))} :
         p \in allocatedPages}

\* The one that getRecord and deleteRecord stop at: in the page that the map
\* names, or else in the first page that has one.
Stops(records, map, k) ==
  LET of == {r \in records : r.key = k}
      mine == {r \in of : k \in DOMAIN map /\ r.page = map[k]}
      where == IF mine # {} THEN mine ELSE of
  IN  {r \in where : \A q \in where : q.page < r.page \/ (q.page = r.page /\ r.offset <= q.offset)}

\* What getRecord returns.
Lookup(records, map, k) ==
  IF Stops(records, map, k) = {} THEN Nothing
  ELSE (CHOOSE r \in Stops(records, map, k) : TRUE).value

------------------------------------------------------------------------------
\* putRecord tries one page after the other until the record is in.
Try(k, v) ==
  LET pages == (IF k \in DOMAIN keyToPage THEN <<keyToPage[k]>> ELSE <<>>) \o PagesInOrder
      after[i \in 0 .. Len(pages)] ==
        IF i = 0 THEN [ok |-> FALSE, page |-> 0, cache |-> dirty]
        ELSE LET a == after[i - 1]
                 r == FindFreeSpaceInPage(getPage(a.cache, pages[i]), k, v)
             IN  IF a.ok THEN a
                 ELSE [ok |-> r.ok, page |-> pages[i],
                       cache |-> IF r.page = getPage(a.cache, pages[i]) THEN a.cache
                                 ELSE Changed(a.cache, pages[i], r.page)]
  IN  after[Len(pages)]

Moved(k, pages) == moved' = moved \cup {k} /\ mixed' = mixed \cup pages

Counted == moves < MaxMoves /\ moves' = moves + 1

\* Does the put leave the old record of the key, or a part of it, behind?
Leaves(k, v, p) ==
  kept[k].value # Nothing /\ (Len(kept[k].value) # Len(v) \/ kept[k].page # p)

PutRecord(k, v) ==
  \E t \in {Try(k, v)} :
      /\ ~hung
      /\ dirty' = t.cache
      /\ hung' = ~t.ok
      /\ keyToPage' = IF t.ok THEN Changed(keyToPage, k, t.page) ELSE Without(keyToPage, k)
      /\ kept' = IF t.ok THEN [kept EXCEPT ![k] = [value |-> v, page |-> t.page]] ELSE kept
      /\ IF Leaves(k, v, t.page) THEN Counted ELSE UNCHANGED moves
      /\ IF Leaves(k, v, t.page) \/ k \in moved
         THEN Moved(k, {kept[k].page} \cup {p \in DOMAIN t.cache : t.cache[p] # getPage(dirty, p)})
         ELSE UNCHANGED <<moved, mixed>>
      /\ UNCHANGED <<disk, allocatedPages, run, stored>>

\* A getRecord that finds the key elsewhere than the map says corrects the map.
GetRecord(k, records) ==
  \E r \in Stops(records, keyToPage, k) :
    /\ ~hung
    /\ keyToPage' = Changed(keyToPage, k, r.page)
    /\ UNCHANGED <<disk, dirty, allocatedPages, hung, run, ghosts>>

DeleteRecord(k, records) ==
  \E r \in Stops(records, keyToPage, k) :
    /\ ~hung
    /\ dirty' = Changed(dirty, r.page, Written(getPage(dirty, r.page), r.offset, Uint16(0)))
    /\ keyToPage' = Without(keyToPage, k)
    /\ kept' = [kept EXCEPT ![k] = [value |-> Nothing, page |-> r.page]]
    /\ Moved(k, {r.page}) /\ Counted
    /\ UNCHANGED <<disk, allocatedPages, hung, run, stored>>

------------------------------------------------------------------------------
\* Mutant: the file does not grow.
WrittenBack_SameLength(pages) ==
  [i \in 1 .. Len(disk) |-> IF i - 1 \in pages THEN dirty[i - 1] ELSE OnDisk(i - 1)]

\* The file with some of the dirty pages written; a page behind its end makes
\* it longer.
WrittenBack(pages) ==
  [i \in 1 .. Max({Len(disk)} \cup {p + 1 : p \in pages}) |->
     IF i - 1 \in pages THEN dirty[i - 1] ELSE OnDisk(i - 1)]

Saved(pages) == [k \in Keys |-> IF kept[k].page \in pages THEN kept[k] ELSE stored[k]]

\* Mutant: every page is marked clean, written or not.
StillDirty_None(pages) == <<>>

StillDirty(pages) == [p \in DOMAIN dirty \ pages |-> dirty[p]]

\* flushAll, which stops at the first page that cannot be written.
FlushAll ==
  \E pages \in SUBSET DOMAIN dirty :
    /\ ~hung /\ pages # {}
    /\ disk' = WrittenBack(pages)
    /\ dirty' = StillDirty(pages)
    /\ stored' = Saved(pages)
    /\ UNCHANGED <<allocatedPages, keyToPage, hung, run, kept, moved, mixed, moves>>

\* The map that open makes: of the pages that have a key, the last one.
Indexed(pages) ==
  LET found == UNION {{<<KeyAt(pages[i], o), i - 1>> : o \in Range(IndexedOf(pages[i]))} :
                      i \in DOMAIN pages}
  IN  [k \in {k \in Keys : \E f \in found : f[1] = k} |->
         Max({f[2] : f \in {f \in found : f[1] = k}})]

\* The run ends with some of its dirty pages written, and the next one opens
\* the file.
Reopen(pages) ==
  /\ run < MaxRun
  /\ run' = run + 1
  /\ disk' = WrittenBack(pages)
  /\ dirty' = <<>>
  /\ allocatedPages' = 0 .. Len(disk')
  /\ keyToPage' = Indexed(disk')
  /\ hung' = FALSE
  /\ stored' = Saved(pages) /\ kept' = Saved(pages)
  /\ UNCHANGED <<moved, mixed, moves>>

Close == ~hung /\ Reopen(DOMAIN dirty)

\* A crash; one within flushAll, or a close that could not write every page,
\* is a FlushAll and a Crash.
Crash == Reopen({})

Next ==
  \/ \E k \in Keys : \/ \E v \in Values(k) : PutRecord(k, v)
                     \/ \E records \in {Records(dirty)} :
                            GetRecord(k, records) \/ DeleteRecord(k, records)
  \/ FlushAll \/ Close \/ Crash

Spec == Init /\ [][Next]_vars

------------------------------------------------------------------------------
IsPage(page) == DOMAIN page = 1 .. PAGE_SIZE /\ Range(page) \subseteq 0 .. 255

\* The variables have their types.
StoreTypeOK ==
  /\ \A i \in DOMAIN disk : IsPage(disk[i])
  /\ allocatedPages \subseteq 0 .. MaxRun /\ DOMAIN dirty \subseteq allocatedPages
  /\ \A p \in DOMAIN dirty : IsPage(dirty[p])
  /\ DOMAIN keyToPage \subseteq Keys
  /\ \A k \in DOMAIN keyToPage : keyToPage[k] \in allocatedPages
  /\ hung \in BOOLEAN /\ run \in 1 .. MaxRun
  /\ mixed \subseteq allocatedPages

\* What putRecord stored stays what getRecord returns, through other puts, through
\* deletes and resizes on other pages, flushes that fail half-way, crashes and
\* the map that the next open makes (storage.cpp:302-436, 69-130): as long as
\* nothing on its own page was deleted or resized, a key has its last value, and
\* after a crash the last one that was flushed.  (In a later run of a store in which
\* something was deleted that takes values whose bytes do not look like records.)
RecordsStay ==
  LET records == Records(dirty)
  IN  \A k \in Keys :
        \/ mixed # {} /\ (k \in moved \/ kept[k].value = Nothing \/ kept[k].page \in mixed)
        \/ Lookup(records, keyToPage, k) = kept[k].value

\* scanRecords returns every record that is in the store with its value, none
\* twice, and nothing else (storage.cpp:780-850), until a record was deleted or
\* resized.
ScanComplete ==
  mixed = {} =>
    LET scanned == ScanRecords(dirty)
    IN  /\ {<<r.key, r.value, r.page>> : r \in scanned}
             = {<<k, kept[k].value, kept[k].page>> : k \in {k \in Keys : kept[k].value # Nothing}}
        /\ \A q, r \in scanned : q.key = r.key => q = r

\* Would the next getRecord find what a put stores, if it finds room?
ReadBack(k, v) ==
  LET t == Try(k, v)
  IN  t.ok => Lookup(Records(t.cache), Changed(keyToPage, k, t.page), k) = v

\* Does the table say that the key is on page p?
IsOn(k, p, table) == table[k].value # Nothing /\ table[k].page = p

\* A put that ends up on a page on which nothing was deleted or resized, and does
\* not make the value it finds there longer.
Harmless(k, v) ==
  LET p == Try(k, v).page
  IN  p \notin mixed /\ (IsOn(k, p, kept) => Len(v) <= Len(kept[k].value))

\* Where a put finds room on a page without damage the next getRecord finds the
\* record, although the two walk through the page by different rules: new, over a value
\* of the same length, or over a longer one, the rest of which stays behind it
\* (storage.cpp:644-779, 302-369).  On a page with damage it may not: behind a deleted
\* record put looks for the next one by its key alone, get wants a value that is not
\* empty, too (storage.cpp:733, 335).
PutIsRead ==
  ~hung => \A k \in Keys \ moved : \A v \in Values(k) : Harmless(k, v) => ReadBack(k, v)

\* The pages implement the map that the transaction manager takes the storage for:
\* what getRecord would return and what it would return after a restart change as
\* in KVStore, a put changes one key, a flush brings a part of the file up to date
\* and nothing else, until a record was deleted or resized (storage.cpp:151-262,
\* 263-300, 644-779).
Mem  == [k \in Keys |-> Lookup(Records(dirty), keyToPage, k)]
File == [k \in Keys |-> Lookup(Records(<<>>), Indexed(disk), k)]

KV == INSTANCE KVStore WITH mem <- Mem, file <- File

ImplementsKVStore == KV!Init /\ [][mixed' = {} => [KV!Next]_<<Mem, File>>]_vars

\* A deleted record is skipped and hides no other: the valueLen it keeps is there
\* "to allow skipping during scans" (TUTORIAL.md:27).
DeletesOne ==
  [][\A k \in Keys : DeleteRecord(k, Records(dirty)) =>
       \A j \in Keys \ {k} :
         Lookup(Records(dirty), keyToPage, j)' = Lookup(Records(dirty), keyToPage, j)]_vars
================================================================================
