---------------------------- MODULE PageStoreProofs ----------------------------
(****************************************************************************)
(* What the storage manager guarantees for pages, keys and values of any    *)
(* length, any number of pages, puts, deletes and runs of the program.  At  *)
(* its heart is a page on which no record was deleted or resized: on such a *)
(* page the five walks, which differ in what they do with a dead place, see *)
(* the same records (WalksAgree), and a put adds or replaces one of them    *)
(* (PutKeepsPage).                                                          *)
(****************************************************************************)
EXTENDS PageStore, SequenceInduction, FiniteSetTheorems

Byte == 0 .. 255

Page == [1 .. PAGE_SIZE -> Byte]

------------------------------------------------------------------------------
(* What is inductive *)

\* A record that every walk stops at.
Live(d, o) == InLoop(o) /\ KeyLen(d, o) \in 1 .. MAX_KEY_SIZE /\ Fits(d, o)

\* The page has records at the offsets in starts, one behind the other from its
\* first byte on, and nothing from end on.
Laid(d, starts, end) ==
  /\ starts \subseteq 0 .. PAGE_SIZE /\ end \in 0 .. PAGE_SIZE /\ 0 \in starts \cup {end}
  /\ \A o \in starts : Live(d, o) /\ After(d, o) \in starts \cup {end} /\ After(d, o) <= end
  /\ \A o, q \in starts : o < q => After(d, o) <= q
  /\ \A i \in 1 .. PAGE_SIZE : end < i => d[i] = 0

\* The records are those the table has for page p, but for keys that were moved.
Listed(d, starts, p, table, excepted) ==
  /\ \A o \in starts : \E k \in Keys :
       /\ KeyAt(d, o) = k
       /\ k \in excepted \/ (IsOn(k, p, table) /\ table[k].value = ValueAt(d, o))
  /\ \A o, q \in starts : KeyAt(d, o) = KeyAt(d, q) => o = q
  /\ \A k \in Keys \ excepted : IsOn(k, p, table) => \E o \in starts : KeyAt(d, o) = k

Sound(d, p, table, excepted) ==
  \E starts, end : Laid(d, starts, end) /\ Listed(d, starts, p, table, excepted)

\* The variables have their types, and page numbers are those of the file and one more.
Shape ==
  /\ disk \in Seq(Page) /\ run \in 1 .. MaxRun /\ hung \in BOOLEAN
  /\ \E last \in Nat : /\ allocatedPages = 0 .. last /\ last <= run
                       /\ last <= Len(disk) /\ Len(disk) <= last + 1
  /\ DOMAIN dirty \subseteq allocatedPages /\ \A p \in DOMAIN dirty : dirty[p] \in Page
  /\ DOMAIN keyToPage \subseteq Keys
  /\ \A k \in DOMAIN keyToPage : keyToPage[k] \in allocatedPages
  /\ mixed \subseteq allocatedPages /\ moved \subseteq Keys
  /\ mixed = {} => moved = {}

\* The table has a value, or nothing, and a page for every key.
IsTable(table) ==
  /\ DOMAIN table = Keys
  /\ \A k \in Keys : /\ table[k] = [value |-> table[k].value, page |-> table[k].page]
                     /\ table[k].page \in allocatedPages
                     /\ table[k].value \in Values(k) \cup {Nothing}

\* What the ghosts say of the file is older than, or the same as, what they say of
\* the pages in memory.
Ghosts ==
  /\ IsTable(kept) /\ IsTable(stored)
  /\ \A k \in Keys \ moved :
       stored[k].value # Nothing => IsOn(k, stored[k].page, kept)

\* A page on which nothing was deleted or resized has the records it should have,
\* in memory and in the file.
PagesSound ==
  \A p \in allocatedPages \ mixed :
    Sound(getPage(dirty, p), p, kept, moved) /\ Sound(OnDisk(p), p, stored, moved)

\* The map knows where the keys on such pages are.  A damaged page can mislead
\* open, so this is said of a run that nothing was damaged before.
MapRight ==
  mixed = {} \/ run = 1 =>
    \A k \in Keys \ moved :
      kept[k].value # Nothing /\ kept[k].page \notin mixed =>
        k \in DOMAIN keyToPage /\ keyToPage[k] = kept[k].page

StoreInv == Shape /\ Ghosts /\ PagesSound /\ MapRight

------------------------------------------------------------------------------
(* Bytes *)

\* What the assumption says of numbers.
LEMMA Sizes ==
  /\ PAGE_SIZE \in Nat /\ PAGE_SIZE <= MaxUint16 /\ MaxUint16 \in Nat
  /\ RECORD_HEADER_SIZE \in Nat
  /\ 4 <= RECORD_HEADER_SIZE /\ RECORD_HEADER_SIZE <= PAGE_SIZE /\ MAX_KEY_SIZE \in Nat
BY PageStoreAssumption, SMT DEF MaxUint16

\* What a page is.
LEMMA PageBytes ==
  ASSUME NEW d \in Page
  PROVE  /\ d \in Seq(Byte) /\ Len(d) = PAGE_SIZE /\ DOMAIN d = 1 .. PAGE_SIZE
         /\ \A i \in 1 .. PAGE_SIZE : d[i] \in Byte
BY Sizes, SeqOfElements DEF Page

\* The two lengths at a place that a walk looks at.
LEMMA Lengths ==
  ASSUME NEW d \in Page, NEW o \in Nat, o + 4 <= PAGE_SIZE
  PROVE  /\ KeyLen(d, o) = d[o + 1] + 256 * d[o + 2]
         /\ ValueLen(d, o) = d[o + 3] + 256 * d[o + 4]
         /\ KeyLen(d, o) \in Nat /\ KeyLen(d, o) <= MaxUint16
         /\ ValueLen(d, o) \in Nat /\ ValueLen(d, o) <= MaxUint16
<1>1. o + 1 \in 1 .. PAGE_SIZE /\ o + 2 \in 1 .. PAGE_SIZE /\ o + 3 \in 1 .. PAGE_SIZE
      /\ o + 4 \in 1 .. PAGE_SIZE /\ o + 2 + 1 = o + 3 /\ o + 2 + 2 = o + 4
  BY Sizes
<1>2. d[o + 1] \in Byte /\ d[o + 2] \in Byte /\ d[o + 3] \in Byte /\ d[o + 4] \in Byte
  BY <1>1, PageBytes
<1>3. KeyLen(d, o) = d[o + 1] + 256 * d[o + 2] /\ ValueLen(d, o) = d[o + 3] + 256 * d[o + 4]
  BY <1>1 DEF KeyLen, ValueLen, Word
<1>4. ASSUME NEW a \in Byte, NEW b \in Byte PROVE a + 256 * b \in Nat /\ a + 256 * b <= MaxUint16
  BY SMT DEF Byte, MaxUint16
<1> QED
  BY <1>2, <1>3, <1>4

\* A length written as two bytes is read back.
LEMMA WordReadBack ==
  ASSUME NEW n \in Nat, n <= MaxUint16
  PROVE  /\ Uint16(n) \in Seq(Byte) /\ Len(Uint16(n)) = 2
         /\ Uint16(n)[1] + 256 * Uint16(n)[2] = n
<1>1. n % 256 \in Byte /\ n \div 256 \in Byte
  BY SMT DEF Byte, MaxUint16
<1>2. (n \div 256) % 256 = n \div 256
  BY <1>1, SMT DEF Byte
<1>3. (n % 256) + 256 * (n \div 256) = n
  OBVIOUS
<1> QED
  BY <1>1, <1>2, <1>3 DEF Uint16

\* And what is read is written again as the same bytes.
LEMMA WordWrittenBack ==
  ASSUME NEW a \in Byte, NEW b \in Byte, NEW n, n = a + 256 * b
  PROVE  Uint16(n) = <<a, b>>
<1>1. n % 256 = a /\ (n \div 256) % 256 = b
  BY DEF Byte
<1> QED
  BY <1>1 DEF Uint16

\* A slice is as long as it says, and has the bytes of the page.
LEMMA SliceOf ==
  ASSUME NEW d \in Page, NEW o \in Nat, NEW n \in Nat, o + n <= PAGE_SIZE
  PROVE  /\ Slice(d, o, n) \in Seq(Byte) /\ Len(Slice(d, o, n)) = n
         /\ \A i \in 1 .. n : Slice(d, o, n)[i] = d[o + i]
<1>1. d \in Seq(Byte) /\ Len(d) = PAGE_SIZE
  BY PageBytes
<1> QED
  BY <1>1, Sizes DEF Slice

\* Sequences with the same elements.
LEMMA SameSequence ==
  ASSUME NEW S, NEW a \in Seq(S), NEW b \in Seq(S), Len(a) = Len(b),
         \A i \in 1 .. Len(a) : a[i] = b[i]
  PROVE  a = b
OBVIOUS

\* The slice is known by its bytes.
LEMMA SliceIs ==
  ASSUME NEW d \in Page, NEW o \in Nat, NEW s \in Seq(Byte), o + Len(s) <= PAGE_SIZE,
         \A i \in 1 .. Len(s) : d[o + i] = s[i]
  PROVE  Slice(d, o, Len(s)) = s
<1>1. Len(s) \in Nat
  OBVIOUS
<1>2. /\ Slice(d, o, Len(s)) \in Seq(Byte) /\ Len(Slice(d, o, Len(s))) = Len(s)
      /\ \A i \in 1 .. Len(s) : Slice(d, o, Len(s))[i] = d[o + i]
  BY <1>1, SliceOf
<1> QED
  BY <1>1, <1>2, SameSequence

\* Pages that have the same bytes there have the same slice.
LEMMA SliceSame ==
  ASSUME NEW d \in Page, NEW c \in Page, NEW o \in Nat, NEW n \in Nat, o + n <= PAGE_SIZE,
         \A i \in 1 .. PAGE_SIZE : o < i /\ i <= o + n => c[i] = d[i]
  PROVE  Slice(c, o, n) = Slice(d, o, n)
<1> DEFINE s == Slice(d, o, n)
<1>1. s \in Seq(Byte) /\ Len(s) = n /\ \A i \in 1 .. n : s[i] = d[o + i]
  BY SliceOf
<1> HIDE DEF s
<1>2. ASSUME NEW i \in 1 .. n PROVE c[o + i] = s[i]
  <2>1. o + i \in 1 .. PAGE_SIZE /\ o < o + i /\ o + i <= o + n
    BY Sizes
  <2> QED
    BY <1>1, <2>1
<1>3. Slice(c, o, Len(s)) = s
  BY <1>1, <1>2, SliceIs
<1> QED
  BY <1>1, <1>3 DEF s

\* What is written is a page again, whatever the offset.
LEMMA WrittenPage ==
  ASSUME NEW d \in Page, NEW o, NEW b \in Seq(Byte)
  PROVE  /\ Written(d, o, b) \in Page
         /\ \A i \in 1 .. PAGE_SIZE :
              Written(d, o, b)[i] = IF i - o \in DOMAIN b THEN b[i - o] ELSE d[i]
<1>1. \A i \in DOMAIN b : b[i] \in Byte
  OBVIOUS
<1>2. \A i \in 1 .. PAGE_SIZE : d[i] \in Byte
  BY PageBytes
<1> QED
  BY <1>1, <1>2 DEF Written, Page

------------------------------------------------------------------------------
(* Walks *)

\* A recursion over the numbers up to n that goes forward: it ends at some of
\* them, and takes some of the others down.
Follows(f, m, n, base, next, stop, take) ==
  f = [o \in m .. n |->
         IF o \in stop THEN base[o]
         ELSE IF o \in take THEN <<o>> \o f[next[o]] ELSE f[next[o]]]

\* There is a function that does so.
LEMMA FollowsExists ==
  ASSUME NEW n \in Nat, NEW base, NEW next, NEW stop, NEW take,
         \A o \in 0 .. n : o \notin stop => next[o] \in o + 1 .. n
  PROVE  \E f : Follows(f, 0, n, base, next, stop, take)
<1> DEFINE Have(m) == \E f : Follows(f, m, n, base, next, stop, take)
<1> DEFINE G == {i \in Nat : i <= n + 1 => Have(n + 1 - i)}
<1>1. 0 \in G
  <2>1. Follows([o \in n + 1 .. n |-> 0], n + 1, n, base, next, stop, take)
    BY DEF Follows
  <2> QED
    BY <2>1
<1>2. ASSUME NEW i \in Nat, i \in G PROVE i + 1 \in G
  <2> SUFFICES ASSUME i + 1 <= n + 1 PROVE Have(n + 1 - (i + 1))
    OBVIOUS
  <2>1. PICK m \in 0 .. n : m = n + 1 - (i + 1) /\ m + 1 = n + 1 - i
    OBVIOUS
  <2>2. PICK f : Follows(f, m + 1, n, base, next, stop, take)
    BY <1>2, <2>1
  <2>3. /\ DOMAIN f = m + 1 .. n
        /\ \A o \in m + 1 .. n :
             f[o] = IF o \in stop THEN base[o]
                    ELSE IF o \in take THEN <<o>> \o f[next[o]] ELSE f[next[o]]
    BY <2>2 DEF Follows
  <2> DEFINE first == IF m \in stop THEN base[m]
                      ELSE IF m \in take THEN <<m>> \o f[next[m]] ELSE f[next[m]]
  <2> HIDE DEF first
  <2> DEFINE g == [o \in m .. n |-> IF o = m THEN first ELSE f[o]]
  <2>4. g[m] = first /\ \A o \in m + 1 .. n : g[o] = f[o]
    BY <2>1
  <2> HIDE DEF g
  <2>5. ASSUME NEW o \in m .. n
        PROVE  (IF o = m THEN first ELSE f[o])
                 = IF o \in stop THEN base[o]
                   ELSE IF o \in take THEN <<o>> \o g[next[o]] ELSE g[next[o]]
    <3>1. o \notin stop => next[o] \in m + 1 .. n
      BY <2>1
    <3>2. o \notin stop => g[next[o]] = f[next[o]]
      BY <2>4, <3>1, Zenon
    <3>3. CASE o = m
      BY <3>2, <3>3, Zenon DEF first
    <3>4. CASE o # m
      <4>1. o \in m + 1 .. n
        BY <2>1, <3>4
      <4> QED
        BY <2>3, <3>2, <3>4, <4>1, Zenon
    <3> QED
      BY <3>3, <3>4, Zenon
  <2>6. Follows(g, m, n, base, next, stop, take)
    BY <2>5, Zenon DEF g, Follows
  <2> QED
    BY <2>1, <2>6, Zenon
<1>3. n + 1 \in G
  <2> HIDE DEF G
  <2> QED
    BY <1>1, <1>2, SetInduction
<1>4. n + 1 - (n + 1) = 0
  OBVIOUS
<1> QED
  BY <1>3, <1>4

\* The offsets, and where a walk is told that there is no record.
LEMMA OffsetsAre ==
  /\ NotFound \in Nat /\ Offsets = 0 .. NotFound /\ PAGE_SIZE <= NotFound
  /\ ~InLoop(NotFound) /\ \A o \in Nat : InLoop(o) => o + 4 <= PAGE_SIZE /\ o \in Offsets
  /\ \A o \in Nat : InLoop(o) => o + 4 \in o + 1 .. NotFound
BY Sizes DEF NotFound, Offsets, InLoop

\* What a dead place says of where to go on is ahead.
LEMMA SkipsForward ==
  ASSUME NEW d \in Page, NEW o \in Nat, InLoop(o)
  PROVE  /\ After(d, o) \in Nat /\ o < After(d, o)
         /\ Skippable(d, o) \/ Fits(d, o) => After(d, o) \in o + 1 .. NotFound
         /\ Dead(d, o) => After(d, o) \in o + 1 .. NotFound
<1>1. o + 4 <= PAGE_SIZE /\ PAGE_SIZE <= NotFound /\ NotFound \in Nat
  BY OffsetsAre
<1>2. /\ KeyLen(d, o) \in Nat /\ ValueLen(d, o) \in Nat /\ ValueLen(d, o) <= MaxUint16
  BY <1>1, Lengths
<1>3. After(d, o) \in Nat /\ o < After(d, o)
  BY <1>2 DEF After
<1>4. Fits(d, o) => After(d, o) <= PAGE_SIZE
  BY DEF Fits, After
<1>5. Skippable(d, o) => After(d, o) < PAGE_SIZE
  BY DEF Skippable
<1>6. Dead(d, o) => After(d, o) <= NotFound
  BY <1>1, <1>2, Sizes DEF Dead, After, NotFound
<1> QED
  BY <1>1, <1>3, <1>4, <1>5, <1>6, Sizes

\* From n down to 0: a set that has a number, if it has all above it.
LEMMA Backward ==
  ASSUME NEW G, NEW n \in Nat, \A i \in 0 .. n : (\A j \in i + 1 .. n : j \in G) => i \in G
  PROVE  0 .. n \subseteq G
<1> DEFINE H == {i \in 1 .. n + 1 : i - 1 \in G}
<1>1. ASSUME NEW i \in 1 .. n + 1, \A j \in i + 1 .. n + 1 : j \in H PROVE i \in H
  <2>1. \A j \in i - 1 + 1 .. n : j + 1 \in H /\ j + 1 - 1 = j
    BY <1>1
  <2>2. i - 1 \in 0 .. n
    OBVIOUS
  <2> QED
    BY <2>1, <2>2
<1>2. 1 .. n + 1 \subseteq H
  <2> HIDE DEF H
  <2> QED
    BY <1>1, DownInduction
<1>3. \A i \in 0 .. n : i + 1 \in H /\ i + 1 - 1 = i
  BY <1>2
<1> QED
  BY <1>3

\* A search that ends where it is or at n ends ahead of where it began; and at n, if
\* it finds nothing on its way.
LEMMA SearchEnds ==
  ASSUME NEW n \in Nat, NEW base, NEW next, NEW stop, NEW f,
         Follows(f, 0, n, base, next, stop, {}),
         \A o \in 0 .. n : o \notin stop => next[o] \in o + 1 .. n,
         \A o \in stop : base[o] \in {o, n},
         NEW e \in Nat, \A o \in stop : e <= o => base[o] = n
  PROVE  \A o \in 0 .. n : f[o] \in o .. n /\ (e <= o => f[o] = n)
<1> DEFINE G == {o \in 0 .. n : f[o] \in o .. n /\ (e <= o => f[o] = n)}
<1>0. \A o \in 0 .. n : f[o] = IF o \in stop THEN base[o]
                            ELSE IF o \in {} THEN <<o>> \o f[next[o]] ELSE f[next[o]]
  BY Zenon DEF Follows
<1>1. ASSUME NEW o \in 0 .. n, \A q \in o + 1 .. n : q \in G PROVE o \in G
  <2>1. CASE o \in stop
    <3>1. f[o] = base[o]
      BY <1>0, <2>1, Zenon
    <3> QED
      BY <2>1, <3>1
  <2>2. CASE o \notin stop
    <3>1. f[o] = f[next[o]]
      BY <1>0, <2>2, Zenon
    <3>2. PICK q : q = next[o]
      OBVIOUS
    <3>3. q \in o + 1 .. n
      BY <2>2, <3>2
    <3>4. f[q] \in q .. n /\ (e <= q => f[q] = n)
      BY <1>1, <3>3
    <3> QED
      BY <3>1, <3>2, <3>3, <3>4
  <2> QED
    BY <2>1, <2>2
<1>2. 0 .. n \subseteq G
  <2> HIDE DEF G
  <2> QED
    BY <1>1, Backward
<1> QED
  BY <1>2

\* The page has nothing from e on.
ZeroFrom(d, e) == e \in Nat /\ \A i \in 1 .. PAGE_SIZE : e < i => d[i] = 0

\* Nothing is there to be read.
LEMMA ZeroPlace ==
  ASSUME NEW d \in Page, NEW e \in Nat, ZeroFrom(d, e), NEW o \in Nat, e <= o, o + 4 <= PAGE_SIZE
  PROVE  KeyLen(d, o) = 0 /\ ValueLen(d, o) = 0
<1>1. d[o + 1] = 0 /\ d[o + 2] = 0 /\ d[o + 3] = 0 /\ d[o + 4] = 0
  BY Sizes DEF ZeroFrom
<1>2. /\ KeyLen(d, o) = d[o + 1] + 256 * d[o + 2]
      /\ ValueLen(d, o) = d[o + 3] + 256 * d[o + 4]
  BY Lengths
<1>3. KeyLen(d, o) = 0 + 256 * 0 /\ ValueLen(d, o) = 0 + 256 * 0
  BY <1>1, <1>2, Zenon
<1> QED
  BY <1>3

\* Where a search may end that began behind o.
EndsAhead(d, o, s) ==
  s \in o + 1 .. NotFound /\ \A e \in 0 .. o : ZeroFrom(d, e) => s = NotFound

\* A function that does what a search does, at every place.
SearchBy(f, d) ==
  f = [s \in Offsets |->
         IF ~InLoop(s) THEN NotFound
         ELSE IF Plausible(d, s) THEN s
         ELSE IF Skippable(d, s) THEN f[After(d, s)] ELSE f[s + 4]]

\* The search of get, delete and scan goes ahead and finds nothing where nothing is.
LEMMA SearchAhead ==
  ASSUME NEW d \in Page, NEW o \in Nat, InLoop(o)
  PROVE  EndsAhead(d, o, Search(d, o))
<1> DEFINE stop == {s \in Offsets : ~InLoop(s) \/ Plausible(d, s)}
<1> DEFINE base == [s \in Offsets |-> IF ~InLoop(s) THEN NotFound ELSE s]
<1> DEFINE next == [s \in Offsets |-> IF Skippable(d, s) THEN After(d, s) ELSE s + 4]
<1>0. NotFound \in Nat /\ Offsets = 0 .. NotFound
  BY OffsetsAre
<1>1. ASSUME NEW s \in 0 .. NotFound, s \notin stop PROVE next[s] \in s + 1 .. NotFound
  <2>1. s \in Nat /\ InLoop(s)
    BY <1>0, <1>1
  <2> QED
    BY <1>0, <2>1, OffsetsAre, SkipsForward
<1>2. PICK f : Follows(f, 0, NotFound, base, next, stop, {})
  <2> HIDE DEF base, next, stop
  <2> QED
    BY <1>0, <1>1, FollowsExists
<1>3. ASSUME NEW s \in Offsets
      PROVE  (IF s \in stop THEN base[s] ELSE IF s \in {} THEN <<s>> \o f[next[s]] ELSE f[next[s]])
               = IF ~InLoop(s) THEN NotFound
                 ELSE IF Plausible(d, s) THEN s
                 ELSE IF Skippable(d, s) THEN f[After(d, s)] ELSE f[s + 4]
  BY Zenon
<1>4. \E g : SearchBy(g, d)
  <2> HIDE DEF base, next, stop
  <2>1. SearchBy(f, d)
    BY <1>0, <1>2, <1>3, Zenon DEF SearchBy, Follows
  <2> QED
    BY <2>1
<1>5. PICK g : SearchBy(g, d) /\ Search(d, o) = g[o + 4]
  <2> DEFINE g == CHOOSE from : SearchBy(from, d)
  <2>1. SearchBy(g, d)
    BY <1>4
  <2>2. Search(d, o) = g[o + 4]
    BY Zenon DEF Search, SearchBy
  <2> QED
    BY <2>1, <2>2
<1>6. Follows(g, 0, NotFound, base, next, stop, {})
  <2>1. ASSUME NEW s \in Offsets
        PROVE  (IF s \in stop THEN base[s] ELSE IF s \in {} THEN <<s>> \o g[next[s]] ELSE g[next[s]])
                 = IF ~InLoop(s) THEN NotFound
                   ELSE IF Plausible(d, s) THEN s
                   ELSE IF Skippable(d, s) THEN g[After(d, s)] ELSE g[s + 4]
    BY Zenon
  <2> HIDE DEF base, next, stop
  <2> QED
    BY <1>0, <1>5, <2>1, Zenon DEF SearchBy, Follows
<1>7. \A s \in stop : base[s] \in {s, NotFound}
  OBVIOUS
<1>8. ASSUME NEW e \in 0 .. o, ZeroFrom(d, e), NEW s \in stop, e <= s PROVE base[s] = NotFound
  <2>1. e \in Nat /\ s \in Nat
    BY <1>0
  <2>2. InLoop(s) => s + 4 <= PAGE_SIZE
    BY <2>1, OffsetsAre
  <2>3. InLoop(s) => KeyLen(d, s) = 0
    BY <1>8, <2>1, <2>2, ZeroPlace
  <2> QED
    BY <2>3 DEF Plausible
<1>9. o + 4 \in 0 .. NotFound
  BY OffsetsAre
<1> HIDE DEF base, next, stop
<1>10. g[o + 4] \in o + 4 .. NotFound
  <2>1. \A s \in stop : NotFound + 1 <= s => base[s] = NotFound
    BY <1>0 DEF stop
  <2> QED
    BY <1>0, <1>1, <1>6, <1>7, <1>9, <2>1, SearchEnds
<1>11. ASSUME NEW e \in 0 .. o, ZeroFrom(d, e) PROVE g[o + 4] = NotFound
  <2>1. \A s \in 0 .. NotFound : g[s] \in s .. NotFound /\ (e <= s => g[s] = NotFound)
    BY <1>0, <1>1, <1>6, <1>7, <1>8, <1>11, SearchEnds
  <2> QED
    BY <1>9, <2>1
<1> QED
  BY <1>0, <1>5, <1>10, <1>11 DEF EndsAhead

\* The same for the search of open.
SearchOnOpenBy(f, d, o) ==
  f = [s \in Offsets |->
         IF ~InLoop(s) THEN NotFound
         ELSE IF Plausible(d, s) THEN s
         ELSE IF Dead(d, s) /\ ValueLen(d, s) > 0 THEN f[After(d, s)]
         ELSE IF s + 4 > o + PAGE_SIZE \div 2 THEN NotFound ELSE f[s + 4]]

\* It does, too.
LEMMA SearchOnOpenAhead ==
  ASSUME NEW d \in Page, NEW o \in Nat, InLoop(o)
  PROVE  EndsAhead(d, o, SearchOnOpen(d, o))
<1> DEFINE stop == {s \in Offsets : \/ ~InLoop(s) \/ Plausible(d, s)
                                    \/ /\ ~(Dead(d, s) /\ ValueLen(d, s) > 0)
                                       /\ s + 4 > o + PAGE_SIZE \div 2}
<1> DEFINE base == [s \in Offsets |-> IF InLoop(s) /\ Plausible(d, s) THEN s ELSE NotFound]
<1> DEFINE next == [s \in Offsets |-> IF Dead(d, s) /\ ValueLen(d, s) > 0 THEN After(d, s) ELSE s + 4]
<1>0. NotFound \in Nat /\ Offsets = 0 .. NotFound
  BY OffsetsAre
<1>1. ASSUME NEW s \in 0 .. NotFound, s \notin stop PROVE next[s] \in s + 1 .. NotFound
  <2>1. s \in Nat /\ InLoop(s)
    BY <1>0, <1>1
  <2> QED
    BY <1>0, <2>1, OffsetsAre, SkipsForward
<1>2. PICK f : Follows(f, 0, NotFound, base, next, stop, {})
  <2> HIDE DEF base, next, stop
  <2> QED
    BY <1>0, <1>1, FollowsExists
<1>3. ASSUME NEW s \in Offsets
      PROVE  (IF s \in stop THEN base[s] ELSE IF s \in {} THEN <<s>> \o f[next[s]] ELSE f[next[s]])
               = IF ~InLoop(s) THEN NotFound
                 ELSE IF Plausible(d, s) THEN s
                 ELSE IF Dead(d, s) /\ ValueLen(d, s) > 0 THEN f[After(d, s)]
                 ELSE IF s + 4 > o + PAGE_SIZE \div 2 THEN NotFound ELSE f[s + 4]
  BY Zenon
<1>4. \E g : SearchOnOpenBy(g, d, o)
  <2> HIDE DEF base, next, stop
  <2>1. SearchOnOpenBy(f, d, o)
    BY <1>0, <1>2, <1>3, Zenon DEF SearchOnOpenBy, Follows
  <2> QED
    BY <2>1
<1>5. PICK g : SearchOnOpenBy(g, d, o) /\ SearchOnOpen(d, o) = g[o + 4]
  <2> DEFINE g == CHOOSE from : SearchOnOpenBy(from, d, o)
  <2>1. SearchOnOpenBy(g, d, o)
    BY <1>4
  <2>2. SearchOnOpen(d, o) = g[o + 4]
    BY Zenon DEF SearchOnOpen, SearchOnOpenBy
  <2> QED
    BY <2>1, <2>2
<1>6. Follows(g, 0, NotFound, base, next, stop, {})
  <2>1. ASSUME NEW s \in Offsets
        PROVE  (IF s \in stop THEN base[s] ELSE IF s \in {} THEN <<s>> \o g[next[s]] ELSE g[next[s]])
                 = IF ~InLoop(s) THEN NotFound
                   ELSE IF Plausible(d, s) THEN s
                   ELSE IF Dead(d, s) /\ ValueLen(d, s) > 0 THEN g[After(d, s)]
                   ELSE IF s + 4 > o + PAGE_SIZE \div 2 THEN NotFound ELSE g[s + 4]
    BY Zenon
  <2> HIDE DEF base, next, stop
  <2> QED
    BY <1>0, <1>5, <2>1, Zenon DEF SearchOnOpenBy, Follows
<1>7. \A s \in stop : base[s] \in {s, NotFound}
  OBVIOUS
<1>8. ASSUME NEW e \in 0 .. o, ZeroFrom(d, e), NEW s \in stop, e <= s PROVE base[s] = NotFound
  <2>1. e \in Nat /\ s \in Nat
    BY <1>0
  <2>2. InLoop(s) => s + 4 <= PAGE_SIZE
    BY <2>1, OffsetsAre
  <2>3. InLoop(s) => KeyLen(d, s) = 0
    BY <1>8, <2>1, <2>2, ZeroPlace
  <2> QED
    BY <2>3 DEF Plausible
<1>9. o + 4 \in 0 .. NotFound
  BY OffsetsAre
<1> HIDE DEF base, next, stop
<1>10. g[o + 4] \in o + 4 .. NotFound
  <2>1. \A s \in stop : NotFound + 1 <= s => base[s] = NotFound
    BY <1>0 DEF stop
  <2> QED
    BY <1>0, <1>1, <1>6, <1>7, <1>9, <2>1, SearchEnds
<1>11. ASSUME NEW e \in 0 .. o, ZeroFrom(d, e) PROVE g[o + 4] = NotFound
  <2>1. \A s \in 0 .. NotFound : g[s] \in s .. NotFound /\ (e <= s => g[s] = NotFound)
    BY <1>0, <1>1, <1>6, <1>7, <1>8, <1>11, SearchEnds
  <2> QED
    BY <1>9, <2>1
<1> QED
  BY <1>0, <1>5, <1>10, <1>11 DEF EndsAhead

\* And for the search of put.
SearchForRoomBy(f, d, o) ==
  f = [s \in Offsets |->
         IF s >= PAGE_SIZE - 4 THEN NotFound
         ELSE IF KeyLen(d, s) \in 1 .. MAX_KEY_SIZE THEN s
         ELSE IF s + 4 > o + 100 THEN NotFound ELSE f[s + 4]]

\* It does, too.
LEMMA SearchForRoomAhead ==
  ASSUME NEW d \in Page, NEW o \in Nat, InLoop(o)
  PROVE  EndsAhead(d, o, SearchForRoom(d, o))
<1> DEFINE stop == {s \in Offsets : \/ s >= PAGE_SIZE - 4 \/ KeyLen(d, s) \in 1 .. MAX_KEY_SIZE
                                    \/ s + 4 > o + 100}
<1> DEFINE base == [s \in Offsets |-> IF s >= PAGE_SIZE - 4 \/ KeyLen(d, s) \notin 1 .. MAX_KEY_SIZE THEN NotFound ELSE s]
<1> DEFINE next == [s \in Offsets |-> s + 4]
<1>0. NotFound \in Nat /\ Offsets = 0 .. NotFound
  BY OffsetsAre
<1>1. ASSUME NEW s \in 0 .. NotFound, s \notin stop PROVE next[s] \in s + 1 .. NotFound
  <2>1. s \in Nat /\ ~(s >= PAGE_SIZE - 4) /\ PAGE_SIZE <= NotFound
    BY <1>0, <1>1, OffsetsAre
  <2> QED
    BY <1>0, <2>1, Sizes
<1>2. PICK f : Follows(f, 0, NotFound, base, next, stop, {})
  <2> HIDE DEF base, next, stop
  <2> QED
    BY <1>0, <1>1, FollowsExists
<1>3. ASSUME NEW s \in Offsets
      PROVE  (IF s \in stop THEN base[s] ELSE IF s \in {} THEN <<s>> \o f[next[s]] ELSE f[next[s]])
               = IF s >= PAGE_SIZE - 4 THEN NotFound
                 ELSE IF KeyLen(d, s) \in 1 .. MAX_KEY_SIZE THEN s
                 ELSE IF s + 4 > o + 100 THEN NotFound ELSE f[s + 4]
  BY Zenon
<1>4. \E g : SearchForRoomBy(g, d, o)
  <2> HIDE DEF base, next, stop
  <2>1. SearchForRoomBy(f, d, o)
    BY <1>0, <1>2, <1>3, Zenon DEF SearchForRoomBy, Follows
  <2> QED
    BY <2>1
<1>5. PICK g : SearchForRoomBy(g, d, o) /\ SearchForRoom(d, o) = g[o + 4]
  <2> DEFINE g == CHOOSE from : SearchForRoomBy(from, d, o)
  <2>1. SearchForRoomBy(g, d, o)
    BY <1>4
  <2>2. SearchForRoom(d, o) = g[o + 4]
    BY Zenon DEF SearchForRoom, SearchForRoomBy
  <2> QED
    BY <2>1, <2>2
<1>6. Follows(g, 0, NotFound, base, next, stop, {})
  <2>1. ASSUME NEW s \in Offsets
        PROVE  (IF s \in stop THEN base[s] ELSE IF s \in {} THEN <<s>> \o g[next[s]] ELSE g[next[s]])
                 = IF s >= PAGE_SIZE - 4 THEN NotFound
                   ELSE IF KeyLen(d, s) \in 1 .. MAX_KEY_SIZE THEN s
                   ELSE IF s + 4 > o + 100 THEN NotFound ELSE g[s + 4]
    BY Zenon
  <2> HIDE DEF base, next, stop
  <2> QED
    BY <1>0, <1>5, <2>1, Zenon DEF SearchForRoomBy, Follows
<1>7. \A s \in stop : base[s] \in {s, NotFound}
  OBVIOUS
<1>8. ASSUME NEW e \in 0 .. o, ZeroFrom(d, e), NEW s \in stop, e <= s PROVE base[s] = NotFound
  <2>1. e \in Nat /\ s \in Nat
    BY <1>0
  <2>2. ~(s >= PAGE_SIZE - 4) => s + 4 <= PAGE_SIZE
    BY <2>1, Sizes
  <2>3. ~(s >= PAGE_SIZE - 4) => KeyLen(d, s) = 0
    BY <1>8, <2>1, <2>2, ZeroPlace
  <2> QED
    BY <2>3
<1>9. o + 4 \in 0 .. NotFound
  BY OffsetsAre
<1> HIDE DEF base, next, stop
<1>10. g[o + 4] \in o + 4 .. NotFound
  <2>1. \A s \in stop : NotFound + 1 <= s => base[s] = NotFound
    BY <1>0 DEF stop
  <2> QED
    BY <1>0, <1>1, <1>6, <1>7, <1>9, <2>1, SearchEnds
<1>11. ASSUME NEW e \in 0 .. o, ZeroFrom(d, e) PROVE g[o + 4] = NotFound
  <2>1. \A s \in 0 .. NotFound : g[s] \in s .. NotFound /\ (e <= s => g[s] = NotFound)
    BY <1>0, <1>1, <1>6, <1>7, <1>8, <1>11, SearchEnds
  <2> QED
    BY <1>9, <2>1
<1> QED
  BY <1>0, <1>5, <1>10, <1>11 DEF EndsAhead

------------------------------------------------------------------------------
(* What the walks see on a page with nothing but records *)

\* What is at the places of such a page.
PlacesOf(d, starts, end) ==
  /\ end \in Nat /\ starts \subseteq Nat /\ ZeroFrom(d, end) /\ end \notin starts
  /\ end <= PAGE_SIZE
  /\ \A o \in starts : /\ InLoop(o) /\ o + 4 <= PAGE_SIZE /\ ~Dead(d, o) /\ ~Skippable(d, o)
                       /\ Fits(d, o) /\ KeyLen(d, o) <= MAX_KEY_SIZE
                       /\ KeyLen(d, o) \in Nat /\ ValueLen(d, o) \in Nat
                       /\ o < After(d, o) /\ After(d, o) \in starts \cup {end}
                       /\ After(d, o) <= end
  /\ InLoop(end) => Dead(d, end) /\ ~Skippable(d, end) /\ ValueLen(d, end) = 0

\* They are.
LEMMA LaidPlaces ==
  ASSUME NEW d \in Page, NEW starts, NEW end, Laid(d, starts, end)
  PROVE  PlacesOf(d, starts, end)
<1>1. end \in Nat /\ end <= PAGE_SIZE /\ starts \subseteq Nat /\ ZeroFrom(d, end)
  BY Sizes DEF Laid, ZeroFrom
<1>2. ASSUME NEW o \in starts
      PROVE  /\ InLoop(o) /\ o + 4 <= PAGE_SIZE /\ ~Dead(d, o) /\ ~Skippable(d, o)
             /\ Fits(d, o) /\ KeyLen(d, o) <= MAX_KEY_SIZE
             /\ KeyLen(d, o) \in Nat /\ ValueLen(d, o) \in Nat
             /\ o < After(d, o) /\ After(d, o) \in starts \cup {end} /\ After(d, o) <= end
  <2>1. o \in Nat /\ InLoop(o) /\ KeyLen(d, o) \in 1 .. MAX_KEY_SIZE /\ Fits(d, o)
        /\ After(d, o) \in starts \cup {end} /\ After(d, o) <= end
    BY <1>1 DEF Laid, Live
  <2>2. o + 4 <= PAGE_SIZE
    BY <2>1, OffsetsAre
  <2>3. KeyLen(d, o) \in Nat /\ ValueLen(d, o) \in Nat /\ o < After(d, o)
    BY <2>1, <2>2, Lengths, SkipsForward
  <2>4. KeyLen(d, o) # 0 /\ KeyLen(d, o) <= MAX_KEY_SIZE
    BY <2>1, Sizes
  <2> QED
    BY <2>1, <2>2, <2>3, <2>4 DEF Dead, Skippable
<1>3. end \notin starts
  <2> SUFFICES ASSUME end \in starts PROVE FALSE
    OBVIOUS
  <2>1. end < After(d, end) /\ After(d, end) <= end /\ After(d, end) \in Nat
    BY <1>1, <1>2
  <2> QED
    BY <1>1, <2>1
<1>4. InLoop(end) => Dead(d, end) /\ ~Skippable(d, end) /\ ValueLen(d, end) = 0
  <2> SUFFICES ASSUME InLoop(end)
               PROVE  Dead(d, end) /\ ~Skippable(d, end) /\ ValueLen(d, end) = 0
    OBVIOUS
  <2>1. end + 4 <= PAGE_SIZE
    BY <1>1, OffsetsAre
  <2>2. KeyLen(d, end) = 0 /\ ValueLen(d, end) = 0
    BY <1>1, <2>1, ZeroPlace
  <2>3. ~(ValueLen(d, end) > 0)
    BY <2>2
  <2> QED
    BY <2>2, <2>3, Zenon DEF Dead, Skippable
<1> QED
  BY <1>1, <1>2, <1>3, <1>4, Zenon DEF PlacesOf

\* A function that does what a walk does, at every place.
WalkBy(f, d, resume, accepts) ==
  f = [o \in Offsets |->
         IF ~InLoop(o) THEN <<>>
         ELSE IF Skippable(d, o) THEN f[After(d, o)]
         ELSE IF Dead(d, o) THEN f[resume[o]]
         ELSE IF accepts[o] THEN <<o>> \o f[After(d, o)] ELSE <<>>]

\* Where a walk goes on, it goes forward.
Forward(d, resume, accepts) ==
  \A o \in Offsets : InLoop(o) => /\ resume[o] \in o + 1 .. NotFound
                                  /\ accepts[o] => Fits(d, o)

\* A walk does what such a function does.
LEMMA WalkGoes ==
  ASSUME NEW d \in Page, NEW resume, NEW accepts, Forward(d, resume, accepts)
  PROVE  \E f : WalkBy(f, d, resume, accepts) /\ Walk(d, resume, accepts) = f[0]
<1> DEFINE stop == {o \in Offsets : \/ ~InLoop(o)
                                    \/ ~Skippable(d, o) /\ ~Dead(d, o) /\ ~accepts[o]}
<1> DEFINE base == [o \in Offsets |-> <<>>]
<1> DEFINE take == {o \in Offsets : ~Skippable(d, o) /\ ~Dead(d, o)}
<1> DEFINE next == [o \in Offsets |-> IF Dead(d, o) /\ ~Skippable(d, o) THEN resume[o]
                                      ELSE After(d, o)]
<1>0. NotFound \in Nat /\ Offsets = 0 .. NotFound
  BY OffsetsAre
<1>1. ASSUME NEW o \in 0 .. NotFound, o \notin stop PROVE next[o] \in o + 1 .. NotFound
  <2>1. o \in Nat /\ InLoop(o) /\ o \in Offsets
    BY <1>0, <1>1
  <2>2. resume[o] \in o + 1 .. NotFound /\ (accepts[o] => Fits(d, o))
    BY <2>1 DEF Forward
  <2>3. Skippable(d, o) \/ Fits(d, o) => After(d, o) \in o + 1 .. NotFound
    BY <2>1, SkipsForward
  <2>4. Skippable(d, o) \/ Dead(d, o) \/ accepts[o]
    BY <1>1, <2>1, Zenon
  <2> QED
    BY <2>1, <2>2, <2>3, <2>4, Zenon
<1>2. PICK f : Follows(f, 0, NotFound, base, next, stop, take)
  <2> HIDE DEF base, next, stop, take
  <2> QED
    BY <1>0, <1>1, FollowsExists
<1>3. ASSUME NEW o \in Offsets
      PROVE  (IF o \in stop THEN base[o]
              ELSE IF o \in take THEN <<o>> \o f[next[o]] ELSE f[next[o]])
               = IF ~InLoop(o) THEN <<>>
                 ELSE IF Skippable(d, o) THEN f[After(d, o)]
                 ELSE IF Dead(d, o) THEN f[resume[o]]
                 ELSE IF accepts[o] THEN <<o>> \o f[After(d, o)] ELSE <<>>
  <2>1. Skippable(d, o) => Dead(d, o)
    BY DEF Skippable
  <2> QED
    BY <2>1, Zenon
<1>4. WalkBy(f, d, resume, accepts)
  <2> HIDE DEF base, next, stop, take
  <2> QED
    BY <1>0, <1>2, <1>3, Zenon DEF WalkBy, Follows
<1> DEFINE g == CHOOSE from : WalkBy(from, d, resume, accepts)
<1>5. WalkBy(g, d, resume, accepts)
  BY <1>4
<1>6. Walk(d, resume, accepts) = g[0]
  BY Zenon DEF Walk, WalkBy
<1> QED
  BY <1>5, <1>6

\* The elements of a sequence with one more in front.
LEMMA RangeOfTaken ==
  ASSUME NEW o \in Nat, NEW s \in Seq(Nat)
  PROVE  <<o>> \o s \in Seq(Nat) /\ Range(<<o>> \o s) = {o} \cup Range(s)
<1>1. <<o>> \in Seq(Nat) /\ Len(<<o>>) = 1 /\ <<o>>[1] = o
  OBVIOUS
<1>2. PICK a : a = <<o>>
  OBVIOUS
<1>3. PICK t : t = a \o s
  OBVIOUS
<1>4. /\ t \in Seq(Nat) /\ Len(t) = 1 + Len(s) /\ Len(s) \in Nat /\ t[1] = o
      /\ \A i \in 1 .. Len(s) : t[1 + i] = s[i]
  BY <1>1, <1>2, <1>3, JoinedSequences DEF Joined
<1>5. DOMAIN t = 1 .. 1 + Len(s) /\ DOMAIN s = 1 .. Len(s)
  BY <1>4
<1>6. \A i \in 1 .. 1 + Len(s) : i = 1 \/ (i - 1 \in 1 .. Len(s) /\ 1 + (i - 1) = i)
  BY <1>4
<1>7. \A i \in 1 .. Len(s) : 1 + i \in 1 .. 1 + Len(s)
  BY <1>4
<1>8. 1 \in 1 .. 1 + Len(s)
  BY <1>4
<1>9. Range(t) = {o} \cup Range(s)
  <2>1. ASSUME NEW i \in DOMAIN t PROVE t[i] \in {o} \cup Range(s)
    <3>1. i = 1 \/ (i - 1 \in DOMAIN s /\ t[i] = s[i - 1])
      BY <1>4, <1>5, <1>6, Zenon
    <3> QED
      BY <1>4, <3>1 DEF Range
  <2>2. ASSUME NEW i \in DOMAIN s PROVE s[i] \in Range(t)
    <3>1. 1 + i \in DOMAIN t /\ t[1 + i] = s[i]
      BY <1>4, <1>5, <1>7
    <3> QED
      BY <3>1, Zenon DEF Range
  <2>3. o \in Range(t)
    BY <1>4, <1>5, <1>8, Zenon DEF Range
  <2> QED
    BY <2>1, <2>2, <2>3, Zenon DEF Range
<1> QED
  BY <1>2, <1>3, <1>4, <1>9

\* A walk that accepts every record, and finds nothing behind the last, sees them all
\* and nothing else.
LEMMA WalkSeesAll ==
  ASSUME NEW d \in Page, NEW starts, NEW end, Laid(d, starts, end),
         NEW resume, NEW accepts, Forward(d, resume, accepts),
         \A o \in starts : accepts[o], InLoop(end) => resume[end] = NotFound
  PROVE  Range(Walk(d, resume, accepts)) = starts
<1>0. /\ NotFound \in Nat /\ Offsets = 0 .. NotFound /\ PAGE_SIZE <= NotFound /\ ~InLoop(NotFound)
      /\ PlacesOf(d, starts, end)
  BY OffsetsAre, LaidPlaces
<1>1. PICK f : WalkBy(f, d, resume, accepts) /\ Walk(d, resume, accepts) = f[0]
  BY WalkGoes
<1>2. \A o \in Offsets : f[o] = IF ~InLoop(o) THEN <<>>
                                ELSE IF Skippable(d, o) THEN f[After(d, o)]
                                ELSE IF Dead(d, o) THEN f[resume[o]]
                                ELSE IF accepts[o] THEN <<o>> \o f[After(d, o)] ELSE <<>>
  BY <1>1, Zenon DEF WalkBy
<1>3. \A o \in starts \cup {end} : o \in Nat /\ o <= PAGE_SIZE /\ o \in Offsets
  BY <1>0, Sizes DEF PlacesOf
<1> DEFINE From(o) == {q \in starts : o <= q}
<1> DEFINE G == {o \in 0 .. NotFound :
                   o \in starts \cup {end} => f[o] \in Seq(Nat) /\ Range(f[o]) = From(o)}
<1>4. f[end] = <<>>
  <2>1. CASE ~InLoop(end)
    BY <1>2, <1>3, <2>1, Zenon
  <2>2. CASE InLoop(end)
    <3>1. f[end] = f[NotFound]
      BY <1>0, <1>2, <1>3, <2>2, Zenon DEF PlacesOf
    <3>2. NotFound \in Offsets
      BY <1>0
    <3> QED
      BY <1>0, <1>2, <3>1, <3>2, Zenon
  <2> QED
    BY <2>1, <2>2
<1>5. ASSUME NEW o \in 0 .. NotFound, \A q \in o + 1 .. NotFound : q \in G PROVE o \in G
  <2>1. CASE o \in starts
    <3>1. f[o] = <<o>> \o f[After(d, o)]
      BY <1>0, <1>2, <1>3, <2>1, Zenon DEF PlacesOf
    <3>2. PICK q : q = After(d, o)
      OBVIOUS
    <3>3. q \in starts \cup {end} /\ o < q
      BY <1>0, <2>1, <3>2 DEF PlacesOf
    <3>4. q \in o + 1 .. NotFound
      BY <1>0, <1>3, <3>3, Sizes
    <3>5. f[q] \in Seq(Nat) /\ Range(f[q]) = From(q)
      BY <1>5, <3>3, <3>4
    <3>6. f[o] \in Seq(Nat) /\ Range(f[o]) = {o} \cup From(q)
      <4>1. o \in Nat /\ f[o] = <<o>> \o f[q]
        BY <1>3, <2>1, <3>1, <3>2, Zenon
      <4> QED
        BY <3>5, <4>1, RangeOfTaken, Zenon
    <3>7. \A r \in starts : o <= r <=> r = o \/ q <= r
      <4> SUFFICES ASSUME NEW r \in starts PROVE o <= r <=> r = o \/ q <= r
        OBVIOUS
      <4>1. o < r => q <= r
        BY <2>1, <3>2 DEF Laid
      <4> QED
        BY <1>3, <2>1, <3>3, <4>1
    <3> QED
      BY <2>1, <3>6, <3>7
  <2>2. CASE o = end
    <3>1. From(end) = {}
      <4> SUFFICES ASSUME NEW q \in starts, end <= q PROVE FALSE
        OBVIOUS
      <4>1. PICK r : r = After(d, q)
        OBVIOUS
      <4>2. q < r /\ r <= end /\ r \in starts \cup {end}
        BY <1>0, <4>1, Zenon DEF PlacesOf
      <4> QED
        BY <1>3, <4>2
    <3>2. <<>> \in Seq(Nat) /\ Range(<<>>) = {}
      BY DEF Range
    <3> QED
      BY <1>4, <2>2, <3>1, <3>2
  <2> QED
    BY <2>1, <2>2
<1>6. 0 \in G
  <2> HIDE DEF G
  <2>1. 0 .. NotFound \subseteq G
    BY <1>0, <1>5, Backward
  <2> QED
    BY <1>0, <2>1
<1>7. 0 \in starts \cup {end}
  BY DEF Laid
<1>8. From(0) = starts
  BY <1>3
<1> QED
  BY <1>1, <1>6, <1>7, <1>8

\* On a page of records every walk sees all of them.
LEMMA WalksAgree ==
  ASSUME NEW d \in Page, NEW starts, NEW end, Laid(d, starts, end)
  PROVE  /\ Range(RecordsOf(d)) = starts /\ Range(ScannedOf(d)) = starts
         /\ Range(IndexedOf(d)) = starts /\ Range(UpdatableOf(d)) = starts
<1> DEFINE fits == [o \in Offsets |-> Fits(d, o)]
<1> DEFINE short == [o \in Offsets |-> Fits(d, o) /\ KeyLen(d, o) <= MAX_KEY_SIZE]
<1> DEFINE search == [o \in Offsets |-> Search(d, o)]
<1> DEFINE onOpen == [o \in Offsets |-> SearchOnOpen(d, o)]
<1> DEFINE none == [o \in Offsets |-> NotFound]
<1>0. NotFound \in Nat /\ Offsets = 0 .. NotFound /\ PlacesOf(d, starts, end)
  BY OffsetsAre, LaidPlaces
<1>1. \A o \in Offsets : InLoop(o) => /\ search[o] \in o + 1 .. NotFound
                                      /\ onOpen[o] \in o + 1 .. NotFound
                                      /\ none[o] \in o + 1 .. NotFound
  <2> SUFFICES ASSUME NEW o \in Offsets, InLoop(o)
               PROVE  /\ search[o] \in o + 1 .. NotFound /\ onOpen[o] \in o + 1 .. NotFound
                      /\ none[o] \in o + 1 .. NotFound
    OBVIOUS
  <2>1. o \in Nat /\ o + 4 \in o + 1 .. NotFound
    BY <1>0, OffsetsAre
  <2>2. Search(d, o) \in o + 1 .. NotFound /\ SearchOnOpen(d, o) \in o + 1 .. NotFound
    BY <2>1, SearchAhead, SearchOnOpenAhead, Zenon DEF EndsAhead
  <2>3. NotFound \in o + 1 .. NotFound
    BY <1>0, <2>1
  <2> QED
    BY <2>2, <2>3, Zenon
<1>2. /\ Forward(d, search, fits) /\ Forward(d, search, short)
      /\ Forward(d, onOpen, short) /\ Forward(d, none, fits)
  BY <1>1, Zenon DEF Forward
<1>3. end \in Offsets /\ \A o \in starts : o \in Offsets
  BY <1>0, OffsetsAre, Sizes DEF PlacesOf, Laid
<1>4. InLoop(end) => search[end] = NotFound /\ onOpen[end] = NotFound /\ none[end] = NotFound
  <2> SUFFICES ASSUME InLoop(end)
               PROVE  search[end] = NotFound /\ onOpen[end] = NotFound /\ none[end] = NotFound
    OBVIOUS
  <2>1. end \in Nat /\ end \in 0 .. end /\ ZeroFrom(d, end)
    BY <1>0 DEF PlacesOf
  <2>2. Search(d, end) = NotFound /\ SearchOnOpen(d, end) = NotFound
    BY <2>1, SearchAhead, SearchOnOpenAhead, Zenon DEF EndsAhead
  <2> QED
    BY <1>3, <2>2, Zenon
<1>5. \A o \in starts : fits[o] /\ short[o]
  BY <1>0, <1>3, Zenon DEF PlacesOf
<1>6. /\ RecordsOf(d) = Walk(d, search, fits) /\ ScannedOf(d) = Walk(d, search, short)
      /\ IndexedOf(d) = Walk(d, onOpen, short) /\ UpdatableOf(d) = Walk(d, none, fits)
  BY Zenon DEF RecordsOf, ScannedOf, IndexedOf, UpdatableOf
<1> HIDE DEF fits, short, search, onOpen, none
<1>7. Range(Walk(d, search, fits)) = starts
  BY <1>2, <1>4, <1>5, WalkSeesAll
<1>8. Range(Walk(d, search, short)) = starts
  BY <1>2, <1>4, <1>5, WalkSeesAll
<1>9. Range(Walk(d, onOpen, short)) = starts
  BY <1>2, <1>4, <1>5, WalkSeesAll
<1>10. Range(Walk(d, none, fits)) = starts
  BY <1>2, <1>4, <1>5, WalkSeesAll
<1> QED
  BY <1>6, <1>7, <1>8, <1>9, <1>10, Zenon

\* A function that does what put's second walk does, at every place.
RoomBy(f, d, size) ==
  f = [o \in Offsets |->
         IF ~InLoop(o) \/ HasRoom(d, o, size) THEN o
         ELSE IF Skippable(d, o) THEN f[After(d, o)]
         ELSE IF Dead(d, o)
              THEN LET s == SearchForRoom(d, o) IN IF s = NotFound THEN o ELSE f[s]
         ELSE IF Fits(d, o) THEN f[After(d, o)] ELSE o]

\* The walk does what such a function does.
LEMMA RoomGoes ==
  ASSUME NEW d \in Page, NEW size
  PROVE  \E f : RoomBy(f, d, size) /\ RoomFor(d, size) = f[0]
<1> DEFINE stop == {o \in Offsets :
                      \/ ~InLoop(o) \/ HasRoom(d, o, size)
                      \/ ~Skippable(d, o) /\ Dead(d, o) /\ SearchForRoom(d, o) = NotFound
                      \/ ~Dead(d, o) /\ ~Fits(d, o)}
<1> DEFINE base == [o \in Offsets |-> o]
<1> DEFINE next == [o \in Offsets |-> IF Dead(d, o) /\ ~Skippable(d, o)
                                      THEN SearchForRoom(d, o) ELSE After(d, o)]
<1>0. NotFound \in Nat /\ Offsets = 0 .. NotFound
  BY OffsetsAre
<1>1. ASSUME NEW o \in 0 .. NotFound, o \notin stop PROVE next[o] \in o + 1 .. NotFound
  <2>1. o \in Nat /\ InLoop(o) /\ o \in Offsets
    BY <1>0, <1>1
  <2>2. SearchForRoom(d, o) \in o + 1 .. NotFound
    BY <2>1, SearchForRoomAhead, Zenon DEF EndsAhead
  <2>3. Skippable(d, o) \/ Fits(d, o) => After(d, o) \in o + 1 .. NotFound
    BY <2>1, SkipsForward
  <2>4. Skippable(d, o) \/ Dead(d, o) \/ Fits(d, o)
    BY <1>1, <2>1, Zenon
  <2> QED
    BY <2>1, <2>2, <2>3, <2>4, Zenon
<1>2. PICK f : Follows(f, 0, NotFound, base, next, stop, {})
  <2> HIDE DEF base, next, stop
  <2> QED
    BY <1>0, <1>1, FollowsExists
<1>3. ASSUME NEW o \in Offsets
      PROVE  (IF o \in stop THEN base[o]
              ELSE IF o \in {} THEN <<o>> \o f[next[o]] ELSE f[next[o]])
               = IF ~InLoop(o) \/ HasRoom(d, o, size) THEN o
                 ELSE IF Skippable(d, o) THEN f[After(d, o)]
                 ELSE IF Dead(d, o)
                      THEN LET s == SearchForRoom(d, o) IN IF s = NotFound THEN o ELSE f[s]
                 ELSE IF Fits(d, o) THEN f[After(d, o)] ELSE o
  <2>1. Skippable(d, o) => Dead(d, o)
    BY DEF Skippable
  <2> QED
    BY <2>1, Zenon
<1>4. RoomBy(f, d, size)
  <2> HIDE DEF base, next, stop
  <2> QED
    BY <1>0, <1>2, <1>3, Zenon DEF RoomBy, Follows
<1> DEFINE g == CHOOSE from : RoomBy(from, d, size)
<1>5. RoomBy(g, d, size)
  BY <1>4
<1>6. RoomFor(d, size) = g[0]
  BY Zenon DEF RoomFor, RoomBy
<1> QED
  BY <1>5, <1>6

\* On a page of records the place for another one is the end.
LEMMA RoomAtEnd ==
  ASSUME NEW d \in Page, NEW starts, NEW end, Laid(d, starts, end), NEW size \in Nat, 4 < size
  PROVE  RoomFor(d, size) = end
<1>0. /\ NotFound \in Nat /\ Offsets = 0 .. NotFound /\ PlacesOf(d, starts, end)
      /\ PAGE_SIZE <= NotFound
  BY OffsetsAre, LaidPlaces
<1>1. PICK f : RoomBy(f, d, size) /\ RoomFor(d, size) = f[0]
  BY RoomGoes
<1>2. \A o \in Offsets :
        f[o] = IF ~InLoop(o) \/ HasRoom(d, o, size) THEN o
               ELSE IF Skippable(d, o) THEN f[After(d, o)]
               ELSE IF Dead(d, o)
                    THEN IF SearchForRoom(d, o) = NotFound THEN o ELSE f[SearchForRoom(d, o)]
               ELSE IF Fits(d, o) THEN f[After(d, o)] ELSE o
  BY <1>1, Zenon DEF RoomBy
<1>3. \A o \in starts \cup {end} : o \in Nat /\ o <= PAGE_SIZE /\ o \in Offsets
  BY <1>0, Sizes DEF PlacesOf, Laid
<1>4. f[end] = end
  <2>1. CASE ~InLoop(end)
    BY <1>2, <1>3, <2>1, Zenon
  <2>2. CASE InLoop(end)
    <3>1. end \in Nat /\ end \in 0 .. end /\ ZeroFrom(d, end)
      BY <1>0 DEF PlacesOf
    <3>2. SearchForRoom(d, end) = NotFound
      BY <2>2, <3>1, SearchForRoomAhead, Zenon DEF EndsAhead
    <3> QED
      BY <1>0, <1>2, <1>3, <2>2, <3>2, Zenon DEF PlacesOf
  <2> QED
    BY <2>1, <2>2
<1> DEFINE G == {o \in 0 .. NotFound : o \in starts \cup {end} => f[o] = end}
<1>5. ASSUME NEW o \in 0 .. NotFound, \A q \in o + 1 .. NotFound : q \in G PROVE o \in G
  <2>1. CASE o \in starts
    <3>1. InLoop(o) /\ ~HasRoom(d, o, size) /\ ~Skippable(d, o) /\ ~Dead(d, o) /\ Fits(d, o)
      BY <1>0, <2>1, Zenon DEF PlacesOf, HasRoom
    <3>2. f[o] = f[After(d, o)]
      BY <1>2, <1>3, <2>1, <3>1, Zenon
    <3>3. PICK q : q = After(d, o)
      OBVIOUS
    <3>4. q \in starts \cup {end} /\ o < q
      BY <1>0, <2>1, <3>3 DEF PlacesOf
    <3>5. q \in o + 1 .. NotFound
      BY <1>0, <1>3, <3>4, Sizes
    <3> QED
      BY <1>5, <3>2, <3>3, <3>4, <3>5, Zenon
  <2>2. CASE o = end
    BY <1>4, <2>2
  <2> QED
    BY <2>1, <2>2
<1>6. 0 \in G
  <2> HIDE DEF G
  <2>1. 0 .. NotFound \subseteq G
    BY <1>0, <1>5, Backward
  <2> QED
    BY <1>0, <2>1
<1>7. 0 \in starts \cup {end}
  BY DEF Laid
<1> QED
  BY <1>1, <1>6, <1>7, Zenon

------------------------------------------------------------------------------
(* What a put does to such a page *)

\* What is at a place depends on its four bytes.
SamePlace(c, d, o) ==
  /\ KeyLen(c, o) = KeyLen(d, o) /\ ValueLen(c, o) = ValueLen(d, o) /\ After(c, o) = After(d, o)
  /\ Live(d, o) => Live(c, o)

\* Pages that have the same four bytes there have the same place.
LEMMA SameHeader ==
  ASSUME NEW d \in Page, NEW c \in Page, NEW o \in Nat, o + 4 <= PAGE_SIZE,
         \A i \in 1 .. PAGE_SIZE : o < i /\ i <= o + 4 => c[i] = d[i]
  PROVE  SamePlace(c, d, o)
<1>1. c[o + 1] = d[o + 1] /\ c[o + 2] = d[o + 2] /\ c[o + 3] = d[o + 3] /\ c[o + 4] = d[o + 4]
  BY Sizes
<1>2. /\ KeyLen(d, o) = d[o + 1] + 256 * d[o + 2] /\ KeyLen(c, o) = c[o + 1] + 256 * c[o + 2]
      /\ ValueLen(d, o) = d[o + 3] + 256 * d[o + 4] /\ ValueLen(c, o) = c[o + 3] + 256 * c[o + 4]
  BY Lengths
<1>3. KeyLen(c, o) = KeyLen(d, o) /\ ValueLen(c, o) = ValueLen(d, o)
  BY <1>1, <1>2, Zenon
<1> QED
  BY <1>3, Zenon DEF SamePlace, After, Live, Fits

\* Where a record has its key, kl bytes, and its value, vl bytes.
Spot(d, end, o, kl, vl) ==
  /\ o \in Nat /\ kl \in Nat /\ vl \in Nat /\ end \in Nat /\ end <= PAGE_SIZE /\ InLoop(o)
  /\ KeyLen(d, o) = kl /\ ValueLen(d, o) = vl /\ 0 < kl /\ kl <= MAX_KEY_SIZE
  /\ After(d, o) = o + 4 + kl + vl /\ o + 4 + kl + vl <= end
  /\ KeyAt(d, o) = Slice(d, o + 4, kl) /\ ValueAt(d, o) = Slice(d, o + 4 + kl, vl)

\* Every record of such a page has a key and a value, and ends before the end.
LEMMA RecordPlace ==
  ASSUME NEW d \in Page, NEW starts, NEW end, Laid(d, starts, end), NEW o \in starts
  PROVE  \E kl, vl : Spot(d, end, o, kl, vl)
<1>1. PlacesOf(d, starts, end)
  BY LaidPlaces
<1>2. PICK kl, vl : kl = KeyLen(d, o) /\ vl = ValueLen(d, o)
  OBVIOUS
<1>3. o \in Nat /\ kl \in Nat /\ vl \in Nat /\ end \in Nat /\ end <= PAGE_SIZE /\ InLoop(o)
      /\ kl # 0 /\ kl <= MAX_KEY_SIZE
  BY <1>1, <1>2 DEF PlacesOf, Dead
<1>4. After(d, o) = o + 4 + kl + vl
  BY <1>2, Zenon DEF After
<1>5. After(d, o) <= end
  BY <1>1, Zenon DEF PlacesOf
<1>6. o + 4 + kl + vl <= end
  BY <1>4, <1>5, Zenon
<1>7. 0 < kl
  BY <1>3
<1> QED
  BY <1>2, <1>3, <1>4, <1>6, <1>7, Zenon DEF Spot, KeyAt, ValueAt

\* What a value written over another one of the same length changes.
Replaced(c, d, starts, end, o, v) ==
  /\ c \in Page /\ Laid(c, starts, end) /\ ValueAt(c, o) = v
  /\ \A q \in starts : KeyAt(c, q) = KeyAt(d, q) /\ (q # o => ValueAt(c, q) = ValueAt(d, q))

\* findFreeSpaceInPage changes that and nothing else.
LEMMA ReplaceKeepsPage ==
  ASSUME NEW d \in Page, NEW starts, NEW end, Laid(d, starts, end), NEW o \in starts,
         NEW v \in Seq(Byte), Len(v) = ValueLen(d, o), NEW c,
         c = Written(Written(d, o + 2, Uint16(Len(v))), o + 4 + KeyLen(d, o), v)
  PROVE  Replaced(c, d, starts, end, o, v)
<1>0. PICK kl, n : Spot(d, end, o, kl, n)
  BY RecordPlace
<1>1. /\ o \in Nat /\ end \in Nat /\ end <= PAGE_SIZE /\ kl \in Nat /\ n \in Nat /\ 0 < kl
      /\ o + 4 + kl + n <= end /\ o + 4 <= PAGE_SIZE /\ PAGE_SIZE \in Nat
      /\ KeyLen(d, o) = kl /\ ValueLen(d, o) = n /\ Len(v) = n
  BY <1>0, Sizes DEF Spot
<1>2. PICK p \in Nat : p = o + 4 + kl
  BY <1>1
<1>3. p + n <= end /\ o + 4 < p /\ p + n <= PAGE_SIZE
  BY <1>1, <1>2
<1>4. PICK m : m = Written(d, o + 2, Uint16(Len(v)))
  OBVIOUS
<1>5. m \in Page /\ \A i \in 1 .. PAGE_SIZE : m[i] = d[i]
  <2>1. o + 1 \in 1 .. PAGE_SIZE /\ o + 2 \in 1 .. PAGE_SIZE /\ o + 3 \in 1 .. PAGE_SIZE
        /\ o + 4 \in 1 .. PAGE_SIZE
    BY <1>1
  <2>2. PICK x, y \in Byte : d[o + 3] = x /\ d[o + 4] = y
    BY <2>1, PageBytes
  <2>3. ValueLen(d, o) = d[o + 3] + 256 * d[o + 4]
    BY <1>1, Lengths
  <2>4. n = x + 256 * y
    BY <1>1, <2>2, <2>3, Zenon
  <2>5. PICK b : b = Uint16(n)
    OBVIOUS
  <2>6. b \in Seq(Byte) /\ DOMAIN b = 1 .. 2 /\ b[1] = x /\ b[2] = y
    <3>1. b = <<x, y>>
      BY <2>4, <2>5, WordWrittenBack
    <3> QED
      BY <3>1
  <2>7. m = Written(d, o + 2, b)
    BY <1>1, <1>4, <2>5, Zenon
  <2>8. PICK z : z = o + 2
    OBVIOUS
  <2>9. m \in Page /\ \A i \in 1 .. PAGE_SIZE :
          m[i] = IF i - z \in DOMAIN b THEN b[i - z] ELSE d[i]
    BY <2>6, <2>7, <2>8, WrittenPage, Zenon
  <2>10. ASSUME NEW i \in 1 .. PAGE_SIZE PROVE m[i] = d[i]
    <3>1. CASE i = o + 3
      <4>1. i - z = 1 /\ 1 \in 1 .. 2
        BY <1>1, <2>8, <3>1
      <4> QED
        BY <2>2, <2>6, <2>9, <3>1, <4>1, Zenon
    <3>2. CASE i = o + 4
      <4>1. i - z = 2 /\ 2 \in 1 .. 2
        BY <1>1, <2>8, <3>2
      <4> QED
        BY <2>2, <2>6, <2>9, <3>2, <4>1, Zenon
    <3>3. CASE i # o + 3 /\ i # o + 4
      <4>1. i - z \notin 1 .. 2
        BY <1>1, <2>8, <3>3
      <4> QED
        BY <2>6, <2>9, <4>1, Zenon
    <3> QED
      BY <3>1, <3>2, <3>3
  <2> QED
    BY <2>9, <2>10
<1>6. c = Written(m, p, v)
  BY <1>1, <1>2, <1>4, Zenon
<1>7. c \in Page /\ \A i \in 1 .. PAGE_SIZE : c[i] = IF i - p \in 1 .. n THEN v[i - p] ELSE d[i]
  <2>1. c \in Page /\ \A i \in 1 .. PAGE_SIZE :
          c[i] = IF i - p \in DOMAIN v THEN v[i - p] ELSE m[i]
    <3>1. m \in Page
      BY <1>5
    <3> QED
      BY <1>6, <3>1, WrittenPage
  <2>2. DOMAIN v = 1 .. n
    BY <1>1
  <2> QED
    BY <1>5, <2>1, <2>2, Zenon
<1>8. \A i \in 1 .. PAGE_SIZE : i <= p \/ p + n < i => c[i] = d[i]
  <2>1. \A i \in 1 .. PAGE_SIZE : i <= p \/ p + n < i => i - p \notin 1 .. n
    BY <1>1
  <2> QED
    BY <1>7, <2>1, Zenon
<1>9. ASSUME NEW q \in starts
      PROVE  \E a, b \in Nat : /\ Spot(d, end, q, a, b) /\ q + 4 + a + b <= PAGE_SIZE /\ q \in Nat
                               /\ q = o \/ q + 4 + a + b <= o \/ p + n <= q
  <2>1. PICK a, b : Spot(d, end, q, a, b)
    BY RecordPlace
  <2>2. /\ q \in Nat /\ a \in Nat /\ b \in Nat /\ After(d, q) = q + 4 + a + b
        /\ q + 4 + a + b <= end
    BY <2>1 DEF Spot
  <2>3. q < o => q + 4 + a + b <= o
    <3>1. q < o => After(d, q) <= o
      BY DEF Laid
    <3> QED
      BY <2>2, <3>1, Zenon
  <2>4. o < q => p + n <= q
    <3>1. o < q => After(d, o) <= q
      BY DEF Laid
    <3>2. After(d, o) = p + n
      BY <1>0, <1>2, Zenon DEF Spot
    <3> QED
      BY <3>1, <3>2, Zenon
  <2>5. q = o \/ q < o \/ o < q
    BY <1>1, <2>2
  <2>6. q + 4 + a + b <= PAGE_SIZE
    BY <1>1, <2>2
  <2> QED
    BY <2>1, <2>2, <2>3, <2>4, <2>5, <2>6, Zenon
<1>10. ASSUME NEW q \in starts PROVE SamePlace(c, d, q)
  <2>1. PICK a, b \in Nat : /\ q + 4 + a + b <= PAGE_SIZE /\ q \in Nat
                            /\ q = o \/ q + 4 + a + b <= o \/ p + n <= q
    BY <1>9
  <2>2. q + 4 <= p \/ p + n <= q
    BY <1>1, <1>3, <2>1
  <2>3. q + 4 <= PAGE_SIZE
    BY <1>1, <2>1
  <2>4. ASSUME NEW i \in 1 .. PAGE_SIZE, q < i, i <= q + 4 PROVE c[i] = d[i]
    <3>1. i <= p \/ p + n < i
      BY <1>1, <2>1, <2>2, <2>4
    <3> QED
      BY <1>8, <3>1
  <2> QED
    BY <1>7, <2>1, <2>3, <2>4, SameHeader
<1>11. Laid(c, starts, end)
  <2>1. \A q \in starts : Live(d, q) /\ After(d, q) \in starts \cup {end} /\ After(d, q) <= end
    BY DEF Laid
  <2>2. \A q, r \in starts : q < r => After(d, q) <= r
    BY DEF Laid
  <2>3. \A i \in 1 .. PAGE_SIZE : end < i => c[i] = 0
    <3>1. \A i \in 1 .. PAGE_SIZE : end < i => p + n < i
      BY <1>1, <1>3
    <3> QED
      BY <1>8, <3>1, Zenon DEF Laid
  <2>4. starts \subseteq 0 .. PAGE_SIZE /\ end \in 0 .. PAGE_SIZE /\ 0 \in starts \cup {end}
    BY DEF Laid
  <2> QED
    BY <1>10, <2>1, <2>2, <2>3, <2>4, Zenon DEF Laid, SamePlace
<1>12. ASSUME NEW q \in starts
       PROVE  KeyAt(c, q) = KeyAt(d, q) /\ (q # o => ValueAt(c, q) = ValueAt(d, q))
  <2>1. PICK a, b \in Nat : /\ Spot(d, end, q, a, b) /\ q + 4 + a + b <= PAGE_SIZE /\ q \in Nat
                            /\ q = o \/ q + 4 + a + b <= o \/ p + n <= q
    BY <1>9
  <2>2. KeyLen(c, q) = a /\ ValueLen(c, q) = b /\ KeyLen(d, q) = a /\ ValueLen(d, q) = b
    BY <1>10, <2>1, Zenon DEF Spot, SamePlace
  <2>3. q = o => a = kl
    BY <1>1, <2>2
  <2>4. PICK s, t \in Nat : s = q + 4 /\ t = q + 4 + a
    BY <2>1
  <2>5. /\ s + a <= PAGE_SIZE /\ t + b <= PAGE_SIZE
        /\ s + a <= p \/ p + n <= s
        /\ q # o => t + b <= p \/ p + n <= t
    BY <1>1, <1>2, <1>3, <2>1, <2>3, <2>4
  <2>6. \A i \in 1 .. PAGE_SIZE : s < i /\ i <= s + a => c[i] = d[i]
    <3>1. \A i \in 1 .. PAGE_SIZE : s < i /\ i <= s + a => i <= p \/ p + n < i
      BY <1>1, <2>4, <2>5
    <3> QED
      BY <1>8, <3>1, Zenon
  <2>7. q # o => \A i \in 1 .. PAGE_SIZE : t < i /\ i <= t + b => c[i] = d[i]
    <3>1. q # o => \A i \in 1 .. PAGE_SIZE : t < i /\ i <= t + b => i <= p \/ p + n < i
      BY <1>1, <2>4, <2>5
    <3> QED
      BY <1>8, <3>1, Zenon
  <2>8. Slice(c, s, a) = Slice(d, s, a)
    <3>1. s \in Nat /\ a \in Nat /\ s + a <= PAGE_SIZE /\ c \in Page
      BY <1>7, <2>5
    <3> QED
      BY <2>6, <3>1, SliceSame
  <2>9. q # o => Slice(c, t, b) = Slice(d, t, b)
    BY <1>7, <2>5, <2>7, SliceSame
  <2> QED
    BY <2>2, <2>4, <2>8, <2>9, Zenon DEF KeyAt, ValueAt
<1>13. ValueAt(c, o) = v
  <2>1. ASSUME NEW i \in 1 .. n PROVE c[p + i] = v[i]
    <3>1. PICK j \in 1 .. PAGE_SIZE : j = p + i /\ j - p = i
      BY <1>1, <1>3
    <3>2. c[j] = v[j - p]
      BY <1>7, <3>1, Zenon
    <3> QED
      BY <3>1, <3>2, Zenon
  <2>2. Slice(c, p, Len(v)) = v
    <3>1. p + Len(v) <= PAGE_SIZE /\ \A i \in 1 .. Len(v) : c[p + i] = v[i]
      BY <1>1, <1>3, <2>1, Zenon
    <3> QED
      BY <1>7, <3>1, SliceIs
  <2>3. KeyLen(c, o) = kl /\ ValueLen(c, o) = n
    BY <1>1, <1>10, Zenon DEF SamePlace
  <2> QED
    BY <1>1, <1>2, <2>2, <2>3, Zenon DEF ValueAt
<1> QED
  BY <1>7, <1>11, <1>12, <1>13 DEF Replaced

\* The bytes of a record.
BytesOfRecord(b, k, v) ==
  /\ b \in Seq(Byte) /\ Len(b) = 4 + Len(k) + Len(v)
  /\ b[1] + 256 * b[2] = Len(k) /\ b[3] + 256 * b[4] = Len(v)
  /\ \A i \in 1 .. Len(k) : b[4 + i] = k[i]
  /\ \A i \in 1 .. Len(v) : b[4 + Len(k) + i] = v[i]

\* The bytes that a put writes are those of the record.
LEMMA RecordBytesAre ==
  ASSUME NEW k \in Seq(Byte), NEW v \in Seq(Byte), Len(k) <= MaxUint16, Len(v) <= MaxUint16
  PROVE  BytesOfRecord(RecordBytes(k, v), k, v)
<1>0. Len(k) \in Nat /\ Len(v) \in Nat
  OBVIOUS
<1>1. PICK x : x = Uint16(Len(k))
  OBVIOUS
<1>2. PICK y : y = Uint16(Len(v))
  OBVIOUS
<1>3. x \in Seq(Byte) /\ Len(x) = 2 /\ x[1] + 256 * x[2] = Len(k)
  BY <1>0, <1>1, WordReadBack
<1>4. y \in Seq(Byte) /\ Len(y) = 2 /\ y[1] + 256 * y[2] = Len(v)
  BY <1>0, <1>2, WordReadBack
<1>5. PICK f : f = x \o y
  OBVIOUS
<1>6. /\ f \in Seq(Byte) /\ Len(f) = 4
      /\ f[1] = x[1] /\ f[2] = x[2] /\ f[3] = y[1] /\ f[4] = y[2]
  <2>1. x \in Seq(Byte) /\ Len(x) = 2 /\ y \in Seq(Byte) /\ Len(y) = 2
    BY <1>3, <1>4
  <2>2. Joined(x, y)
    BY <2>1, JoinedSequences
  <2>3. f \in Seq(Byte)
    BY <1>5, <2>1
  <2>4. /\ Len(f) = 2 + 2 /\ \A i \in 1 .. 2 : f[i] = x[i]
        /\ \A i \in 1 .. 2 : f[2 + i] = y[i]
    BY <1>5, <2>1, <2>2, Zenon DEF Joined
  <2>5. f[2 + 1] = y[1] /\ f[2 + 2] = y[2] /\ f[1] = x[1] /\ f[2] = x[2]
    <3>1. 1 \in 1 .. 2 /\ 2 \in 1 .. 2
      OBVIOUS
    <3> QED
      BY <2>4, <3>1, Zenon
  <2> QED
    BY <2>3, <2>4, <2>5
<1>7. PICK g : g = f \o k
  OBVIOUS
<1>8. /\ g \in Seq(Byte) /\ Len(g) = 4 + Len(k)
      /\ \A i \in 1 .. 4 : g[i] = f[i]
      /\ \A i \in 1 .. Len(k) : g[4 + i] = k[i]
  <2>1. f \in Seq(Byte) /\ Len(f) = 4
    BY <1>6
  <2>2. Joined(f, k)
    BY <2>1, JoinedSequences
  <2>3. g \in Seq(Byte)
    BY <1>7, <2>1
  <2> QED
    BY <1>7, <2>1, <2>2, <2>3, Zenon DEF Joined
<1>9. PICK b : b = g \o v
  OBVIOUS
<1>10. /\ b \in Seq(Byte) /\ Len(b) = 4 + Len(k) + Len(v)
       /\ \A i \in 1 .. 4 + Len(k) : b[i] = g[i]
       /\ \A i \in 1 .. Len(v) : b[4 + Len(k) + i] = v[i]
  <2>1. Joined(g, v)
    BY <1>8, JoinedSequences
  <2>2. b \in Seq(Byte)
    BY <1>8, <1>9
  <2> QED
    BY <1>8, <1>9, <2>1, <2>2 DEF Joined
<1>11. b[1] = x[1] /\ b[2] = x[2] /\ b[3] = y[1] /\ b[4] = y[2]
  <2>1. 1 \in 1 .. 4 + Len(k) /\ 2 \in 1 .. 4 + Len(k) /\ 3 \in 1 .. 4 + Len(k) /\ 4 \in 1 .. 4 + Len(k)
    BY <1>0
  <2> QED
    BY <1>6, <1>8, <1>10, <2>1
<1>12. \A i \in 1 .. Len(k) : b[4 + i] = k[i]
  <2>1. \A i \in 1 .. Len(k) : 4 + i \in 1 .. 4 + Len(k)
    BY <1>0
  <2> QED
    BY <1>8, <1>10, <2>1
<1>13. RecordBytes(k, v) = b
  BY <1>1, <1>2, <1>5, <1>7, <1>9, Zenon DEF RecordBytes
<1> QED
  BY <1>3, <1>4, <1>10, <1>11, <1>12, <1>13 DEF BytesOfRecord

\* What a record written behind the others changes.
Added(c, d, starts, end, k, v) ==
  /\ c \in Page /\ Laid(c, starts \cup {end}, end + 4 + Len(k) + Len(v))
  /\ KeyAt(c, end) = k /\ ValueAt(c, end) = v /\ end \notin starts
  /\ \A q \in starts : KeyAt(c, q) = KeyAt(d, q) /\ ValueAt(c, q) = ValueAt(d, q)

\* A record behind the last one leaves the page laid, and the others alone.
LEMMA AddKeepsPage ==
  ASSUME NEW d \in Page, NEW starts, NEW end, Laid(d, starts, end), InLoop(end),
         NEW k \in Seq(Byte), NEW v \in Seq(Byte), Len(k) \in 1 .. MAX_KEY_SIZE,
         end + 4 + Len(k) + Len(v) <= PAGE_SIZE,
         NEW c, c = Written(d, end, RecordBytes(k, v))
  PROVE  Added(c, d, starts, end, k, v)
<1>0. end \in Nat /\ PAGE_SIZE \in Nat /\ PAGE_SIZE <= MaxUint16 /\ MaxUint16 \in Nat
      /\ end \notin starts /\ PlacesOf(d, starts, end)
  BY LaidPlaces, Sizes DEF PlacesOf
<1>1. PICK m, n \in Nat : m = Len(k) /\ n = Len(v)
  OBVIOUS
<1>2. 0 < m /\ m <= MAX_KEY_SIZE /\ m <= MaxUint16 /\ n <= MaxUint16 /\ end + 4 + m + n <= PAGE_SIZE
  BY <1>0, <1>1, Sizes
<1>3. PICK b : b = RecordBytes(k, v)
  OBVIOUS
<1>4. /\ b \in Seq(Byte) /\ DOMAIN b = 1 .. 4 + m + n
      /\ b[1] + 256 * b[2] = m /\ b[3] + 256 * b[4] = n
      /\ \A i \in 1 .. m : b[4 + i] = k[i]
      /\ \A i \in 1 .. n : b[4 + m + i] = v[i]
  <2>1. BytesOfRecord(b, k, v)
    BY <1>1, <1>2, <1>3, RecordBytesAre
  <2> QED
    BY <1>1, <2>1 DEF BytesOfRecord
<1>5. c \in Page /\ \A i \in 1 .. PAGE_SIZE :
        c[i] = IF i - end \in 1 .. 4 + m + n THEN b[i - end] ELSE d[i]
  <2>1. b \in Seq(Byte)
    BY <1>4
  <2>2. c \in Page /\ \A i \in 1 .. PAGE_SIZE :
          c[i] = IF i - end \in DOMAIN b THEN b[i - end] ELSE d[i]
    BY <1>3, <2>1, WrittenPage
  <2> QED
    BY <1>4, <2>2, Zenon
<1>6. ASSUME NEW j \in 1 .. 4 + m + n PROVE c[end + j] = b[j]
  <2>1. PICK i \in 1 .. PAGE_SIZE : i = end + j /\ i - end = j
    BY <1>0, <1>2
  <2>2. c[i] = b[i - end]
    BY <1>5, <2>1, Zenon
  <2> QED
    BY <2>1, <2>2, Zenon
<1>7. \A i \in 1 .. PAGE_SIZE : i <= end \/ end + 4 + m + n < i => c[i] = d[i]
  <2>1. \A i \in 1 .. PAGE_SIZE : i <= end \/ end + 4 + m + n < i => i - end \notin 1 .. 4 + m + n
    BY <1>0
  <2> QED
    BY <1>5, <2>1, Zenon
<1>8. KeyLen(c, end) = m /\ ValueLen(c, end) = n
  <2>1. end + 4 <= PAGE_SIZE
    BY <1>0, <1>2
  <2>2. KeyLen(c, end) = c[end + 1] + 256 * c[end + 2]
        /\ ValueLen(c, end) = c[end + 3] + 256 * c[end + 4]
    <3>1. c \in Page /\ end \in Nat
      BY <1>0, <1>5
    <3> QED
      BY <2>1, <3>1, Lengths
  <2>3. 1 \in 1 .. 4 + m + n /\ 2 \in 1 .. 4 + m + n /\ 3 \in 1 .. 4 + m + n /\ 4 \in 1 .. 4 + m + n
    OBVIOUS
  <2>4. c[end + 1] = b[1] /\ c[end + 2] = b[2] /\ c[end + 3] = b[3] /\ c[end + 4] = b[4]
    BY <1>6, <2>3, Zenon
  <2> QED
    BY <1>4, <2>2, <2>4, Zenon
<1>9. KeyAt(c, end) = k
  <2>1. PICK s \in Nat : s = end + 4
    BY <1>0
  <2>2. ASSUME NEW i \in 1 .. m PROVE c[s + i] = k[i]
    <3>1. PICK j \in 1 .. 4 + m + n : j = 4 + i /\ end + j = s + i
      BY <1>0, <2>1
    <3> QED
      BY <1>4, <1>6, <3>1, Zenon
  <2>3. s + Len(k) <= PAGE_SIZE /\ \A i \in 1 .. Len(k) : c[s + i] = k[i]
    <3>1. s + m <= PAGE_SIZE
      BY <1>0, <1>2, <2>1
    <3> QED
      BY <1>1, <2>2, <3>1, Zenon
  <2>4. Slice(c, s, Len(k)) = k
    BY <1>5, <2>1, <2>3, SliceIs
  <2> QED
    BY <1>1, <1>8, <2>1, <2>4, Zenon DEF KeyAt
<1>10. ValueAt(c, end) = v
  <2>1. PICK s \in Nat : s = end + 4 + m
    BY <1>0
  <2>2. ASSUME NEW i \in 1 .. n PROVE c[s + i] = v[i]
    <3>1. PICK j \in 1 .. 4 + m + n : j = 4 + m + i /\ end + j = s + i
      BY <1>0, <2>1
    <3>2. c[end + j] = b[j]
      BY <1>6
    <3>3. b[4 + m + i] = v[i]
      BY <1>4
    <3> QED
      BY <3>1, <3>2, <3>3, Zenon
  <2>3. s + Len(v) <= PAGE_SIZE /\ \A i \in 1 .. Len(v) : c[s + i] = v[i]
    <3>1. s + n <= PAGE_SIZE
      BY <1>0, <1>2, <2>1
    <3> QED
      BY <1>1, <2>2, <3>1, Zenon
  <2>4. Slice(c, s, Len(v)) = v
    BY <1>5, <2>1, <2>3, SliceIs
  <2> QED
    BY <1>1, <1>8, <2>1, <2>4, Zenon DEF ValueAt
<1>11. ASSUME NEW q \in starts
       PROVE  \E x, y \in Nat : /\ Spot(d, end, q, x, y) /\ q \in Nat /\ q + 4 + x + y <= end
                                /\ q + 4 <= PAGE_SIZE
  <2>1. PICK x, y : Spot(d, end, q, x, y)
    BY RecordPlace
  <2>2. q \in Nat /\ x \in Nat /\ y \in Nat /\ q + 4 + x + y <= end
    BY <2>1 DEF Spot
  <2>3. q + 4 <= PAGE_SIZE
    BY <1>0, <1>2, <2>2
  <2> QED
    BY <2>1, <2>2, <2>3, Zenon
<1>12. ASSUME NEW q \in starts PROVE SamePlace(c, d, q)
  <2>1. PICK x, y \in Nat : q \in Nat /\ q + 4 + x + y <= end /\ q + 4 <= PAGE_SIZE
    BY <1>11
  <2>2. ASSUME NEW i \in 1 .. PAGE_SIZE, q < i, i <= q + 4 PROVE c[i] = d[i]
    <3>1. i <= end
      BY <1>0, <2>1, <2>2
    <3> QED
      BY <1>7, <3>1
  <2>3. q \in Nat /\ q + 4 <= PAGE_SIZE
    BY <2>1
  <2> QED
    BY <1>5, <2>2, <2>3, SameHeader
<1>13. ASSUME NEW q \in starts
       PROVE  KeyAt(c, q) = KeyAt(d, q) /\ ValueAt(c, q) = ValueAt(d, q)
  <2>1. PICK x, y \in Nat : Spot(d, end, q, x, y) /\ q \in Nat /\ q + 4 + x + y <= end
    BY <1>11
  <2>2. KeyLen(c, q) = x /\ ValueLen(c, q) = y /\ KeyLen(d, q) = x /\ ValueLen(d, q) = y
    BY <1>12, <2>1, Zenon DEF Spot, SamePlace
  <2>3. PICK s, t \in Nat : s = q + 4 /\ t = q + 4 + x
    BY <2>1
  <2>4. s + x <= PAGE_SIZE /\ t + y <= PAGE_SIZE /\ s + x <= end /\ t + y <= end
    BY <1>0, <1>2, <2>1, <2>3
  <2>5. \A i \in 1 .. PAGE_SIZE : s < i /\ i <= s + x => c[i] = d[i]
    <3>1. \A i \in 1 .. PAGE_SIZE : s < i /\ i <= s + x => i <= end
      <4>1. s \in Nat /\ x \in Nat /\ s + x <= end /\ end \in Nat
        BY <1>0, <2>4
      <4> QED
        BY <4>1
    <3> QED
      BY <1>7, <3>1, Zenon
  <2>6. \A i \in 1 .. PAGE_SIZE : t < i /\ i <= t + y => c[i] = d[i]
    <3>1. \A i \in 1 .. PAGE_SIZE : t < i /\ i <= t + y => i <= end
      <4>1. t \in Nat /\ y \in Nat /\ t + y <= end /\ end \in Nat
        BY <1>0, <2>4
      <4> QED
        BY <4>1
    <3> QED
      BY <1>7, <3>1, Zenon
  <2>7. c \in Page /\ s \in Nat /\ t \in Nat /\ x \in Nat /\ y \in Nat
        /\ s + x <= PAGE_SIZE /\ t + y <= PAGE_SIZE
    BY <1>5, <2>4
  <2>8. Slice(c, s, x) = Slice(d, s, x)
    BY <2>5, <2>7, SliceSame
  <2>9. Slice(c, t, y) = Slice(d, t, y)
    BY <2>6, <2>7, SliceSame
  <2> QED
    BY <2>2, <2>3, <2>8, <2>9, Zenon DEF KeyAt, ValueAt
<1>14. PICK new \in Nat : new = end + 4 + m + n /\ end < new /\ new <= PAGE_SIZE
  BY <1>0, <1>2
<1>15. Live(c, end) /\ After(c, end) = new
  <2>1. m \in 1 .. MAX_KEY_SIZE
    BY <1>2, Sizes
  <2>2. After(c, end) = new
    BY <1>8, <1>14, Zenon DEF After
  <2>3. Fits(c, end)
    BY <1>8, <1>14, Zenon DEF Fits
  <2> QED
    BY <1>8, <2>1, <2>2, <2>3, Zenon DEF Live
<1>16. Laid(c, starts \cup {end}, new)
  <2>1. \A q \in starts : Live(d, q) /\ After(d, q) \in starts \cup {end} /\ After(d, q) <= end
    BY DEF Laid
  <2>2. \A q \in starts : After(c, q) = After(d, q) /\ Live(c, q)
    BY <1>12, <2>1, Zenon DEF SamePlace
  <2>3. \A q \in starts \cup {end} : Live(c, q) /\ After(c, q) \in (starts \cup {end}) \cup {new}
    BY <1>15, <2>1, <2>2, Zenon
  <2>4. starts \subseteq Nat
    BY <1>0 DEF PlacesOf
  <2>5. ASSUME NEW q \in starts PROVE After(c, q) <= end /\ After(c, q) \in Nat /\ After(c, q) <= new
    <3>1. PICK a : a = After(c, q)
      OBVIOUS
    <3>2. a \in starts \cup {end} /\ a <= end
      BY <2>1, <2>2, <3>1, Zenon
    <3>3. a \in Nat /\ a <= new
      BY <1>0, <1>14, <2>4, <3>2
    <3> QED
      BY <3>1, <3>2, <3>3
  <2>6. ASSUME NEW q \in starts \cup {end}, NEW r \in starts \cup {end}, q < r
        PROVE  After(c, q) <= r
    <3>1. \A z \in starts : z < end
      <4>1. \A z \in starts : z < After(d, z) /\ After(d, z) <= end
        BY <1>0, Zenon DEF PlacesOf
      <4> SUFFICES ASSUME NEW z \in starts PROVE z < end
        OBVIOUS
      <4>2. PICK a : a = After(d, z)
        OBVIOUS
      <4>3. a \in Nat /\ z \in Nat /\ z < a /\ a <= end
        BY <2>2, <2>4, <2>5, <4>1, <4>2
      <4> QED
        BY <1>0, <4>3
    <3>2. q # end
      <4>1. r <= end /\ r \in Nat
        BY <1>0, <2>4, <3>1
      <4> QED
        BY <1>0, <2>6, <4>1
    <3>3. q \in starts /\ After(c, q) = After(d, q)
      BY <2>2, <3>2
    <3>4. r \in starts => After(d, q) <= r
      BY <2>6, <3>3 DEF Laid
    <3> QED
      BY <2>1, <3>3, <3>4
  <2>7. \A i \in 1 .. PAGE_SIZE : new < i => c[i] = 0
    <3>1. \A i \in 1 .. PAGE_SIZE : new < i => end + 4 + m + n < i /\ end < i
      BY <1>0, <1>14
    <3> QED
      BY <1>7, <3>1, Zenon DEF Laid
  <2>8. starts \cup {end} \subseteq 0 .. PAGE_SIZE /\ 0 \in (starts \cup {end}) \cup {new}
    BY DEF Laid
  <2>9. After(c, end) <= new /\ new \in 0 .. PAGE_SIZE
    BY <1>0, <1>14, <1>15
  <2>10. \A q \in starts \cup {end} : After(c, q) <= new
    BY <2>5, <2>9, Zenon
  <2> QED
    BY <2>3, <2>6, <2>7, <2>8, <2>9, <2>10, Zenon DEF Laid
<1>17. new = end + 4 + Len(k) + Len(v)
  BY <1>1, <1>14, Zenon
<1> QED
  BY <1>0, <1>5, <1>9, <1>10, <1>13, <1>16, <1>17, Zenon DEF Added

\* What the assumption says of keys and values.
LEMMA KeyFacts ==
  ASSUME NEW k \in Keys
  PROVE  /\ k \in Seq(Byte) /\ Len(k) \in 1 .. MAX_KEY_SIZE
         /\ \A v \in Values(k) : v \in Seq(Byte) /\ v # Nothing
BY PageStoreAssumption, Zenon DEF Byte

\* A length that is written has two bytes.
LEMMA UintBytes ==
  ASSUME NEW n \in Nat
  PROVE  Uint16(n) \in Seq(Byte)
<1>1. n % 256 \in Byte /\ (n \div 256) % 256 \in Byte
  BY SMT DEF Byte
<1> QED
  BY <1>1 DEF Uint16

\* findFreeSpaceInPage leaves a page, whatever it is given.
LEMMA FindFreePage ==
  ASSUME NEW d \in Page, NEW k \in Keys, NEW v \in Values(k)
  PROVE  /\ FindFreeSpaceInPage(d, k, v).page \in Page
         /\ FindFreeSpaceInPage(d, k, v).ok \in BOOLEAN
<1>1. k \in Seq(Byte) /\ v \in Seq(Byte) /\ Len(k) \in Nat /\ Len(v) \in Nat /\ 0 \in Nat
  BY KeyFacts
<1>2. Uint16(Len(k)) \in Seq(Byte) /\ Uint16(Len(v)) \in Seq(Byte) /\ Uint16(0) \in Seq(Byte)
  BY <1>1, UintBytes
<1>3. RecordBytes(k, v) \in Seq(Byte)
  <2>1. \A a, b \in Seq(Byte) : a \o b \in Seq(Byte)
    OBVIOUS
  <2> QED
    BY <1>1, <1>2, <2>1, Zenon DEF RecordBytes
<1> DEFINE here == With(d, UpdatableOf(d), k)
<1> DEFINE erased == IF here = {} THEN d ELSE Written(d, Min(here), Uint16(0))
<1> DEFINE size == 4 + Len(k) + Len(v)
<1>4. \A c \in Page : \A b \in Seq(Byte) : \A o : Written(c, o, b) \in Page
  BY WrittenPage
<1>5. erased \in Page
  BY <1>2, <1>4, Zenon
<1>6. /\ Written(Written(d, Min(here) + 2, Uint16(Len(v))),
                 Min(here) + 4 + KeyLen(d, Min(here)), v) \in Page
      /\ Written(erased, RoomFor(erased, size), RecordBytes(k, v)) \in Page
  <2> HIDE DEF erased, here, size
  <2> QED
    BY <1>1, <1>2, <1>3, <1>4, <1>5, Zenon
<1>7. FindFreeSpaceInPage(d, k, v) =
        IF here # {} /\ InPlace(d, Min(here), v)
        THEN [page |-> Written(Written(d, Min(here) + 2, Uint16(Len(v))),
                               Min(here) + 4 + KeyLen(d, Min(here)), v), ok |-> TRUE]
        ELSE IF RoomFound(erased, RoomFor(erased, size), size)
        THEN [page |-> Written(erased, RoomFor(erased, size), RecordBytes(k, v)), ok |-> TRUE]
        ELSE [page |-> erased, ok |-> FALSE]
  BY Zenon DEF FindFreeSpaceInPage
<1> QED
  <2> HIDE DEF erased, here, size
  <2> QED
    BY <1>5, <1>6, <1>7

\* The table after a put.
Recorded(table, k, v, p) == [table EXCEPT ![k] = [value |-> v, page |-> p]]

\* The put has written the record on the page; or else the page is as it was, and
\* the key is not on it.
PutOn(f, d, p, table, excepted, k, v) ==
  /\ f.page \in Page
  /\ f.ok => Sound(f.page, p, Recorded(table, k, v, p), excepted)
  /\ ~f.ok => f.page = d /\ ~IsOn(k, p, table)

\* What the table says after a put.
AfterPut(new, table, k, v, p) ==
  /\ DOMAIN new = Keys /\ new[k] = [value |-> v, page |-> p] /\ new[k].value = v
  /\ \A q : IsOn(k, q, new) <=> q = p
  /\ \A j \in Keys \ {k} : new[j] = table[j] /\ \A q : IsOn(j, q, new) <=> IsOn(j, q, table)

\* And it says no more.
LEMMA RecordedTable ==
  ASSUME NEW table, DOMAIN table = Keys, NEW k \in Keys, NEW v \in Values(k), NEW p
  PROVE  AfterPut(Recorded(table, k, v, p), table, k, v, p)
<1>1. v # Nothing
  BY KeyFacts
<1>2. /\ Recorded(table, k, v, p)[k] = [value |-> v, page |-> p]
      /\ DOMAIN Recorded(table, k, v, p) = Keys
      /\ \A j \in Keys \ {k} : Recorded(table, k, v, p)[j] = table[j]
  BY DEF Recorded
<1>3. Recorded(table, k, v, p)[k].value = v /\ Recorded(table, k, v, p)[k].page = p
  BY <1>2
<1> QED
  BY <1>1, <1>2, <1>3, Zenon DEF IsOn, AfterPut

\* On a page that has the key.
LEMMA PutOnOwnPage ==
  ASSUME NEW d \in Page, NEW p, NEW table, DOMAIN table = Keys, NEW excepted,
         NEW k \in Keys \ excepted, NEW v \in Values(k), Sound(d, p, table, excepted),
         IsOn(k, p, table), Len(table[k].value) = Len(v)
  PROVE  PutOn(FindFreeSpaceInPage(d, k, v), d, p, table, excepted, k, v)
<1>1. PICK starts, end : Laid(d, starts, end) /\ Listed(d, starts, p, table, excepted)
  BY DEF Sound
<1>2. PICK o \in starts : KeyAt(d, o) = k
  BY <1>1 DEF Listed
<1>3. \A q \in starts : KeyAt(d, q) = k => q = o
  BY <1>1, <1>2 DEF Listed
<1>4. table[k].value = ValueAt(d, o)
  BY <1>1, <1>2 DEF Listed
<1>5. PICK kl, vl : Spot(d, end, o, kl, vl)
  BY <1>1, RecordPlace
<1>6. v \in Seq(Byte) /\ v # Nothing
  BY KeyFacts
<1>7. Len(v) = ValueLen(d, o) /\ o \in Nat /\ ValueLen(d, o) \in Nat
  <2>1. PICK s \in Nat : s = o + 4 + kl
    BY <1>5 DEF Spot
  <2>2. s + vl <= PAGE_SIZE /\ vl \in Nat
    BY <1>5, <2>1, Sizes DEF Spot
  <2>3. Len(Slice(d, s, vl)) = vl
    BY <2>2, SliceOf
  <2>4. ValueAt(d, o) = Slice(d, s, vl) /\ ValueLen(d, o) = vl /\ o \in Nat
    BY <1>5, <2>1, Zenon DEF Spot
  <2> QED
    BY <1>4, <2>2, <2>3, <2>4, Zenon
<1>8. With(d, UpdatableOf(d), k) = {o}
  <2>1. Range(UpdatableOf(d)) = starts
    BY <1>1, WalksAgree
  <2> QED
    BY <1>2, <1>3, <2>1, Zenon DEF With
<1>9. Min({o}) = o
  BY <1>7 DEF Min
<1>10. InPlace(d, o, v)
  BY <1>7 DEF InPlace
<1>11. PICK c : c = Written(Written(d, o + 2, Uint16(Len(v))), o + 4 + KeyLen(d, o), v)
  OBVIOUS
<1>12. FindFreeSpaceInPage(d, k, v) = [page |-> c, ok |-> TRUE]
  <2>1. {o} # {}
    OBVIOUS
  <2> QED
    BY <1>8, <1>9, <1>10, <1>11, <2>1, Zenon DEF FindFreeSpaceInPage
<1>13. Replaced(c, d, starts, end, o, v)
  BY <1>1, <1>6, <1>7, <1>11, ReplaceKeepsPage
<1>14. Listed(c, starts, p, Recorded(table, k, v, p), excepted)
  <2>0. AfterPut(Recorded(table, k, v, p), table, k, v, p)
    BY RecordedTable
  <2>1. ASSUME NEW q \in starts
        PROVE  \E j \in Keys :
                 /\ KeyAt(c, q) = j
                 /\ \/ j \in excepted
                    \/ /\ IsOn(j, p, Recorded(table, k, v, p))
                       /\ Recorded(table, k, v, p)[j].value = ValueAt(c, q)
    <3>1. PICK j \in Keys : /\ KeyAt(d, q) = j
                            /\ j \in excepted \/ (IsOn(j, p, table) /\ table[j].value = ValueAt(d, q))
      BY <1>1 DEF Listed
    <3>2. KeyAt(c, q) = j
      BY <1>13, <3>1, Zenon DEF Replaced
    <3>3. CASE q = o
      <4>1. j = k /\ ValueAt(c, q) = v
        BY <1>2, <1>13, <3>1, <3>3, Zenon DEF Replaced
      <4> QED
        BY <2>0, <3>2, <4>1, Zenon DEF AfterPut
    <3>4. CASE q # o
      <4>1. j # k
        BY <1>3, <3>1, <3>4
      <4>2. ValueAt(c, q) = ValueAt(d, q)
        BY <1>13, <3>4, Zenon DEF Replaced
      <4> QED
        BY <2>0, <3>1, <3>2, <4>1, <4>2, Zenon DEF AfterPut
    <3> QED
      BY <3>3, <3>4
  <2>2. \A q, r \in starts : KeyAt(c, q) = KeyAt(c, r) => q = r
    BY <1>1, <1>13, Zenon DEF Listed, Replaced
  <2>3. ASSUME NEW j \in Keys \ excepted, IsOn(j, p, Recorded(table, k, v, p))
        PROVE  \E q \in starts : KeyAt(c, q) = j
    <3>1. j = k \/ IsOn(j, p, table)
      BY <2>0, <2>3, Zenon DEF AfterPut
    <3>2. \E q \in starts : KeyAt(d, q) = j
      BY <1>1, <1>2, <3>1, Zenon DEF Listed
    <3> QED
      BY <1>13, <3>2, Zenon DEF Replaced
  <2> QED
    BY <2>1, <2>2, <2>3, Zenon DEF Listed
<1>15. Sound(c, p, Recorded(table, k, v, p), excepted) /\ c \in Page
  BY <1>13, <1>14, Zenon DEF Sound, Replaced
<1>16. [page |-> c, ok |-> TRUE].page = c /\ [page |-> c, ok |-> TRUE].ok
  OBVIOUS
<1> QED
  BY <1>12, <1>15, <1>16, Zenon DEF PutOn

\* On one that has not.
LEMMA PutOnOtherPage ==
  ASSUME NEW d \in Page, NEW p, NEW table, DOMAIN table = Keys, NEW excepted,
         NEW k \in Keys \ excepted, NEW v \in Values(k), Sound(d, p, table, excepted),
         ~IsOn(k, p, table)
  PROVE  PutOn(FindFreeSpaceInPage(d, k, v), d, p, table, excepted, k, v)
<1>1. PICK starts, end : Laid(d, starts, end) /\ Listed(d, starts, p, table, excepted)
  BY DEF Sound
<1>2. \A q \in starts : KeyAt(d, q) # k
  BY <1>1 DEF Listed
<1>3. With(d, UpdatableOf(d), k) = {}
  <2>1. Range(UpdatableOf(d)) = starts
    BY <1>1, WalksAgree
  <2> QED
    BY <1>2, <2>1, Zenon DEF With
<1>4. k \in Seq(Byte) /\ v \in Seq(Byte) /\ v # Nothing /\ Len(k) \in 1 .. MAX_KEY_SIZE
      /\ Len(k) \in Nat /\ Len(v) \in Nat /\ 0 < Len(k)
  BY KeyFacts, Sizes
<1>5. PICK size \in Nat : size = 4 + Len(k) + Len(v) /\ 4 < size
  BY <1>4
<1>6. RoomFor(d, size) = end
  BY <1>1, <1>5, RoomAtEnd
<1>7. end \in Nat /\ (InLoop(end) => Dead(d, end) /\ ValueLen(d, end) = 0)
  BY <1>1, LaidPlaces DEF PlacesOf
<1>8. RoomFound(d, end, size) => InLoop(end) /\ end + size <= PAGE_SIZE
  <2>1. ~HasRoom(d, end, size)
    <3>1. InLoop(end) => ~(4 + ValueLen(d, end) >= size)
      BY <1>5, <1>7
    <3> QED
      BY <3>1, Zenon DEF HasRoom
  <2> QED
    BY <2>1, Zenon DEF RoomFound
<1>9. PICK c : c = Written(d, end, RecordBytes(k, v))
  OBVIOUS
<1>10. FindFreeSpaceInPage(d, k, v) = IF RoomFound(d, end, size) THEN [page |-> c, ok |-> TRUE]
                                      ELSE [page |-> d, ok |-> FALSE]
  BY <1>3, <1>5, <1>6, <1>9, Zenon DEF FindFreeSpaceInPage
<1>11. CASE ~RoomFound(d, end, size)
  <2>1. [page |-> d, ok |-> FALSE].page = d /\ ~[page |-> d, ok |-> FALSE].ok
    OBVIOUS
  <2> QED
    BY <1>10, <1>11, <2>1, Zenon DEF PutOn
<1>12. CASE RoomFound(d, end, size)
  <2>1. InLoop(end) /\ end + 4 + Len(k) + Len(v) <= PAGE_SIZE
    BY <1>4, <1>5, <1>7, <1>8, <1>12
  <2>2. Added(c, d, starts, end, k, v)
    BY <1>1, <1>4, <1>9, <2>1, AddKeepsPage
  <2>3. PICK new : new = end + 4 + Len(k) + Len(v) /\ Laid(c, starts \cup {end}, new)
    BY <2>2, Zenon DEF Added
  <2>4. Listed(c, starts \cup {end}, p, Recorded(table, k, v, p), excepted)
    <3>0. AfterPut(Recorded(table, k, v, p), table, k, v, p)
      BY RecordedTable
    <3>1. ASSUME NEW q \in starts \cup {end}
          PROVE  \E j \in Keys :
                   /\ KeyAt(c, q) = j
                   /\ \/ j \in excepted
                      \/ /\ IsOn(j, p, Recorded(table, k, v, p))
                         /\ Recorded(table, k, v, p)[j].value = ValueAt(c, q)
      <4>1. CASE q = end
        BY <2>2, <3>0, <4>1, Zenon DEF Added, AfterPut
      <4>2. CASE q \in starts
        <5>1. PICK j \in Keys : /\ KeyAt(d, q) = j
                                /\ \/ j \in excepted
                                   \/ IsOn(j, p, table) /\ table[j].value = ValueAt(d, q)
          BY <1>1, <4>2 DEF Listed
        <5>2. KeyAt(c, q) = j /\ ValueAt(c, q) = ValueAt(d, q) /\ j # k
          BY <1>2, <2>2, <4>2, <5>1, Zenon DEF Added
        <5> QED
          BY <3>0, <5>1, <5>2, Zenon DEF AfterPut
      <4> QED
        BY <4>1, <4>2
    <3>2. \A q, r \in starts \cup {end} : KeyAt(c, q) = KeyAt(c, r) => q = r
      <4>1. \A q \in starts : KeyAt(c, q) = KeyAt(d, q) /\ KeyAt(c, q) # KeyAt(c, end)
        BY <1>2, <2>2, Zenon DEF Added
      <4>2. \A q, r \in starts : KeyAt(d, q) = KeyAt(d, r) => q = r
        BY <1>1 DEF Listed
      <4> QED
        BY <4>1, <4>2, Zenon
    <3>3. ASSUME NEW j \in Keys \ excepted, IsOn(j, p, Recorded(table, k, v, p))
          PROVE  \E q \in starts \cup {end} : KeyAt(c, q) = j
      <4>1. CASE j = k
        BY <2>2, <4>1, Zenon DEF Added
      <4>2. CASE j # k
        <5>1. \E q \in starts : KeyAt(d, q) = j
          BY <1>1, <3>0, <3>3, <4>2, Zenon DEF Listed, AfterPut
        <5> QED
          BY <2>2, <5>1, Zenon DEF Added
      <4> QED
        BY <4>1, <4>2
    <3> QED
      BY <3>1, <3>2, <3>3, Zenon DEF Listed
  <2>5. Sound(c, p, Recorded(table, k, v, p), excepted) /\ c \in Page
    BY <2>2, <2>3, <2>4, Zenon DEF Sound, Added
  <2>6. [page |-> c, ok |-> TRUE].page = c /\ [page |-> c, ok |-> TRUE].ok
    OBVIOUS
  <2> QED
    BY <1>10, <1>12, <2>5, <2>6, Zenon DEF PutOn
<1> QED
  BY <1>11, <1>12

\* A put that is tried on a page leaves it sound; if it does not find room there,
\* it leaves the page alone, and the key is not on it.
LEMMA PutKeepsPage ==
  ASSUME NEW d \in Page, NEW p, NEW table, DOMAIN table = Keys, NEW excepted,
         NEW k \in Keys \ excepted, NEW v \in Values(k), Sound(d, p, table, excepted),
         IsOn(k, p, table) => Len(table[k].value) = Len(v)
  PROVE  PutOn(FindFreeSpaceInPage(d, k, v), d, p, table, excepted, k, v)
BY PutOnOwnPage, PutOnOtherPage

------------------------------------------------------------------------------
(* putRecord, page after page *)

\* A page of zeros has no record.
LEMMA ZeroPage == Zeros(PAGE_SIZE) \in Page /\ Laid(Zeros(PAGE_SIZE), {}, 0)
<1>1. 0 \in Byte
  BY SMT DEF Byte
<1>2. Zeros(PAGE_SIZE) \in Page /\ \A i \in 1 .. PAGE_SIZE : Zeros(PAGE_SIZE)[i] = 0
  BY <1>1, Zenon DEF Zeros, Page
<1>3. 0 \in 0 .. PAGE_SIZE
  BY Sizes
<1> QED
  BY <1>2, <1>3 DEF Laid

\* Pages of the file, and pages in memory.
LEMMA PagesArePages ==
  ASSUME Shape
  PROVE  /\ allocatedPages \subseteq Nat /\ 0 \in allocatedPages
         /\ \A p \in Nat : OnDisk(p) \in Page
         /\ \A p \in allocatedPages : getPage(dirty, p) \in Page
<1>1. disk \in Seq(Page) /\ Len(disk) \in Nat /\ \A i \in 1 .. Len(disk) : disk[i] \in Page
  <2>1. disk \in Seq(Page)
    BY DEF Shape
  <2> QED
    BY <2>1, SeqElements
<1>2. allocatedPages \subseteq Nat /\ 0 \in allocatedPages
  <2>1. PICK last \in Nat : allocatedPages = 0 .. last
    BY DEF Shape
  <2> QED
    BY <2>1
<1>3. ASSUME NEW p \in Nat PROVE OnDisk(p) \in Page
  <2>1. p < Len(disk) => p + 1 \in 1 .. Len(disk)
    BY <1>1
  <2> QED
    BY <1>1, <2>1, ZeroPage, Zenon DEF OnDisk
<1>4. \A p \in DOMAIN dirty : dirty[p] \in Page
  BY DEF Shape
<1>5. \A p \in allocatedPages : getPage(dirty, p) \in Page
  BY <1>2, <1>3, <1>4, Zenon DEF getPage
<1> QED
  BY <1>2, <1>3, <1>5

\* The pages that putRecord tries.
TryOrder(k) == (IF k \in DOMAIN keyToPage THEN <<keyToPage[k]>> ELSE <<>>) \o PagesInOrder

\* They are allocated pages, and one at least.
LEMMA TriedPages ==
  ASSUME Shape, NEW k
  PROVE  TryOrder(k) \in Seq(allocatedPages) /\ Len(TryOrder(k)) \in Nat \ {0}
<1>1. PICK last \in Nat : allocatedPages = 0 .. last
  BY DEF Shape
<1>2. PagesInOrder = [i \in 1 .. last + 1 |-> last + 1 - i]
  <2>1. Cardinality(allocatedPages) = last + 1
    BY <1>1, FS_Interval
  <2>2. PagesInOrder = [i \in 1 .. Cardinality(allocatedPages) |-> Cardinality(allocatedPages) - i]
    BY DEF PagesInOrder
  <2> QED
    BY <2>1, <2>2
<1>3. PagesInOrder \in Seq(allocatedPages) /\ Len(PagesInOrder) = last + 1
  <2>1. PagesInOrder \in [1 .. last + 1 -> allocatedPages]
    BY <1>1, <1>2
  <2> QED
    BY <1>1, <2>1
<1> DEFINE first == IF k \in DOMAIN keyToPage THEN <<keyToPage[k]>> ELSE <<>>
<1>4. first \in Seq(allocatedPages)
  <2>1. k \in DOMAIN keyToPage => keyToPage[k] \in allocatedPages
    BY DEF Shape
  <2> QED
    BY <2>1
<1> HIDE DEF first
<1>5. first \o PagesInOrder \in Seq(allocatedPages)
      /\ Len(first \o PagesInOrder) = Len(first) + Len(PagesInOrder) /\ Len(first) \in Nat
  BY <1>3, <1>4
<1>6. Len(first \o PagesInOrder) \in Nat \ {0}
  BY <1>3, <1>5
<1> QED
  BY <1>5, <1>6 DEF TryOrder, first

\* What the attempt on page p makes of a, what was achieved before.
TryStep(a, p, k, v) ==
  IF a.ok THEN a
  ELSE [ok |-> FindFreeSpaceInPage(getPage(a.cache, p), k, v).ok, page |-> p,
        cache |-> IF FindFreeSpaceInPage(getPage(a.cache, p), k, v).page = getPage(a.cache, p)
                  THEN a.cache
                  ELSE Changed(a.cache, p, FindFreeSpaceInPage(getPage(a.cache, p), k, v).page)]

\* A function that does the first n attempts.
Trying(after, n, pages, k, v) ==
  after = [i \in 0 .. n |-> IF i = 0 THEN [ok |-> FALSE, page |-> 0, cache |-> dirty]
                            ELSE TryStep(after[i - 1], pages[i], k, v)]

\* There is one, for any number of attempts.
LEMMA TryingExists ==
  ASSUME NEW n \in Nat, NEW pages, NEW k, NEW v
  PROVE  \E after : Trying(after, n, pages, k, v)
<1> DEFINE G == {m \in Nat : \E after : Trying(after, m, pages, k, v)}
<1>1. 0 \in G
  <2>1. Trying([i \in 0 .. 0 |-> [ok |-> FALSE, page |-> 0, cache |-> dirty]], 0, pages, k, v)
    BY DEF Trying
  <2> QED
    BY <2>1
<1>2. ASSUME NEW m \in Nat, m \in G PROVE m + 1 \in G
  <2>1. PICK f : Trying(f, m, pages, k, v)
    BY <1>2
  <2> DEFINE last == TryStep(f[m], pages[m + 1], k, v)
  <2> HIDE DEF last
  <2> DEFINE g == [i \in 0 .. m + 1 |-> IF i = m + 1 THEN last ELSE f[i]]
  <2>2. \A i \in 0 .. m : f[i] = IF i = 0 THEN [ok |-> FALSE, page |-> 0, cache |-> dirty]
                                 ELSE TryStep(f[i - 1], pages[i], k, v)
    BY <2>1, Zenon DEF Trying
  <2>3. g[m + 1] = last /\ \A i \in 0 .. m : g[i] = f[i]
    OBVIOUS
  <2> HIDE DEF g
  <2>4. ASSUME NEW i \in 0 .. m + 1
        PROVE  (IF i = m + 1 THEN last ELSE f[i])
                 = IF i = 0 THEN [ok |-> FALSE, page |-> 0, cache |-> dirty]
                   ELSE TryStep(g[i - 1], pages[i], k, v)
    <3>1. i # 0 => i - 1 \in 0 .. m
      OBVIOUS
    <3>2. i # 0 => g[i - 1] = f[i - 1]
      BY <2>3, <3>1, Zenon
    <3>3. CASE i = m + 1
      <4>1. i # 0 /\ i - 1 = m
        BY <3>3
      <4> QED
        BY <3>2, <3>3, <4>1, Zenon DEF last
    <3>4. CASE i # m + 1
      <4>1. i \in 0 .. m
        BY <3>4
      <4> QED
        BY <2>2, <3>2, <3>4, <4>1, Zenon
    <3> QED
      BY <3>3, <3>4, Zenon
  <2>5. Trying(g, m + 1, pages, k, v)
    BY <2>4, Zenon DEF g, Trying
  <2>6. m + 1 \in Nat
    OBVIOUS
  <2> QED
    BY <2>5, <2>6, Zenon
<1> QED
  <2> HIDE DEF G
  <2>1. n \in G
    BY <1>1, <1>2, SetInduction
  <2> QED
    BY <2>1 DEF G

\* putRecord does what such a function does.
LEMMA TryGoes ==
  ASSUME Shape, NEW k, NEW v
  PROVE  \E after : /\ Trying(after, Len(TryOrder(k)), TryOrder(k), k, v)
                    /\ Try(k, v) = after[Len(TryOrder(k))]
<1> DEFINE pages == TryOrder(k)
<1>1. Len(pages) \in Nat
  BY TriedPages
<1> HIDE DEF pages
<1> DEFINE after == CHOOSE f : Trying(f, Len(pages), pages, k, v)
<1>2. Trying(after, Len(pages), pages, k, v)
  BY <1>1, TryingExists
<1>3. Try(k, v) = after[Len(pages)]
  BY Zenon DEF Try, Trying, TryStep, pages, TryOrder
<1> QED
  BY <1>2, <1>3 DEF pages

\* Either the put succeeds on the page or it does not change the page.
LeftAlone(q, k, v) ==
  \/ FindFreeSpaceInPage(getPage(dirty, q), k, v).ok
  \/ FindFreeSpaceInPage(getPage(dirty, q), k, v).page = getPage(dirty, q)

\* The cache has pages, and no fewer than before.
CacheOf(cache) ==
  /\ DOMAIN dirty \subseteq DOMAIN cache /\ DOMAIN cache \subseteq allocatedPages
  /\ \A p \in DOMAIN cache : cache[p] \in Page

\* What a number of attempts achieved: of the pages that a failed attempt leaves
\* alone, the one on which the put succeeded has changed and no other.
Tried(a, k, v) ==
  /\ a.ok \in BOOLEAN /\ a.page \in allocatedPages /\ CacheOf(a.cache)
  /\ \A q \in allocatedPages :
       LeftAlone(q, k, v) =>
         IF a.ok /\ a.page = q
         THEN /\ FindFreeSpaceInPage(getPage(dirty, q), k, v).ok
              /\ getPage(a.cache, q) = FindFreeSpaceInPage(getPage(dirty, q), k, v).page
         ELSE getPage(a.cache, q) = getPage(dirty, q)

\* If the last attempt failed, then on its page.
Failed(a, k, v) ==
  ~a.ok /\ LeftAlone(a.page, k, v) => ~FindFreeSpaceInPage(getPage(dirty, a.page), k, v).ok

\* One more attempt.
LEMMA TryStepKeeps ==
  ASSUME Shape, NEW k \in Keys, NEW v \in Values(k), NEW a, Tried(a, k, v),
         NEW p \in allocatedPages
  PROVE  Tried(TryStep(a, p, k, v), k, v) /\ Failed(TryStep(a, p, k, v), k, v)
<1>1. CASE a.ok
  <2>1. TryStep(a, p, k, v) = a
    BY <1>1, Zenon DEF TryStep
  <2> QED
    BY <1>1, <2>1, Zenon DEF Failed
<1>2. CASE ~a.ok
  <2>1. PICK d : d = getPage(a.cache, p)
    OBVIOUS
  <2>2. PICK r : r = FindFreeSpaceInPage(d, k, v)
    OBVIOUS
  <2>3. d \in Page
    <3>1. OnDisk(p) \in Page
      BY PagesArePages
    <3> QED
      BY <2>1, <3>1, Zenon DEF getPage, Tried, CacheOf
  <2>4. r.page \in Page /\ r.ok \in BOOLEAN
    BY <2>2, <2>3, FindFreePage
  <2>5. PICK cache : cache = IF r.page = d THEN a.cache ELSE Changed(a.cache, p, r.page)
    OBVIOUS
  <2>6. TryStep(a, p, k, v) = [ok |-> r.ok, page |-> p, cache |-> cache]
    BY <1>2, <2>1, <2>2, <2>5, Zenon DEF TryStep
  <2>7. PICK n : n = TryStep(a, p, k, v)
    OBVIOUS
  <2>8. n.ok = r.ok /\ n.page = p /\ n.cache = cache
    BY <2>6, <2>7
  <2>9. CacheOf(cache)
    <3>1. CacheOf(a.cache)
      BY DEF Tried
    <3>2. DOMAIN cache = IF r.page = d THEN DOMAIN a.cache ELSE DOMAIN a.cache \cup {p}
      BY <2>5, Zenon DEF Changed
    <3>3. ASSUME NEW q \in DOMAIN cache PROVE cache[q] \in Page
      BY <2>4, <2>5, <3>1, <3>2, <3>3, Zenon DEF Changed, CacheOf
    <3> QED
      BY <3>1, <3>2, <3>3, Zenon DEF CacheOf
  <2>10. getPage(cache, p) = r.page
    BY <2>1, <2>5, Zenon DEF getPage, Changed
  <2>11. ASSUME NEW q, q # p PROVE getPage(cache, q) = getPage(a.cache, q)
    BY <2>5, <2>11, Zenon DEF getPage, Changed
  <2>12. ASSUME NEW q \in allocatedPages, LeftAlone(q, k, v)
         PROVE  /\ getPage(a.cache, q) = getPage(dirty, q)
                /\ q = p => r = FindFreeSpaceInPage(getPage(dirty, q), k, v)
    BY <1>2, <2>1, <2>2, <2>12, Zenon DEF Tried
  <2>13. ASSUME NEW q \in allocatedPages, LeftAlone(q, k, v)
         PROVE  IF n.ok /\ n.page = q
                THEN /\ FindFreeSpaceInPage(getPage(dirty, q), k, v).ok
                     /\ getPage(n.cache, q) = FindFreeSpaceInPage(getPage(dirty, q), k, v).page
                ELSE getPage(n.cache, q) = getPage(dirty, q)
    <3>1. CASE q # p
      BY <2>8, <2>11, <2>12, <2>13, <3>1, Zenon
    <3>2. CASE q = p /\ r.ok
      BY <2>8, <2>10, <2>12, <2>13, <3>2, Zenon
    <3>3. CASE q = p /\ ~r.ok
      <4>1. r.page = getPage(dirty, q)
        BY <2>12, <2>13, <3>3, Zenon DEF LeftAlone
      <4> QED
        BY <2>8, <2>10, <3>3, <4>1, Zenon
    <3> QED
      BY <3>1, <3>2, <3>3
  <2>14. Failed(n, k, v)
    BY <2>8, <2>12, Zenon DEF Failed
  <2> QED
    BY <2>4, <2>7, <2>8, <2>9, <2>13, <2>14, Zenon DEF Tried
<1> QED
  BY <1>1, <1>2

\* All of them.
LEMMA TryKeeps ==
  ASSUME Shape, NEW k \in Keys, NEW v \in Values(k)
  PROVE  Tried(Try(k, v), k, v) /\ Failed(Try(k, v), k, v)
<1>1. PICK pages : pages = TryOrder(k)
  OBVIOUS
<1>2. PICK n \in Nat \ {0} : n = Len(pages)
  BY <1>1, TriedPages
<1>3. \A i \in 1 .. n : pages[i] \in allocatedPages
  <2>1. pages \in Seq(allocatedPages)
    BY <1>1, TriedPages
  <2> QED
    BY <1>2, <2>1
<1>4. PICK after : Trying(after, n, pages, k, v) /\ Try(k, v) = after[n]
  BY <1>1, <1>2, TryGoes
<1>5. \A i \in 0 .. n : after[i] = IF i = 0 THEN [ok |-> FALSE, page |-> 0, cache |-> dirty]
                                   ELSE TryStep(after[i - 1], pages[i], k, v)
  BY <1>4, Zenon DEF Trying
<1> DEFINE G == {i \in Nat : i <= n => /\ Tried(after[i], k, v)
                                       /\ i # 0 => Failed(after[i], k, v)}
<1>6. 0 \in G
  <2>0. 0 \in 0 .. n
    OBVIOUS
  <2>1. after[0] = [ok |-> FALSE, page |-> 0, cache |-> dirty]
    BY <1>5, <2>0, Zenon
  <2>2. after[0].ok = FALSE /\ after[0].page = 0 /\ after[0].cache = dirty
    BY <2>1
  <2>3. CacheOf(dirty) /\ 0 \in allocatedPages
    BY PagesArePages DEF CacheOf, Shape
  <2>4. Tried(after[0], k, v)
    BY <2>2, <2>3, Zenon DEF Tried
  <2> QED
    BY <2>4
<1>7. ASSUME NEW i \in Nat, i \in G PROVE i + 1 \in G
  <2> SUFFICES ASSUME i + 1 <= n
               PROVE  Tried(after[i + 1], k, v) /\ Failed(after[i + 1], k, v)
    OBVIOUS
  <2>1. i <= n /\ i + 1 \in 0 .. n /\ i + 1 \in 1 .. n /\ i + 1 # 0 /\ i + 1 - 1 = i
    OBVIOUS
  <2>2. after[i + 1] = TryStep(after[i], pages[i + 1], k, v) /\ pages[i + 1] \in allocatedPages
    <3>1. PICK j \in 0 .. n : j = i + 1 /\ j # 0 /\ j - 1 = i /\ j \in 1 .. n
      BY <2>1
    <3>2. after[j] = TryStep(after[j - 1], pages[j], k, v)
      BY <1>5, <3>1, Zenon
    <3> QED
      BY <1>3, <3>1, <3>2, Zenon
  <2>3. Tried(after[i], k, v)
    BY <1>7, <2>1
  <2> QED
    BY <2>2, <2>3, TryStepKeeps
<1>8. n \in G
  <2> HIDE DEF G
  <2> QED
    BY <1>6, <1>7, SetInduction
<1> QED
  BY <1>4, <1>8

------------------------------------------------------------------------------
(* What is read of such a page *)

\* A table that says the same of the keys that were not moved, of which there may be
\* fewer.
LEMMA SoundSame ==
  ASSUME NEW d, NEW p, NEW table, NEW excepted, Sound(d, p, table, excepted),
         NEW new, NEW more, excepted \subseteq more,
         \A k \in Keys \ more : /\ IsOn(k, p, new) <=> IsOn(k, p, table)
                                /\ IsOn(k, p, table) => new[k].value = table[k].value
  PROVE  Sound(d, p, new, more)
<1>1. PICK starts, end : Laid(d, starts, end) /\ Listed(d, starts, p, table, excepted)
  BY DEF Sound
<1>2. Listed(d, starts, p, new, more)
  <2>1. ASSUME NEW o \in starts
        PROVE  \E k \in Keys : /\ KeyAt(d, o) = k
                               /\ k \in more \/ (IsOn(k, p, new) /\ new[k].value = ValueAt(d, o))
    <3>1. PICK k \in Keys :
            /\ KeyAt(d, o) = k
            /\ k \in excepted \/ (IsOn(k, p, table) /\ table[k].value = ValueAt(d, o))
      BY <1>1 DEF Listed
    <3> QED
      BY <3>1, Zenon
  <2>2. \A k \in Keys \ more : IsOn(k, p, new) => \E o \in starts : KeyAt(d, o) = k
    BY <1>1, Zenon DEF Listed
  <2>3. \A o, q \in starts : KeyAt(d, o) = KeyAt(d, q) => o = q
    BY <1>1 DEF Listed
  <2> QED
    BY <2>1, <2>2, <2>3, Zenon DEF Listed
<1> QED
  BY <1>1, <1>2, Zenon DEF Sound

\* The walks come by the records that are listed.
LEMMA SoundWalks ==
  ASSUME NEW d \in Page, NEW p, NEW table, NEW excepted, Sound(d, p, table, excepted)
  PROVE  /\ Listed(d, Range(RecordsOf(d)), p, table, excepted)
         /\ Range(ScannedOf(d)) = Range(RecordsOf(d)) /\ Range(IndexedOf(d)) = Range(RecordsOf(d))
         /\ Range(RecordsOf(d)) \subseteq Nat
<1>1. PICK starts, end : Laid(d, starts, end) /\ Listed(d, starts, p, table, excepted)
  BY DEF Sound
<1>2. Range(RecordsOf(d)) = starts /\ Range(ScannedOf(d)) = starts /\ Range(IndexedOf(d)) = starts
  BY <1>1, WalksAgree
<1>3. starts \subseteq Nat
  BY <1>1, LaidPlaces DEF PlacesOf
<1> QED
  BY <1>1, <1>2, <1>3, Zenon

\* The records that have the key, when they have it on page p only or the map names p.
LEMMA LookupFinds ==
  ASSUME NEW cache, NEW p \in allocatedPages, getPage(cache, p) \in Page,
         NEW table, NEW excepted, Sound(getPage(cache, p), p, table, excepted),
         NEW k \in Keys \ excepted, IsOn(k, p, table),
         NEW map, \/ k \in DOMAIN map /\ map[k] = p
                  \/ \A r \in Records(cache) : r.key = k => r.page = p
  PROVE  /\ Lookup(Records(cache), map, k) = table[k].value
         /\ \A r \in Stops(Records(cache), map, k) : r.page = p
         /\ Stops(Records(cache), map, k) # {}
<1> DEFINE d == getPage(cache, p)
<1> DEFINE records == Records(cache)
<1>1. /\ Listed(d, Range(RecordsOf(d)), p, table, excepted) /\ Range(RecordsOf(d)) \subseteq Nat
  BY SoundWalks
<1>2. PICK o \in Range(RecordsOf(d)) : KeyAt(d, o) = k
  BY <1>1 DEF Listed
<1>3. o \in Nat /\ ValueAt(d, o) = table[k].value
  BY <1>1, <1>2 DEF Listed
<1>4. PICK r : r = RecordAt(p, d, o)
  OBVIOUS
<1>5. r.page = p /\ r.offset = o /\ r.key = k /\ r.value = table[k].value
  <2>1. r.page = p /\ r.offset = o /\ r.key = KeyAt(d, o) /\ r.value = ValueAt(d, o)
    BY <1>4 DEF RecordAt
  <2> QED
    BY <1>2, <1>3, <2>1, Zenon
<1>6. r \in records
  <2>1. r \in {RecordAt(p, d, x) : x \in Range(RecordsOf(d))}
    BY <1>2, <1>4
  <2> QED
    BY <2>1, Zenon DEF Records
<1>7. ASSUME NEW q \in records, q.key = k, q.page = p PROVE q = r
  <2>0. PICK z \in allocatedPages :
          \E x \in Range(RecordsOf(getPage(cache, z))) : q = RecordAt(z, getPage(cache, z), x)
    BY Zenon DEF Records
  <2>1. PICK x \in Range(RecordsOf(getPage(cache, z))) : q = RecordAt(z, getPage(cache, z), x)
    BY <2>0
  <2>2. z = p /\ KeyAt(d, x) = k
    <3>1. q.page = z /\ q.key = KeyAt(getPage(cache, z), x)
      BY <2>1 DEF RecordAt
    <3> QED
      BY <1>7, <3>1, Zenon
  <2>3. x = o
    BY <1>1, <1>2, <2>1, <2>2, Zenon DEF Listed
  <2> QED
    BY <1>4, <2>1, <2>2, <2>3, Zenon
<1> HIDE DEF records, d
<1> DEFINE of == {q \in records : q.key = k}
<1> DEFINE mine == {q \in of : k \in DOMAIN map /\ q.page = map[k]}
<1> DEFINE where == IF mine # {} THEN mine ELSE of
<1>8. where = {r}
  <2>1. CASE k \in DOMAIN map /\ map[k] = p
    <3>1. mine = {r}
      BY <1>5, <1>6, <1>7, <2>1, Zenon
    <3> QED
      BY <3>1, Zenon
  <2>2. CASE \A q \in records : q.key = k => q.page = p
    <3>1. of = {r}
      BY <1>5, <1>6, <1>7, <2>2, Zenon
    <3>2. mine = {r} \/ mine = {}
      BY <3>1, Zenon
    <3> QED
      BY <3>1, <3>2, Zenon
  <2> QED
    BY <2>1, <2>2 DEF records
<1>9. \A q : q \in Stops(records, map, k) =>
               q \in where
  BY Zenon DEF Stops
<1>10. Stops(records, map, k) = {r}
  <2>1. r.offset <= r.offset
    BY <1>3, <1>5
  <2>2. (r \in where /\ \A z \in where : r.page = z.page /\ r.offset <= z.offset)
          => r \in Stops(records, map, k)
    BY Zenon DEF Stops
  <2> HIDE DEF where
  <2> QED
    BY <1>8, <1>9, <2>1, <2>2, Zenon
<1>11. Lookup(records, map, k) = r.value
  <2>1. {r} # {} /\ (CHOOSE q \in {r} : TRUE) = r
    OBVIOUS
  <2> QED
    BY <1>10, <2>1, Zenon DEF Lookup
<1> QED
  BY <1>5, <1>10, <1>11, Zenon DEF records

\* When no page has the key.
LEMMA LookupFindsNone ==
  ASSUME NEW cache, NEW table, NEW excepted,
         \A p \in allocatedPages : /\ getPage(cache, p) \in Page
                                   /\ Sound(getPage(cache, p), p, table, excepted),
         NEW k \in Keys \ excepted, table[k].value = Nothing, NEW map
  PROVE  Lookup(Records(cache), map, k) = Nothing
<1>1. ASSUME NEW q \in Records(cache) PROVE q.key # k
  <2>0. PICK p \in allocatedPages :
          \E o \in Range(RecordsOf(getPage(cache, p))) : q = RecordAt(p, getPage(cache, p), o)
    BY Zenon DEF Records
  <2>1. PICK o \in Range(RecordsOf(getPage(cache, p))) : q = RecordAt(p, getPage(cache, p), o)
    BY <2>0
  <2>2. Listed(getPage(cache, p), Range(RecordsOf(getPage(cache, p))), p, table, excepted)
    BY SoundWalks
  <2>3. KeyAt(getPage(cache, p), o) # k
    BY <2>1, <2>2, Zenon DEF Listed, IsOn
  <2> QED
    <3>1. q.key = KeyAt(getPage(cache, p), o)
      BY <2>1 DEF RecordAt
    <3> QED
      BY <2>3, <3>1, Zenon
<1>2. Stops(Records(cache), map, k) = {}
  BY <1>1, Zenon DEF Stops
<1> QED
  BY <1>2, Zenon DEF Lookup

------------------------------------------------------------------------------
(* What is true of the pages stays true *)

\* At first there is an empty page.
LEMMA InitInv == Init => StoreInv
<1> SUFFICES ASSUME Init PROVE StoreInv
  OBVIOUS
<1>1. /\ disk = <<Zeros(PAGE_SIZE)>> /\ dirty = <<>> /\ allocatedPages = {0, 1} /\ keyToPage = <<>>
      /\ hung = FALSE /\ run = 1 /\ moved = {} /\ mixed = {}
      /\ kept = [k \in Keys |-> [value |-> Nothing, page |-> 0]] /\ stored = kept
  BY DEF Init
<1>2. MaxRun \in Nat \ {0}
  BY PageStoreAssumption, Zenon
<1>3. disk \in Seq(Page) /\ Len(disk) = 1
  BY <1>1, ZeroPage
<1>4. allocatedPages = 0 .. 1
  BY <1>1
<1>5. DOMAIN dirty = {} /\ DOMAIN keyToPage = {}
  BY <1>1
<1>6. Shape
  <2>1. \E last \in Nat : /\ allocatedPages = 0 .. last /\ last <= run
                          /\ last <= Len(disk) /\ Len(disk) <= last + 1
    <3>1. 1 \in Nat /\ 1 <= 1 /\ 1 <= 1 + 1
      OBVIOUS
    <3> QED
      BY <1>1, <1>3, <1>4, <3>1, Zenon
  <2>2. run \in 1 .. MaxRun
    BY <1>1, <1>2
  <2> QED
    BY <1>1, <1>3, <1>5, <2>1, <2>2, Zenon DEF Shape
<1>7. Ghosts
  <2>1. IsTable(kept)
    BY <1>1 DEF IsTable
  <2>2. \A k \in Keys : stored[k].value = Nothing
    BY <1>1
  <2> QED
    BY <1>1, <2>1, <2>2, Zenon DEF Ghosts
<1>8. PagesSound
  <2>1. \A k \in Keys : kept[k].value = Nothing
    BY <1>1
  <2>2. \A p : Sound(Zeros(PAGE_SIZE), p, kept, moved)
    <3>1. \A p : Listed(Zeros(PAGE_SIZE), {}, p, kept, moved)
      BY <2>1, Zenon DEF Listed, IsOn
    <3> QED
      BY <3>1, ZeroPage, Zenon DEF Sound
  <2>3. \A p \in Nat : OnDisk(p) = Zeros(PAGE_SIZE)
    BY <1>1 DEF OnDisk
  <2>4. \A p \in Nat : getPage(dirty, p) = Zeros(PAGE_SIZE)
    BY <1>5, <2>3, Zenon DEF getPage
  <2>5. \A p \in allocatedPages : p \in Nat
    BY <1>1
  <2> QED
    BY <1>1, <2>2, <2>3, <2>4, <2>5, Zenon DEF PagesSound
<1>9. MapRight
  BY <1>1 DEF MapRight
<1> QED
  BY <1>6, <1>7, <1>8, <1>9 DEF StoreInv

\* A page that two steps see alike.
LEMMA SamePages ==
  ASSUME disk' = disk
  PROVE  \A p : OnDisk(p)' = OnDisk(p) /\ getPage(dirty, p)' = getPage(dirty', p)
BY DEF OnDisk, getPage

\* The shape, when the file and the page numbers are as before.
LEMMA ShapeStays ==
  ASSUME Shape, UNCHANGED <<disk, allocatedPages, run>>, hung' \in BOOLEAN,
         DOMAIN dirty' \subseteq allocatedPages, \A p \in DOMAIN dirty' : dirty'[p] \in Page,
         DOMAIN keyToPage' \subseteq Keys,
         \A k \in DOMAIN keyToPage' : keyToPage'[k] \in allocatedPages,
         mixed' \subseteq allocatedPages, moved' \subseteq Keys, mixed' = {} => moved' = {}
  PROVE  Shape'
<1>1. /\ disk \in Seq(Page) /\ run \in 1 .. MaxRun
      /\ \E last \in Nat : /\ allocatedPages = 0 .. last /\ last <= run
                           /\ last <= Len(disk) /\ Len(disk) <= last + 1
  BY DEF Shape
<1>2. disk' = disk /\ allocatedPages' = allocatedPages /\ run' = run
  OBVIOUS
<1> QED
  BY <1>1, <1>2, Zenon DEF Shape

\* A put, and what it says of the tables.
LEMMA PutPreserves ==
  ASSUME StoreInv, NEW k \in Keys, NEW v \in Values(k), PutRecord(k, v)
  PROVE  StoreInv'
<1>0. Shape /\ Ghosts /\ PagesSound /\ MapRight
  BY DEF StoreInv
<1>1. PICK t : t = Try(k, v)
  OBVIOUS
<1>2. Tried(t, k, v) /\ Failed(t, k, v)
  BY <1>0, <1>1, TryKeeps
<1>3. t.ok \in BOOLEAN /\ t.page \in allocatedPages /\ CacheOf(t.cache)
  BY <1>2, Zenon DEF Tried
<1>4. /\ dirty' = t.cache /\ hung' = ~t.ok
      /\ keyToPage' = IF t.ok THEN Changed(keyToPage, k, t.page) ELSE Without(keyToPage, k)
      /\ kept' = IF t.ok THEN Recorded(kept, k, v, t.page) ELSE kept
      /\ disk' = disk /\ allocatedPages' = allocatedPages /\ run' = run /\ stored' = stored
  BY <1>1, Zenon DEF PutRecord, Recorded
<1> DEFINE damages == Leaves(k, v, t.page) \/ k \in moved
<1> DEFINE changed == {kept[k].page} \cup {p \in DOMAIN t.cache : t.cache[p] # getPage(dirty, p)}
<1>5. IF damages THEN moved' = moved \cup {k} /\ mixed' = mixed \cup changed
      ELSE moved' = moved /\ mixed' = mixed
  BY <1>1, Zenon DEF PutRecord, Moved
<1>6. IsTable(kept) /\ IsTable(stored) /\ DOMAIN kept = Keys /\ kept[k].page \in allocatedPages
  BY <1>0, Zenon DEF Ghosts, IsTable
<1>7. t.ok => AfterPut(kept', kept, k, v, t.page)
  BY <1>4, <1>6, RecordedTable
<1>8. \A j \in Keys \ {k} : kept'[j] = kept[j] /\ \A q : IsOn(j, q, kept') <=> IsOn(j, q, kept)
  BY <1>4, <1>7, Zenon DEF AfterPut
<1>9. changed \subseteq allocatedPages
  BY <1>3, <1>6, Zenon DEF CacheOf
<1>10. \A q \in allocatedPages \ changed : getPage(t.cache, q) = getPage(dirty, q)
  BY <1>3, Zenon DEF CacheOf, getPage
<1> HIDE DEF damages, changed
<1>11. Shape'
  <2>1. DOMAIN dirty' \subseteq allocatedPages /\ \A p \in DOMAIN dirty' : dirty'[p] \in Page
    BY <1>3, <1>4, Zenon DEF CacheOf
  <2>2. mixed' \subseteq allocatedPages /\ moved' \subseteq Keys /\ (mixed' = {} => moved' = {})
    <3>1. mixed \subseteq allocatedPages /\ moved \subseteq Keys /\ (mixed = {} => moved = {})
      BY <1>0, Zenon DEF Shape
    <3>2. kept[k].page \in changed
      BY DEF changed
    <3> QED
      BY <1>5, <1>9, <3>1, <3>2, Zenon
  <2>3. DOMAIN keyToPage' \subseteq Keys /\ \A j \in DOMAIN keyToPage' : keyToPage'[j] \in allocatedPages
    <3>1. DOMAIN keyToPage \subseteq Keys /\ \A j \in DOMAIN keyToPage : keyToPage[j] \in allocatedPages
      BY <1>0, Zenon DEF Shape
    <3>2. CASE t.ok
      <4>1. keyToPage' = Changed(keyToPage, k, t.page)
        BY <1>4, <3>2
      <4> QED
        BY <1>3, <3>1, <4>1, Zenon DEF Changed
    <3>3. CASE ~t.ok
      <4>1. keyToPage' = Without(keyToPage, k)
        BY <1>4, <3>3
      <4> QED
        BY <3>1, <4>1, Zenon DEF Without
    <3> QED
      BY <3>2, <3>3
  <2>4. hung' \in BOOLEAN /\ UNCHANGED <<disk, allocatedPages, run>>
    BY <1>3, <1>4
  <2> QED
    BY <1>0, <2>1, <2>2, <2>3, <2>4, ShapeStays
<1>12. IsTable(kept')
  <2>1. CASE ~t.ok
    BY <1>4, <1>6, <2>1
  <2>2. CASE t.ok
    <3>1. AfterPut(kept', kept, k, v, t.page)
      BY <1>7, <2>2
    <3>2. kept'[k] = [value |-> v, page |-> t.page]
      BY <3>1, Zenon DEF AfterPut
    <3>3. kept'[k].value = v /\ kept'[k].page = t.page
      BY <3>2
    <3>4. ASSUME NEW j \in Keys
          PROVE  /\ kept'[j] = [value |-> kept'[j].value, page |-> kept'[j].page]
                 /\ kept'[j].page \in allocatedPages /\ kept'[j].value \in Values(j) \cup {Nothing}
      BY <1>3, <1>6, <1>8, <3>2, <3>3, Zenon DEF IsTable
    <3>5. DOMAIN kept' = Keys
      BY <3>1, Zenon DEF AfterPut
    <3> QED
      BY <3>4, <3>5, Zenon DEF IsTable
  <2> QED
    BY <2>1, <2>2
<1>13. ASSUME ~damages
       PROVE  /\ kept[k].value # Nothing => Len(kept[k].value) = Len(v) /\ kept[k].page = t.page
              /\ k \notin moved
  BY <1>13, Zenon DEF damages, Leaves
<1>14. Ghosts'
  <2>1. ASSUME NEW j \in Keys \ moved', stored[j].value # Nothing
        PROVE  IsOn(j, stored[j].page, kept')
    <3>1. j \notin moved
      BY <1>5, <2>1
    <3>2. IsOn(j, stored[j].page, kept)
      BY <1>0, <2>1, <3>1, Zenon DEF Ghosts
    <3>3. CASE j # k
      BY <1>8, <3>2, <3>3, Zenon
    <3>4. CASE j = k /\ ~t.ok
      BY <1>4, <3>2, <3>4, Zenon
    <3>5. CASE j = k /\ t.ok
      <4>1. ~damages
        BY <1>5, <2>1, <3>5
      <4>2. stored[j].page = t.page
        BY <1>13, <3>2, <3>5, <4>1, Zenon DEF IsOn
      <4> QED
        BY <1>7, <3>5, <4>2, Zenon DEF AfterPut
    <3> QED
      BY <3>3, <3>4, <3>5
  <2>2. IsTable(kept)' /\ IsTable(stored)'
    <3>1. IsTable(kept)' <=> IsTable(kept')
      BY <1>4, Zenon DEF IsTable
    <3>2. IsTable(stored)' <=> IsTable(stored)
      BY <1>4, Zenon DEF IsTable
    <3> QED
      BY <1>6, <1>12, <3>1, <3>2
  <2>3. stored' = stored
    BY <1>4
  <2> QED
    BY <2>1, <2>2, <2>3, Zenon DEF Ghosts, IsOn
<1>15. ASSUME NEW q \in allocatedPages \ mixed'
       PROVE  Sound(getPage(t.cache, q), q, kept', moved') /\ Sound(OnDisk(q), q, stored, moved')
  <2>1. q \notin mixed /\ moved \subseteq moved'
    BY <1>5, <1>15
  <2>2. Sound(getPage(dirty, q), q, kept, moved) /\ Sound(OnDisk(q), q, stored, moved)
    BY <1>0, <2>1, Zenon DEF PagesSound
  <2>3. Sound(OnDisk(q), q, stored, moved')
    BY <2>1, <2>2, SoundSame
  <2>4. CASE damages
    <3>1. q \notin changed /\ k \in moved'
      BY <1>5, <1>15, <2>4
    <3>2. getPage(t.cache, q) = getPage(dirty, q)
      BY <1>10, <3>1
    <3>3. \A j \in Keys \ moved' : j # k
      BY <3>1
    <3>4. \A j \in Keys \ moved' : /\ IsOn(j, q, kept') <=> IsOn(j, q, kept)
                                   /\ IsOn(j, q, kept) => kept'[j].value = kept[j].value
      BY <1>8, <3>3, Zenon
    <3>5. Sound(getPage(dirty, q), q, kept', moved')
      BY <2>1, <2>2, <3>4, SoundSame
    <3> QED
      BY <2>3, <3>2, <3>5, Zenon
  <2>5. CASE ~damages
    <3>1. moved' = moved /\ k \in Keys \ moved
      BY <1>5, <1>13, <2>5
    <3>2. IsOn(k, q, kept) => Len(kept[k].value) = Len(v) /\ q = t.page
      BY <1>13, <2>5, Zenon DEF IsOn
    <3>3. PICK d \in Page : d = getPage(dirty, q)
      BY <1>0, PagesArePages
    <3>4. PICK f : f = FindFreeSpaceInPage(d, k, v)
      OBVIOUS
    <3>5. PutOn(f, d, q, kept, moved, k, v)
      BY <1>6, <2>2, <3>1, <3>2, <3>3, <3>4, PutKeepsPage
    <3>6. LeftAlone(q, k, v)
      BY <3>3, <3>4, <3>5, Zenon DEF LeftAlone, PutOn
    <3>7. CASE t.ok /\ t.page = q
      <4>1. f.ok /\ getPage(t.cache, q) = f.page
        BY <1>2, <3>3, <3>4, <3>6, <3>7, Zenon DEF Tried
      <4>2. kept' = Recorded(kept, k, v, q)
        BY <1>4, <3>7
      <4> QED
        BY <2>3, <3>1, <3>5, <4>1, <4>2, Zenon DEF PutOn
    <3>8. CASE ~(t.ok /\ t.page = q)
      <4>1. getPage(t.cache, q) = getPage(dirty, q)
        BY <1>2, <3>6, <3>8, Zenon DEF Tried
      <4>2. CASE ~t.ok
        BY <1>4, <2>2, <2>3, <3>1, <4>1, <4>2, Zenon
      <4>3. CASE t.ok
        <5>1. ~IsOn(k, q, kept) /\ ~IsOn(k, q, kept')
          BY <1>7, <3>2, <3>8, <4>3, Zenon DEF AfterPut
        <5>2. \A j \in Keys \ moved' : /\ IsOn(j, q, kept') <=> IsOn(j, q, kept)
                                       /\ IsOn(j, q, kept) => kept'[j].value = kept[j].value
          BY <1>8, <5>1, Zenon
        <5>3. Sound(getPage(dirty, q), q, kept', moved')
          BY <2>1, <2>2, <5>2, SoundSame
        <5> QED
          BY <2>3, <4>1, <5>3, Zenon
      <4> QED
        BY <4>2, <4>3
    <3> QED
      BY <3>7, <3>8
  <2> QED
    BY <2>4, <2>5
<1>16. PagesSound'
  <2>1. \A p : OnDisk(p)' = OnDisk(p) /\ getPage(dirty, p)' = getPage(t.cache, p)
    BY <1>4, SamePages, Zenon
  <2>2. allocatedPages' = allocatedPages /\ stored' = stored
    BY <1>4
  <2>3. ASSUME NEW q \in allocatedPages' \ mixed'
        PROVE  Sound(getPage(dirty, q), q, kept, moved)' /\ Sound(OnDisk(q), q, stored, moved)'
    <3>1. /\ Sound(getPage(dirty, q)', q, kept', moved')
          /\ Sound(OnDisk(q)', q, stored', moved')
      BY <1>15, <2>1, <2>2, Zenon
    <3> QED
      BY <3>1
  <2> QED
    BY <2>3, Zenon DEF PagesSound
<1>17. MapRight'
  <2> SUFFICES ASSUME mixed' = {} \/ run' = 1, NEW j \in Keys \ moved',
                      kept'[j].value # Nothing, kept'[j].page \notin mixed'
               PROVE  j \in DOMAIN keyToPage' /\ keyToPage'[j] = kept'[j].page
    BY Zenon DEF MapRight
  <2>1. (mixed = {} \/ run = 1) /\ j \notin moved
    BY <1>4, <1>5, Zenon
  <2>2. ASSUME kept[j].value # Nothing, kept[j].page \notin mixed
        PROVE  j \in DOMAIN keyToPage /\ keyToPage[j] = kept[j].page
    BY <1>0, <2>1, <2>2, Zenon DEF MapRight
  <2>3. CASE j # k
    <3>1. kept'[j] = kept[j] /\ kept[j].page \notin mixed
      <4>1. kept'[j] = kept[j]
        BY <1>8, <2>3, Zenon
      <4>2. kept[j].page \notin mixed'
        BY <4>1
      <4> QED
        BY <1>5, <4>1, <4>2, Zenon
    <3>2. j \in DOMAIN keyToPage /\ keyToPage[j] = kept[j].page
      BY <2>2, <3>1
    <3> QED
      BY <1>4, <2>3, <3>1, <3>2, Zenon DEF Changed, Without
  <2>4. CASE j = k /\ t.ok
    <3>1. keyToPage' = Changed(keyToPage, k, t.page)
      BY <1>4, <2>4
    <3>2. kept'[k] = [value |-> v, page |-> t.page]
      BY <1>7, <2>4, Zenon DEF AfterPut
    <3>3. kept'[k].page = t.page
      BY <3>2
    <3> QED
      BY <2>4, <3>1, <3>3, Zenon DEF Changed
  <2>5. CASE j = k /\ ~t.ok
    <3>1. ~damages /\ kept' = kept /\ mixed' = mixed
      BY <1>4, <1>5, <2>5
    <3>2. IsOn(k, t.page, kept) /\ Len(kept[k].value) = Len(v) /\ k \in Keys \ moved
      BY <1>13, <2>5, <3>1, Zenon DEF IsOn
    <3>3. t.page \in allocatedPages \ mixed
      BY <1>3, <2>5, <3>1, <3>2, Zenon DEF IsOn
    <3>4. PICK d \in Page : d = getPage(dirty, t.page)
      BY <1>0, <3>3, PagesArePages
    <3>5. Sound(d, t.page, kept, moved)
      BY <1>0, <3>3, <3>4, Zenon DEF PagesSound
    <3>6. PutOn(FindFreeSpaceInPage(d, k, v), d, t.page, kept, moved, k, v)
      BY <1>6, <3>2, <3>5, PutKeepsPage
    <3>7. FindFreeSpaceInPage(d, k, v).ok
      BY <3>2, <3>6, Zenon DEF PutOn
    <3> QED
      BY <1>2, <2>5, <3>4, <3>7, Zenon DEF Failed, LeftAlone
  <2> QED
    BY <2>3, <2>4, <2>5
<1> QED
  BY <1>11, <1>14, <1>16, <1>17 DEF StoreInv

\* A record that was found is on an allocated page.
LEMMA FoundRecord ==
  ASSUME NEW cache, NEW map, NEW k, NEW r \in Stops(Records(cache), map, k)
  PROVE  r.page \in allocatedPages /\ r.key = k
<1>1. r \in Records(cache) /\ r.key = k
  BY Zenon DEF Stops
<1>2. PICK p \in allocatedPages :
        \E o \in Range(RecordsOf(getPage(cache, p))) : r = RecordAt(p, getPage(cache, p), o)
  BY <1>1, Zenon DEF Records
<1>3. PICK o : r = RecordAt(p, getPage(cache, p), o)
  BY <1>2
<1>4. r.page = p
  BY <1>3 DEF RecordAt
<1> QED
  BY <1>1, <1>4, Zenon

\* A get: what it puts into the map is right.
LEMMA GetPreserves ==
  ASSUME StoreInv, NEW k \in Keys, GetRecord(k, Records(dirty))
  PROVE  StoreInv'
<1>0. Shape /\ Ghosts /\ PagesSound /\ MapRight
  BY DEF StoreInv
<1>1. PICK r \in Stops(Records(dirty), keyToPage, k) :
        /\ keyToPage' = Changed(keyToPage, k, r.page)
        /\ UNCHANGED <<disk, dirty, allocatedPages, hung, run, ghosts>>
  BY Zenon DEF GetRecord
<1>2. /\ disk' = disk /\ dirty' = dirty /\ allocatedPages' = allocatedPages /\ hung' = hung
      /\ run' = run /\ kept' = kept /\ stored' = stored /\ moved' = moved /\ mixed' = mixed
  BY <1>1 DEF ghosts
<1>3. r.page \in allocatedPages
  BY FoundRecord
<1>4. Shape'
  <2>1. DOMAIN keyToPage \subseteq Keys /\ \A j \in DOMAIN keyToPage : keyToPage[j] \in allocatedPages
    BY <1>0, Zenon DEF Shape
  <2>2. DOMAIN keyToPage' \subseteq Keys /\ \A j \in DOMAIN keyToPage' : keyToPage'[j] \in allocatedPages
    BY <1>1, <1>3, <2>1, Zenon DEF Changed
  <2>3. /\ DOMAIN dirty \subseteq allocatedPages /\ \A p \in DOMAIN dirty : dirty[p] \in Page
        /\ mixed \subseteq allocatedPages /\ moved \subseteq Keys /\ (mixed = {} => moved = {})
        /\ hung \in BOOLEAN
    BY <1>0, Zenon DEF Shape
  <2>4. UNCHANGED <<disk, allocatedPages, run>>
    BY <1>2
  <2> QED
    BY <1>0, <1>2, <2>2, <2>3, <2>4, ShapeStays
<1>5. Ghosts'
  BY <1>0, <1>2, Zenon DEF Ghosts, IsTable, IsOn
<1>6. PagesSound'
  <2>1. \A p : OnDisk(p)' = OnDisk(p) /\ getPage(dirty, p)' = getPage(dirty, p)
    BY <1>2, SamePages, Zenon
  <2>2. ASSUME NEW q \in allocatedPages' \ mixed'
        PROVE  Sound(getPage(dirty, q), q, kept, moved)' /\ Sound(OnDisk(q), q, stored, moved)'
    <3>1. Sound(getPage(dirty, q), q, kept, moved) /\ Sound(OnDisk(q), q, stored, moved)
      BY <1>0, <1>2, <2>2, Zenon DEF PagesSound
    <3>2. Sound(getPage(dirty, q)', q, kept', moved') /\ Sound(OnDisk(q)', q, stored', moved')
      BY <1>2, <2>1, <3>1, Zenon
    <3> QED
      BY <3>2
  <2> QED
    BY <2>2, Zenon DEF PagesSound
<1>7. MapRight'
  <2> SUFFICES ASSUME mixed = {} \/ run = 1, NEW j \in Keys \ moved,
                      kept[j].value # Nothing, kept[j].page \notin mixed
               PROVE  j \in DOMAIN keyToPage' /\ keyToPage'[j] = kept[j].page
    BY <1>2, Zenon DEF MapRight
  <2>1. j \in DOMAIN keyToPage /\ keyToPage[j] = kept[j].page
    BY <1>0, Zenon DEF MapRight
  <2>2. CASE j # k
    BY <1>1, <2>1, <2>2, Zenon DEF Changed
  <2>3. CASE j = k
    <3>1. kept[k].page \in allocatedPages \ mixed
      BY <1>0, <2>3, Zenon DEF Ghosts, IsTable
    <3>2. getPage(dirty, kept[k].page) \in Page
      BY <1>0, <3>1, PagesArePages
    <3>3. Sound(getPage(dirty, kept[k].page), kept[k].page, kept, moved)
      BY <1>0, <3>1, Zenon DEF PagesSound
    <3>4. IsOn(k, kept[k].page, kept) /\ k \in DOMAIN keyToPage /\ keyToPage[k] = kept[k].page
      BY <2>1, <2>3, Zenon DEF IsOn
    <3>5. r.page = kept[k].page
      BY <2>3, <3>1, <3>2, <3>3, <3>4, LookupFinds
    <3> QED
      BY <1>1, <2>3, <3>5, Zenon DEF Changed
  <2> QED
    BY <2>2, <2>3
<1> QED
  BY <1>4, <1>5, <1>6, <1>7 DEF StoreInv

\* A delete: the page is from now on one of those that were damaged.
LEMMA DeletePreserves ==
  ASSUME StoreInv, NEW k \in Keys, DeleteRecord(k, Records(dirty))
  PROVE  StoreInv'
<1>0. Shape /\ Ghosts /\ PagesSound /\ MapRight
  BY DEF StoreInv
<1>1. PICK r \in Stops(Records(dirty), keyToPage, k) :
        /\ dirty' = Changed(dirty, r.page, Written(getPage(dirty, r.page), r.offset, Uint16(0)))
        /\ keyToPage' = Without(keyToPage, k)
        /\ kept' = [kept EXCEPT ![k] = [value |-> Nothing, page |-> r.page]]
        /\ moved' = moved \cup {k} /\ mixed' = mixed \cup {r.page}
        /\ UNCHANGED <<disk, allocatedPages, hung, run, stored>>
  BY Zenon DEF DeleteRecord, Moved
<1>2. disk' = disk /\ allocatedPages' = allocatedPages /\ hung' = hung /\ run' = run /\ stored' = stored
  BY <1>1
<1>3. r.page \in allocatedPages
  BY FoundRecord
<1>4. PICK b : b = Written(getPage(dirty, r.page), r.offset, Uint16(0)) /\ b \in Page
  <2>1. getPage(dirty, r.page) \in Page /\ Uint16(0) \in Seq(Byte)
    BY <1>0, <1>3, PagesArePages, UintBytes
  <2> QED
    BY <2>1, WrittenPage
<1>5. dirty' = Changed(dirty, r.page, b)
  BY <1>1, <1>4
<1>6. Shape'
  <2>1. DOMAIN keyToPage \subseteq Keys /\ \A j \in DOMAIN keyToPage : keyToPage[j] \in allocatedPages
    BY <1>0, Zenon DEF Shape
  <2>2. DOMAIN keyToPage' \subseteq Keys /\ \A j \in DOMAIN keyToPage' : keyToPage'[j] \in allocatedPages
    BY <1>1, <2>1, Zenon DEF Without
  <2>3. /\ DOMAIN dirty \subseteq allocatedPages /\ \A p \in DOMAIN dirty : dirty[p] \in Page
        /\ mixed \subseteq allocatedPages /\ moved \subseteq Keys /\ hung \in BOOLEAN
    BY <1>0, Zenon DEF Shape
  <2>4. DOMAIN dirty' \subseteq allocatedPages /\ \A p \in DOMAIN dirty' : dirty'[p] \in Page
    BY <1>3, <1>4, <1>5, <2>3, Zenon DEF Changed
  <2>5. mixed' \subseteq allocatedPages /\ moved' \subseteq Keys /\ mixed' # {} /\ hung' \in BOOLEAN
    BY <1>1, <1>2, <1>3, <2>3
  <2>6. UNCHANGED <<disk, allocatedPages, run>>
    BY <1>2
  <2> QED
    BY <1>0, <2>2, <2>4, <2>5, <2>6, ShapeStays
<1>7. DOMAIN kept = Keys /\ IsTable(kept) /\ IsTable(stored)
  BY <1>0, Zenon DEF Ghosts, IsTable
<1>8. /\ DOMAIN kept' = Keys /\ kept'[k] = [value |-> Nothing, page |-> r.page]
      /\ \A j \in Keys \ {k} : kept'[j] = kept[j]
  BY <1>1, <1>7
<1>9. Ghosts'
  <2>1. ASSUME NEW j \in Keys
        PROVE  /\ kept'[j] = [value |-> kept'[j].value, page |-> kept'[j].page]
               /\ kept'[j].page \in allocatedPages /\ kept'[j].value \in Values(j) \cup {Nothing}
    <3>1. CASE j = k
      <4>1. kept'[k].value = Nothing /\ kept'[k].page = r.page
        BY <1>8
      <4> QED
        BY <1>3, <1>8, <3>1, <4>1, Zenon
    <3>2. CASE j # k
      BY <1>7, <1>8, <3>2, Zenon DEF IsTable
    <3> QED
      BY <3>1, <3>2
  <2>2. IsTable(kept)' /\ IsTable(stored)'
    BY <1>2, <1>7, <1>8, <2>1, Zenon DEF IsTable
  <2>3. ASSUME NEW j \in Keys \ moved', stored'[j].value # Nothing
        PROVE  IsOn(j, stored'[j].page, kept')
    <3>1. j # k /\ j \notin moved
      BY <1>1, <2>3
    <3>2. IsOn(j, stored[j].page, kept)
      BY <1>0, <1>2, <2>3, <3>1, Zenon DEF Ghosts
    <3> QED
      BY <1>2, <1>8, <3>1, <3>2, Zenon DEF IsOn
  <2> QED
    BY <2>2, <2>3, Zenon DEF Ghosts, IsOn
<1>10. PagesSound'
  <2>1. \A p : OnDisk(p)' = OnDisk(p) /\ getPage(dirty, p)' = getPage(dirty', p)
    BY <1>2, SamePages, Zenon
  <2>2. ASSUME NEW q \in allocatedPages' \ mixed'
        PROVE  Sound(getPage(dirty, q), q, kept, moved)' /\ Sound(OnDisk(q), q, stored, moved)'
    <3>1. q \in allocatedPages \ mixed /\ q # r.page /\ moved \subseteq moved' /\ k \in moved'
      BY <1>1, <1>2, <2>2
    <3>2. Sound(getPage(dirty, q), q, kept, moved) /\ Sound(OnDisk(q), q, stored, moved)
      BY <1>0, <3>1, Zenon DEF PagesSound
    <3>3. Sound(OnDisk(q), q, stored, moved')
      BY <3>1, <3>2, SoundSame
    <3>4. \A j \in Keys \ moved' : kept'[j] = kept[j]
      BY <1>8, <3>1, Zenon
    <3>5. \A j \in Keys \ moved' : /\ IsOn(j, q, kept') <=> IsOn(j, q, kept)
                                   /\ IsOn(j, q, kept) => kept'[j].value = kept[j].value
      BY <3>4, Zenon DEF IsOn
    <3>6. Sound(getPage(dirty, q), q, kept', moved')
      BY <3>1, <3>2, <3>5, SoundSame
    <3>7. getPage(dirty', q) = getPage(dirty, q)
      BY <1>5, <3>1, Zenon DEF getPage, Changed
    <3>8. Sound(getPage(dirty, q)', q, kept', moved') /\ Sound(OnDisk(q)', q, stored', moved')
      BY <1>2, <2>1, <3>3, <3>6, <3>7, Zenon
    <3> QED
      BY <3>8
  <2> QED
    BY <2>2, Zenon DEF PagesSound
<1>11. MapRight'
  <2> SUFFICES ASSUME mixed' = {} \/ run' = 1, NEW j \in Keys \ moved',
                      kept'[j].value # Nothing, kept'[j].page \notin mixed'
               PROVE  j \in DOMAIN keyToPage' /\ keyToPage'[j] = kept'[j].page
    BY Zenon DEF MapRight
  <2>1. j # k /\ j \notin moved /\ run = 1
    BY <1>1, <1>2
  <2>2. kept'[j] = kept[j]
    BY <1>8, <2>1, Zenon
  <2>3. kept[j].page \notin mixed
    BY <1>1, <2>2
  <2>4. j \in DOMAIN keyToPage /\ keyToPage[j] = kept[j].page
    BY <1>0, <2>1, <2>2, <2>3, Zenon DEF MapRight
  <2> QED
    BY <1>1, <2>1, <2>2, <2>4, Zenon DEF Without
<1> QED
  BY <1>6, <1>9, <1>10, <1>11 DEF StoreInv

------------------------------------------------------------------------------
(* The file *)

\* A bounded set of numbers that is not empty has a greatest one.
LEMMA GreatestNumber ==
  ASSUME NEW S, NEW n \in Nat, S \subseteq 0 .. n, S # {}
  PROVE  Max(S) \in S /\ \A x \in S : Max(S) >= x
<1>1. \E x \in S : \A y \in S : x >= y
  <2> SUFFICES ASSUME \A x \in S : \E y \in S : ~(x >= y) PROVE FALSE
    OBVIOUS
  <2> DEFINE G == {i \in 0 .. n : i \notin S}
  <2>1. ASSUME NEW i \in 0 .. n, \A j \in i + 1 .. n : j \in G PROVE i \in G
    <3>1. \A y \in S : i >= y
      <4> SUFFICES ASSUME NEW y \in S, ~(i >= y) PROVE FALSE
        OBVIOUS
      <4>1. y \in i + 1 .. n
        OBVIOUS
      <4> QED
        BY <2>1, <4>1
    <3> QED
      BY <3>1
  <2>2. 0 .. n \subseteq G
    <3> HIDE DEF G
    <3> QED
      BY <2>1, Backward
  <2> QED
    BY <2>2
<1> QED
  BY <1>1, Zenon DEF Max

\* The file into which some dirty pages were written.
IsWrittenBack(file, pages, last) ==
  /\ file \in Seq(Page) /\ Len(disk) <= Len(file) /\ last <= Len(file) /\ Len(file) <= last + 1
  /\ \A p \in Nat : (IF p < Len(file) THEN file[p + 1] ELSE Zeros(PAGE_SIZE))
                      = IF p \in pages THEN dirty[p] ELSE OnDisk(p)

\* WrittenBack makes that file: the pages not written are as they were.
LEMMA WrittenBackFile ==
  ASSUME Shape, NEW pages \in SUBSET DOMAIN dirty, NEW last \in Nat, allocatedPages = 0 .. last
  PROVE  IsWrittenBack(WrittenBack(pages), pages, last)
<1>1. PICK size \in Nat : size = Len(disk) /\ last <= size /\ size <= last + 1
  <2>1. PICK z \in Nat : allocatedPages = 0 .. z /\ z <= Len(disk) /\ Len(disk) <= z + 1
    BY DEF Shape
  <2>2. z = last
    BY <2>1
  <2>3. Len(disk) \in Nat
    BY DEF Shape
  <2> QED
    BY <2>1, <2>2, <2>3
<1>2. \A p \in pages : p \in Nat /\ p + 1 <= last + 1 /\ dirty[p] \in Page
  BY DEF Shape
<1> DEFINE S == {Len(disk)} \cup {p + 1 : p \in pages}
<1>3. S \subseteq 0 .. last + 1 /\ size \in S
  BY <1>1, <1>2
<1>4. PICK n : n = Max(S)
  OBVIOUS
<1>5. n \in S /\ \A x \in S : n >= x
  <2>1. last + 1 \in Nat /\ S # {}
    BY <1>3
  <2> HIDE DEF S
  <2> QED
    BY <1>3, <1>4, <2>1, GreatestNumber
<1>6. n \in Nat /\ n <= last + 1 /\ size <= n /\ last <= n
  <2> HIDE DEF S
  <2> QED
    BY <1>1, <1>3, <1>5
<1>7. \A p \in pages : p < n
  <2> SUFFICES ASSUME NEW p \in pages PROVE p < n
    OBVIOUS
  <2>1. p + 1 \in S
    OBVIOUS
  <2>2. n >= p + 1
    BY <1>5, <2>1
  <2> QED
    BY <1>2, <1>6, <2>2
<1>8. PICK file : file = WrittenBack(pages)
  OBVIOUS
<1>9. file = [i \in 1 .. n |-> IF i - 1 \in pages THEN dirty[i - 1] ELSE OnDisk(i - 1)]
  BY <1>4, <1>8, Zenon DEF WrittenBack
<1>10. \A i \in 1 .. n : (IF i - 1 \in pages THEN dirty[i - 1] ELSE OnDisk(i - 1)) \in Page
  <2>1. \A i \in 1 .. n : i - 1 \in Nat
    BY <1>6
  <2> QED
    BY <1>2, <2>1, PagesArePages, Zenon
<1>11. file \in Seq(Page) /\ Len(file) = n
  <2>1. file \in [1 .. n -> Page]
    BY <1>9, <1>10, Zenon
  <2> QED
    BY <1>6, <2>1
<1>12. ASSUME NEW p \in Nat
       PROVE  (IF p < Len(file) THEN file[p + 1] ELSE Zeros(PAGE_SIZE))
                = IF p \in pages THEN dirty[p] ELSE OnDisk(p)
  <2>1. CASE p < n
    <3>1. PICK i \in 1 .. n : i = p + 1 /\ i - 1 = p
      BY <1>6, <2>1
    <3>2. file[i] = IF i - 1 \in pages THEN dirty[i - 1] ELSE OnDisk(i - 1)
      BY <1>9, <3>1, Zenon
    <3> QED
      BY <1>11, <2>1, <3>1, <3>2, Zenon
  <2>2. CASE ~(p < n)
    <3>1. p \notin pages /\ ~(p < size)
      BY <1>6, <1>7, <2>2
    <3> QED
      BY <1>1, <1>11, <2>2, <3>1, Zenon DEF OnDisk
  <2> QED
    BY <2>1, <2>2
<1> QED
  BY <1>1, <1>6, <1>8, <1>11, <1>12, Zenon DEF IsWrittenBack

\* What is then said of the file is true of its pages.
LEMMA SavedTable ==
  ASSUME Ghosts, NEW pages
  PROVE  /\ IsTable(Saved(pages))
         /\ \A k \in Keys \ moved :
              Saved(pages)[k].value # Nothing => IsOn(k, Saved(pages)[k].page, kept)
         /\ \A k \in Keys \ moved : \A p :
              IsOn(k, p, Saved(pages)) <=> IF p \in pages THEN IsOn(k, p, kept) ELSE IsOn(k, p, stored)
         /\ \A k \in Keys \ moved : \A p :
              IsOn(k, p, Saved(pages)) =>
                Saved(pages)[k].value = IF p \in pages THEN kept[k].value ELSE stored[k].value
<1>1. DOMAIN Saved(pages) = Keys
      /\ \A k \in Keys : Saved(pages)[k] = IF kept[k].page \in pages THEN kept[k] ELSE stored[k]
  BY Zenon DEF Saved
<1>2. IsTable(kept) /\ IsTable(stored)
      /\ \A k \in Keys \ moved : stored[k].value # Nothing => IsOn(k, stored[k].page, kept)
  BY DEF Ghosts
<1>3. IsTable(Saved(pages))
  BY <1>1, <1>2, Zenon DEF IsTable
<1>4. \A k \in Keys \ moved :
        Saved(pages)[k].value # Nothing => IsOn(k, Saved(pages)[k].page, kept)
  BY <1>1, <1>2, Zenon DEF IsOn
<1>5. ASSUME NEW k \in Keys \ moved, NEW p
      PROVE  /\ IsOn(k, p, Saved(pages)) <=>
                  IF p \in pages THEN IsOn(k, p, kept) ELSE IsOn(k, p, stored)
             /\ IsOn(k, p, Saved(pages)) =>
                  Saved(pages)[k].value = IF p \in pages THEN kept[k].value ELSE stored[k].value
  BY <1>1, <1>2, Zenon DEF IsOn
<1> QED
  BY <1>3, <1>4, <1>5, Zenon

\* A page is sound in the file, whether it was written or not.
LEMMA SavedSound ==
  ASSUME StoreInv, NEW pages \in SUBSET DOMAIN dirty, NEW p \in allocatedPages \ mixed
  PROVE  Sound(IF p \in pages THEN dirty[p] ELSE OnDisk(p), p, Saved(pages), moved)
<1>1. Sound(getPage(dirty, p), p, kept, moved) /\ Sound(OnDisk(p), p, stored, moved)
  BY Zenon DEF StoreInv, PagesSound
<1>2. \A k \in Keys \ moved :
        /\ IsOn(k, p, Saved(pages)) <=> IF p \in pages THEN IsOn(k, p, kept) ELSE IsOn(k, p, stored)
        /\ IsOn(k, p, Saved(pages)) =>
             Saved(pages)[k].value = IF p \in pages THEN kept[k].value ELSE stored[k].value
  BY SavedTable, Zenon DEF StoreInv
<1>3. CASE p \in pages
  <2>1. getPage(dirty, p) = dirty[p]
    BY <1>3, Zenon DEF getPage
  <2>2. Sound(getPage(dirty, p), p, Saved(pages), moved)
    <3>1. \A k \in Keys \ moved : /\ IsOn(k, p, Saved(pages)) <=> IsOn(k, p, kept)
                                  /\ IsOn(k, p, kept) => Saved(pages)[k].value = kept[k].value
      BY <1>2, <1>3, Zenon
    <3> QED
      BY <1>1, <3>1, SoundSame
  <2> QED
    BY <1>3, <2>1, <2>2, Zenon
<1>4. CASE p \notin pages
  <2>1. Sound(OnDisk(p), p, Saved(pages), moved)
    <3>1. \A k \in Keys \ moved : /\ IsOn(k, p, Saved(pages)) <=> IsOn(k, p, stored)
                                  /\ IsOn(k, p, stored) => Saved(pages)[k].value = stored[k].value
      BY <1>2, <1>4, Zenon
    <3> QED
      BY <1>1, <3>1, SoundSame
  <2> QED
    BY <1>4, <2>1, Zenon
<1> QED
  BY <1>3, <1>4

\* A flush, whichever pages it writes.
LEMMA FlushPreserves ==
  ASSUME StoreInv, FlushAll
  PROVE  StoreInv'
<1>0. Shape /\ Ghosts /\ PagesSound /\ MapRight
  BY DEF StoreInv
<1>1. PICK pages \in SUBSET DOMAIN dirty :
        /\ disk' = WrittenBack(pages) /\ dirty' = StillDirty(pages) /\ stored' = Saved(pages)
        /\ UNCHANGED <<allocatedPages, keyToPage, hung, run, kept, moved, mixed, moves>>
  BY Zenon DEF FlushAll
<1>2. /\ allocatedPages' = allocatedPages /\ keyToPage' = keyToPage /\ hung' = hung /\ run' = run
      /\ kept' = kept /\ moved' = moved /\ mixed' = mixed
  BY <1>1
<1>3. PICK last \in Nat : allocatedPages = 0 .. last /\ last <= run
  BY <1>0 DEF Shape
<1>4. IsWrittenBack(disk', pages, last)
  BY <1>0, <1>1, <1>3, WrittenBackFile
<1>5. DOMAIN dirty' = DOMAIN dirty \ pages /\ \A p \in DOMAIN dirty \ pages : dirty'[p] = dirty[p]
  BY <1>1, Zenon DEF StillDirty
<1>6. Shape'
  <2>1. /\ DOMAIN dirty \subseteq allocatedPages /\ \A p \in DOMAIN dirty : dirty[p] \in Page
        /\ mixed \subseteq allocatedPages /\ moved \subseteq Keys /\ (mixed = {} => moved = {})
        /\ hung \in BOOLEAN /\ run \in 1 .. MaxRun /\ DOMAIN keyToPage \subseteq Keys
        /\ \A k \in DOMAIN keyToPage : keyToPage[k] \in allocatedPages
    BY <1>0, Zenon DEF Shape
  <2>2. /\ disk' \in Seq(Page)
        /\ \E z \in Nat : /\ allocatedPages = 0 .. z /\ z <= run
                          /\ z <= Len(disk') /\ Len(disk') <= z + 1
    BY <1>3, <1>4, Zenon DEF IsWrittenBack
  <2> QED
    BY <1>2, <1>5, <2>1, <2>2, Zenon DEF Shape
<1>7. Ghosts'
  <2>1. IsTable(stored') /\ IsTable(kept')
    BY <1>0, <1>1, <1>2, SavedTable, Zenon DEF Ghosts
  <2>2. \A k \in Keys \ moved : stored'[k].value # Nothing => IsOn(k, stored'[k].page, kept)
    BY <1>0, <1>1, SavedTable, Zenon
  <2> QED
    BY <1>2, <2>1, <2>2, Zenon DEF Ghosts, IsTable, IsOn
<1>8. PagesSound'
  <2>1. ASSUME NEW p \in Nat PROVE OnDisk(p)' = IF p \in pages THEN dirty[p] ELSE OnDisk(p)
    BY <1>4, Zenon DEF IsWrittenBack, OnDisk
  <2>2. ASSUME NEW p \in Nat PROVE getPage(dirty, p)' = getPage(dirty, p)
    <3>1. getPage(dirty, p)' = IF p \in DOMAIN dirty' THEN dirty'[p] ELSE OnDisk(p)'
      BY Zenon DEF getPage
    <3> QED
      BY <1>1, <1>5, <2>1, <3>1, Zenon DEF getPage
  <2>3. ASSUME NEW q \in allocatedPages' \ mixed'
        PROVE  Sound(getPage(dirty, q), q, kept, moved)' /\ Sound(OnDisk(q), q, stored, moved)'
    <3>1. q \in Nat /\ q \in allocatedPages \ mixed
      BY <1>2, <1>3, <2>3
    <3>2. Sound(getPage(dirty, q), q, kept, moved)
      BY <1>0, <3>1, Zenon DEF PagesSound
    <3>3. Sound(IF q \in pages THEN dirty[q] ELSE OnDisk(q), q, Saved(pages), moved)
      BY <3>1, SavedSound
    <3>4. Sound(getPage(dirty, q)', q, kept', moved') /\ Sound(OnDisk(q)', q, stored', moved')
      BY <1>1, <1>2, <2>1, <2>2, <3>1, <3>2, <3>3, Zenon
    <3> QED
      BY <3>4
  <2> QED
    BY <2>3, Zenon DEF PagesSound
<1>9. MapRight'
  BY <1>0, <1>2, Zenon DEF MapRight
<1> QED
  BY <1>6, <1>7, <1>8, <1>9 DEF StoreInv

\* The pairs of a key and a page that open comes by.
FoundOnOpen(file) ==
  UNION {{<<KeyAt(file[i], o), i - 1>> : o \in Range(IndexedOf(file[i]))} : i \in DOMAIN file}

PagesWith(file, k) == {f[2] : f \in {f \in FoundOnOpen(file) : f[1] = k}}

\* The map names one of the pages that have the key.
LEMMA IndexedPages ==
  ASSUME NEW file \in Seq(Page)
  PROVE  /\ \A k : k \in DOMAIN Indexed(file) <=> k \in Keys /\ PagesWith(file, k) # {}
         /\ \A k \in DOMAIN Indexed(file) :
              /\ Indexed(file)[k] = Max(PagesWith(file, k))
              /\ Indexed(file)[k] \in Nat /\ Indexed(file)[k] < Len(file)
<1>1. PICK n \in Nat : n = Len(file) /\ DOMAIN file = 1 .. n
  BY SeqElements
<1>2. Indexed(file) = [k \in {k \in Keys : \E f \in FoundOnOpen(file) : f[1] = k} |->
                         Max(PagesWith(file, k))]
  BY Zenon DEF Indexed, FoundOnOpen, PagesWith
<1>3. \A k : k \in DOMAIN Indexed(file) <=> k \in Keys /\ PagesWith(file, k) # {}
  <2>1. \A k : PagesWith(file, k) # {} <=> \E f \in FoundOnOpen(file) : f[1] = k
    <3> TAKE k
    <3>1. ASSUME NEW f \in FoundOnOpen(file), f[1] = k PROVE f[2] \in PagesWith(file, k)
      BY <3>1, Zenon DEF PagesWith
    <3>2. ASSUME NEW x \in PagesWith(file, k) PROVE \E f \in FoundOnOpen(file) : f[1] = k
      BY <3>2, Zenon DEF PagesWith
    <3> QED
      BY <3>1, <3>2
  <2>2. DOMAIN Indexed(file) = {k \in Keys : \E f \in FoundOnOpen(file) : f[1] = k}
    BY <1>2, Zenon
  <2> QED
    BY <2>1, <2>2, Zenon
<1>4. ASSUME NEW f \in FoundOnOpen(file) PROVE f[2] \in 0 .. n /\ f[2] < n
  <2>1. PICK i \in 1 .. n : f \in {<<KeyAt(file[i], o), i - 1>> : o \in Range(IndexedOf(file[i]))}
    BY <1>1, Zenon DEF FoundOnOpen
  <2>2. PICK o : f = <<KeyAt(file[i], o), i - 1>>
    BY <2>1
  <2>3. f[2] = i - 1
    BY <2>2
  <2> QED
    BY <2>3
<1>5. ASSUME NEW k \in DOMAIN Indexed(file)
      PROVE  /\ Indexed(file)[k] = Max(PagesWith(file, k))
             /\ Indexed(file)[k] \in Nat /\ Indexed(file)[k] < Len(file)
  <2>1. PICK S : S = PagesWith(file, k)
    OBVIOUS
  <2>2. \A x \in S : x \in 0 .. n /\ x < n
    BY <1>4, <2>1, Zenon DEF PagesWith
  <2>3. S # {} /\ S \subseteq 0 .. n
    BY <1>3, <2>1, <2>2, Zenon
  <2>4. Max(S) \in S
    BY <2>3, GreatestNumber
  <2>5. Indexed(file)[k] = Max(S)
    BY <1>2, <2>1, Zenon
  <2>6. Max(S) \in Nat /\ Max(S) < n
    BY <2>2, <2>4
  <2> QED
    BY <1>1, <2>1, <2>5, <2>6, Zenon
<1> QED
  BY <1>3, <1>5, Zenon

\* When every page has what the table says, the map has what it says.
LEMMA IndexedRight ==
  ASSUME NEW file \in Seq(Page), NEW table,
         \A i \in 1 .. Len(file) : Sound(file[i], i - 1, table, {}), NEW k \in Keys
  PROVE  /\ \A p \in Nat : p < Len(file) /\ IsOn(k, p, table) =>
                             k \in DOMAIN Indexed(file) /\ Indexed(file)[k] = p
         /\ table[k].value = Nothing => k \notin DOMAIN Indexed(file)
<1>1. PICK n \in Nat : n = Len(file) /\ DOMAIN file = 1 .. n /\ \A i \in 1 .. n : file[i] \in Page
  BY SeqElements
<1>2. ASSUME NEW i \in 1 .. n
      PROVE  Listed(file[i], Range(IndexedOf(file[i])), i - 1, table, {})
  <2>1. file[i] \in Page /\ Sound(file[i], i - 1, table, {})
    BY <1>1
  <2> QED
    BY <2>1, SoundWalks
<1>3. ASSUME NEW x \in PagesWith(file, k) PROVE IsOn(k, x, table)
  <2>1. PICK f \in FoundOnOpen(file) : f[1] = k /\ f[2] = x
    BY Zenon DEF PagesWith
  <2>2. PICK i \in 1 .. n : f \in {<<KeyAt(file[i], o), i - 1>> : o \in Range(IndexedOf(file[i]))}
    BY <1>1, Zenon DEF FoundOnOpen
  <2>3. PICK o \in Range(IndexedOf(file[i])) : f = <<KeyAt(file[i], o), i - 1>>
    BY <2>2
  <2>4. KeyAt(file[i], o) = k /\ i - 1 = x
    BY <2>1, <2>3
  <2>5. IsOn(KeyAt(file[i], o), i - 1, table)
    <3>1. Listed(file[i], Range(IndexedOf(file[i])), i - 1, table, {})
      BY <1>2
    <3>2. PICK j \in Keys : /\ KeyAt(file[i], o) = j
                            /\ j \in {} \/ (IsOn(j, i - 1, table) /\ table[j].value = ValueAt(file[i], o))
      BY <2>3, <3>1, Zenon DEF Listed
    <3>3. j \notin {}
      OBVIOUS
    <3> QED
      BY <3>2, <3>3, Zenon
  <2> QED
    BY <2>4, <2>5, Zenon
<1>4. ASSUME NEW p \in Nat, p < n, IsOn(k, p, table) PROVE p \in PagesWith(file, k)
  <2>1. PICK i \in 1 .. n : i = p + 1 /\ i - 1 = p
    BY <1>4
  <2>2. PICK o \in Range(IndexedOf(file[i])) : KeyAt(file[i], o) = k
    <3>1. IsOn(k, i - 1, table)
      BY <1>4, <2>1
    <3> QED
      BY <1>2, <3>1 DEF Listed
  <2>3. PICK f : f = <<KeyAt(file[i], o), i - 1>>
    OBVIOUS
  <2>4. f \in FoundOnOpen(file)
    <3>1. f \in {<<KeyAt(file[i], x), i - 1>> : x \in Range(IndexedOf(file[i]))}
      BY <2>3
    <3> QED
      BY <1>1, <3>1, Zenon DEF FoundOnOpen
  <2>5. f[1] = k /\ f[2] = p
    BY <2>1, <2>2, <2>3
  <2> QED
    BY <2>4, <2>5, Zenon DEF PagesWith
<1>5. ASSUME NEW p \in Nat, p < Len(file), IsOn(k, p, table)
      PROVE  k \in DOMAIN Indexed(file) /\ Indexed(file)[k] = p
  <2>1. PagesWith(file, k) = {p}
    <3>1. \A x \in PagesWith(file, k) : x = p
      BY <1>3, <1>5, Zenon DEF IsOn
    <3>2. p \in PagesWith(file, k)
      BY <1>1, <1>4, <1>5
    <3> QED
      BY <3>1, <3>2
  <2>2. Max({p}) = p
    BY DEF Max
  <2>3. k \in DOMAIN Indexed(file)
    BY <2>1, IndexedPages
  <2>4. Indexed(file)[k] = Max(PagesWith(file, k))
    BY <2>3, IndexedPages
  <2> QED
    BY <2>1, <2>2, <2>3, <2>4, Zenon
<1>6. table[k].value = Nothing => k \notin DOMAIN Indexed(file)
  <2>1. table[k].value = Nothing => PagesWith(file, k) = {}
    BY <1>3, Zenon DEF IsOn
  <2> QED
    BY <2>1, IndexedPages, Zenon
<1> QED
  BY <1>5, <1>6

\* The pages of the file after the end of a run, and the one behind them, are sound.
LEMMA FileSound ==
  ASSUME StoreInv, NEW pages \in SUBSET DOMAIN dirty, NEW last \in Nat, allocatedPages = 0 .. last,
         NEW file, IsWrittenBack(file, pages, last)
  PROVE  /\ 0 .. Len(file) \subseteq Nat /\ allocatedPages \subseteq 0 .. Len(file)
         /\ \A p \in 0 .. Len(file) \ mixed :
              Sound(IF p < Len(file) THEN file[p + 1] ELSE Zeros(PAGE_SIZE), p, Saved(pages), moved)
<1>1. Len(file) \in Nat /\ last <= Len(file) /\ Len(file) <= last + 1 /\ Len(disk) <= Len(file)
  BY DEF IsWrittenBack
<1>2. allocatedPages \subseteq 0 .. Len(file)
  BY <1>1
<1>3. ASSUME NEW p \in 0 .. Len(file), p \notin mixed
      PROVE  Sound(IF p < Len(file) THEN file[p + 1] ELSE Zeros(PAGE_SIZE), p, Saved(pages), moved)
  <2>1. CASE p \in allocatedPages
    <3>1. p \in Nat
      OBVIOUS
    <3>2. Sound(IF p \in pages THEN dirty[p] ELSE OnDisk(p), p, Saved(pages), moved)
      BY <1>3, <2>1, SavedSound
    <3> QED
      BY <3>1, <3>2, Zenon DEF IsWrittenBack
  <2>2. CASE p \notin allocatedPages
    <3>1. ~(p < Len(file))
      BY <1>1, <2>2
    <3>2. \A k \in Keys : ~IsOn(k, p, Saved(pages))
      <4>1. IsTable(Saved(pages))
        BY SavedTable DEF StoreInv
      <4> QED
        BY <2>2, <4>1, Zenon DEF IsOn, IsTable
    <3>3. Listed(Zeros(PAGE_SIZE), {}, p, Saved(pages), moved)
      BY <3>2, Zenon DEF Listed
    <3>4. Sound(Zeros(PAGE_SIZE), p, Saved(pages), moved)
      BY <3>3, ZeroPage, Zenon DEF Sound
    <3> QED
      BY <3>1, <3>4, Zenon
  <2> QED
    BY <2>1, <2>2
<1> QED
  BY <1>1, <1>2, <1>3

\* The map that the next open makes of it, when nothing was damaged.
LEMMA IndexedSaved ==
  ASSUME StoreInv, mixed = {}, NEW pages \in SUBSET DOMAIN dirty, NEW last \in Nat,
         allocatedPages = 0 .. last, NEW file, IsWrittenBack(file, pages, last), NEW k \in Keys,
         Saved(pages)[k].value # Nothing
  PROVE  k \in DOMAIN Indexed(file) /\ Indexed(file)[k] = Saved(pages)[k].page
<1>1. moved = {}
  BY DEF StoreInv, Shape
<1>2. file \in Seq(Page) /\ Len(file) \in Nat
  BY DEF IsWrittenBack
<1>3. \A p \in 0 .. Len(file) :
        Sound(IF p < Len(file) THEN file[p + 1] ELSE Zeros(PAGE_SIZE), p, Saved(pages), {})
  BY <1>1, FileSound
<1>4. ASSUME NEW i \in 1 .. Len(file) PROVE Sound(file[i], i - 1, Saved(pages), {})
  <2>1. PICK p \in 0 .. Len(file) : p = i - 1 /\ p < Len(file) /\ p + 1 = i
    BY <1>2
  <2> QED
    BY <1>3, <2>1, Zenon
<1>5. PICK p : p = Saved(pages)[k].page
  OBVIOUS
<1>6. IsOn(k, p, Saved(pages)) /\ p \in allocatedPages
  BY <1>5, SavedTable, Zenon DEF StoreInv, IsOn, IsTable
<1>7. p \in Nat /\ p \in 0 .. Len(file)
  BY <1>6, FileSound
<1>8. p < Len(file)
  <2> SUFFICES ASSUME ~(p < Len(file)) PROVE FALSE
    OBVIOUS
  <2>1. Sound(Zeros(PAGE_SIZE), p, Saved(pages), {})
    BY <1>3, <1>7
  <2>2. Range(RecordsOf(Zeros(PAGE_SIZE))) = {}
    BY ZeroPage, WalksAgree
  <2>3. Listed(Zeros(PAGE_SIZE), {}, p, Saved(pages), {})
    BY <2>1, <2>2, ZeroPage, SoundWalks
  <2> QED
    BY <1>6, <2>3, Zenon DEF Listed
<1> QED
  BY <1>2, <1>4, <1>5, <1>6, <1>7, <1>8, IndexedRight

\* The end of a run and the beginning of the next.
LEMMA ReopenPreserves ==
  ASSUME StoreInv, NEW pages \in SUBSET DOMAIN dirty, Reopen(pages)
  PROVE  StoreInv'
<1>0. Shape /\ Ghosts /\ PagesSound /\ MapRight
  BY DEF StoreInv
<1>1. /\ run < MaxRun /\ run' = run + 1 /\ disk' = WrittenBack(pages) /\ dirty' = <<>>
      /\ allocatedPages' = 0 .. Len(disk') /\ keyToPage' = Indexed(disk') /\ hung' = FALSE
      /\ stored' = Saved(pages) /\ kept' = Saved(pages) /\ moved' = moved /\ mixed' = mixed
  BY DEF Reopen
<1>2. PICK last \in Nat : allocatedPages = 0 .. last /\ last <= run
  BY <1>0 DEF Shape
<1>3. PICK file : file = disk'
  OBVIOUS
<1>4. IsWrittenBack(file, pages, last)
  BY <1>0, <1>1, <1>2, <1>3, WrittenBackFile
<1>5. file \in Seq(Page) /\ Len(file) \in Nat /\ Len(file) <= last + 1
  BY <1>4 DEF IsWrittenBack
<1>6. DOMAIN dirty' = {}
  BY <1>1
<1>7. allocatedPages' = 0 .. Len(file) /\ 0 .. Len(file) \subseteq Nat
      /\ allocatedPages \subseteq allocatedPages'
  BY <1>1, <1>2, <1>3, <1>4, FileSound
<1>8. Shape'
  <2>1. mixed' \subseteq allocatedPages' /\ moved' \subseteq Keys /\ (mixed' = {} => moved' = {})
    <3>1. mixed \subseteq allocatedPages /\ moved \subseteq Keys /\ (mixed = {} => moved = {})
      BY <1>0, Zenon DEF Shape
    <3> QED
      BY <1>1, <1>7, <3>1, Zenon
  <2>2. run' \in 1 .. MaxRun
    <3>1. run \in 1 .. MaxRun /\ MaxRun \in Nat
      BY <1>0, PageStoreAssumption, Zenon DEF Shape
    <3> QED
      BY <1>1, <3>1
  <2>3. \E z \in Nat : /\ allocatedPages' = 0 .. z /\ z <= run'
                       /\ z <= Len(disk') /\ Len(disk') <= z + 1
    <3>1. Len(file) <= run'
      <4>1. run \in Nat
        BY <1>0 DEF Shape
      <4> QED
        BY <1>1, <1>2, <1>5, <4>1
    <3>2. Len(file) <= Len(file) /\ Len(file) <= Len(file) + 1
      BY <1>5
    <3> QED
      BY <1>3, <1>5, <1>7, <3>1, <3>2, Zenon
  <2>4. DOMAIN keyToPage' \subseteq Keys /\ \A k \in DOMAIN keyToPage' : keyToPage'[k] \in allocatedPages'
    <3>1. keyToPage' = Indexed(file)
      BY <1>1, <1>3, Zenon
    <3>2. \A k : k \in DOMAIN Indexed(file) => k \in Keys
      BY <1>5, IndexedPages
    <3>3. ASSUME NEW k \in DOMAIN Indexed(file) PROVE Indexed(file)[k] \in 0 .. Len(file)
      <4>1. Indexed(file)[k] \in Nat /\ Indexed(file)[k] < Len(file)
        BY <1>5, IndexedPages
      <4> QED
        BY <1>5, <4>1
    <3> QED
      BY <1>7, <3>1, <3>2, <3>3, Zenon
  <2>5. hung' \in BOOLEAN /\ disk' \in Seq(Page)
    BY <1>1, <1>3, <1>5
  <2> QED
    BY <1>6, <2>1, <2>2, <2>3, <2>4, <2>5, Zenon DEF Shape
<1>9. Ghosts'
  <2>1. IsTable(Saved(pages))
    BY <1>0, SavedTable
  <2>2. DOMAIN kept' = Keys
        /\ \A k \in Keys : /\ kept'[k] = [value |-> kept'[k].value, page |-> kept'[k].page]
                           /\ kept'[k].page \in allocatedPages'
                           /\ kept'[k].value \in Values(k) \cup {Nothing}
    BY <1>1, <1>7, <2>1, Zenon DEF IsTable
  <2>3. kept' = stored'
    BY <1>1
  <2> QED
    BY <2>2, <2>3, Zenon DEF Ghosts, IsTable, IsOn
<1>10. PagesSound'
  <2>1. \A p : OnDisk(p)' = IF p < Len(file) THEN file[p + 1] ELSE Zeros(PAGE_SIZE)
    BY <1>3, Zenon DEF OnDisk
  <2>2. \A p : getPage(dirty, p)' = OnDisk(p)'
    BY <1>6, Zenon DEF getPage
  <2>3. ASSUME NEW q \in allocatedPages' \ mixed'
        PROVE  Sound(getPage(dirty, q), q, kept, moved)' /\ Sound(OnDisk(q), q, stored, moved)'
    <3>1. Sound(IF q < Len(file) THEN file[q + 1] ELSE Zeros(PAGE_SIZE), q, Saved(pages), moved)
      <4>1. q \in 0 .. Len(file) \ mixed
        BY <1>1, <1>7, <2>3, Zenon
      <4> QED
        BY <1>2, <1>4, <4>1, FileSound
    <3>2. Sound(getPage(dirty, q)', q, kept', moved') /\ Sound(OnDisk(q)', q, stored', moved')
      BY <1>1, <2>1, <2>2, <3>1, Zenon
    <3> QED
      BY <3>2
  <2> QED
    BY <2>3, Zenon DEF PagesSound
<1>11. MapRight'
  <2> SUFFICES ASSUME mixed' = {} \/ run' = 1, NEW k \in Keys, kept'[k].value # Nothing
               PROVE  k \in DOMAIN keyToPage' /\ keyToPage'[k] = kept'[k].page
    BY Zenon DEF MapRight
  <2>1. mixed = {}
    <3>1. run \in Nat /\ run # 0
      BY <1>0 DEF Shape
    <3>2. run' # 1
      BY <1>1, <3>1
    <3> QED
      BY <1>1, <3>2
  <2>2. Saved(pages)[k].value # Nothing
    BY <1>1
  <2>3. k \in DOMAIN Indexed(file) /\ Indexed(file)[k] = Saved(pages)[k].page
    BY <1>2, <1>4, <2>1, <2>2, IndexedSaved
  <2> QED
    BY <1>1, <1>3, <2>3, Zenon
<1> QED
  BY <1>8, <1>9, <1>10, <1>11 DEF StoreInv

\* Every step keeps the invariant.
LEMMA NextInv ==
  ASSUME StoreInv, [Next]_vars
  PROVE  StoreInv'
<1>1. ASSUME NEW k \in Keys, NEW v \in Values(k), PutRecord(k, v) PROVE StoreInv'
  BY <1>1, PutPreserves
<1>2. ASSUME NEW k \in Keys, GetRecord(k, Records(dirty)) PROVE StoreInv'
  BY <1>2, GetPreserves
<1>3. ASSUME NEW k \in Keys, DeleteRecord(k, Records(dirty)) PROVE StoreInv'
  BY <1>3, DeletePreserves
<1>4. CASE FlushAll
  BY <1>4, FlushPreserves
<1>5. CASE Close
  <2>1. Reopen(DOMAIN dirty) /\ DOMAIN dirty \in SUBSET DOMAIN dirty
    BY <1>5 DEF Close
  <2> QED
    BY <2>1, ReopenPreserves
<1>6. CASE Crash
  <2>1. Reopen({}) /\ {} \in SUBSET DOMAIN dirty
    BY <1>6 DEF Crash
  <2> QED
    BY <2>1, ReopenPreserves
<1>7. CASE UNCHANGED vars
  <2>1. /\ disk' = disk /\ dirty' = dirty /\ allocatedPages' = allocatedPages
        /\ keyToPage' = keyToPage /\ hung' = hung /\ run' = run /\ kept' = kept
        /\ stored' = stored /\ moved' = moved /\ mixed' = mixed
    BY <1>7 DEF vars, ghosts
  <2>2. StoreInv' <=> StoreInv
    <3>1. Shape' <=> Shape
      BY <2>1, Zenon DEF Shape
    <3>2. Ghosts' <=> Ghosts
      BY <2>1, Zenon DEF Ghosts, IsTable, IsOn
    <3>3. \A p : OnDisk(p)' = OnDisk(p) /\ getPage(dirty, p)' = getPage(dirty, p)
      BY <2>1, SamePages, Zenon
    <3>4. PagesSound => PagesSound'
      <4> SUFFICES ASSUME PagesSound, NEW q \in allocatedPages' \ mixed'
                   PROVE  /\ Sound(getPage(dirty, q), q, kept, moved)'
                          /\ Sound(OnDisk(q), q, stored, moved)'
        BY Zenon DEF PagesSound
      <4>1. Sound(getPage(dirty, q), q, kept, moved) /\ Sound(OnDisk(q), q, stored, moved)
        BY <2>1, Zenon DEF PagesSound
      <4>2. Sound(getPage(dirty, q)', q, kept', moved') /\ Sound(OnDisk(q)', q, stored', moved')
        BY <2>1, <3>3, <4>1, Zenon
      <4> QED
        BY <4>2
    <3>5. MapRight' <=> MapRight
      BY <2>1, Zenon DEF MapRight
    <3> QED
      BY <3>1, <3>2, <3>4, <3>5 DEF StoreInv
  <2> QED
    BY <2>2
<1> QED
  BY <1>1, <1>2, <1>3, <1>4, <1>5, <1>6, <1>7, Zenon DEF Next

------------------------------------------------------------------------------
(* What the operations return *)

\* With the table of what should be there, the pages and the map that leads to them,
\* getRecord returns what should be there.
LEMMA LookupRight ==
  ASSUME StoreInv, NEW k \in Keys \ moved, kept[k].value # Nothing, kept[k].page \notin mixed,
         mixed = {} \/ run = 1
  PROVE  Lookup(Records(dirty), keyToPage, k) = kept[k].value
<1>1. Shape /\ Ghosts /\ PagesSound /\ MapRight
  BY DEF StoreInv
<1>2. PICK p \in allocatedPages : p = kept[k].page /\ p \notin mixed
  BY <1>1, Zenon DEF Ghosts, IsTable
<1>3. getPage(dirty, p) \in Page
  BY <1>1, PagesArePages
<1>4. Sound(getPage(dirty, p), p, kept, moved)
  BY <1>1, <1>2, Zenon DEF PagesSound
<1>5. IsOn(k, p, kept) /\ k \in DOMAIN keyToPage /\ keyToPage[k] = p
  BY <1>1, <1>2, Zenon DEF MapRight, IsOn
<1> QED
  BY <1>3, <1>4, <1>5, LookupFinds

\* In a store without damaged pages the operations read what the tables say.
LEMMA MemIsKept ==
  ASSUME StoreInv, mixed = {}
  PROVE  Mem = [k \in Keys |-> kept[k].value] /\ File = [k \in Keys |-> stored[k].value]
<1>1. Shape /\ Ghosts /\ PagesSound /\ moved = {}
  BY DEF StoreInv, Shape
<1>2. \A p \in allocatedPages :
        /\ getPage(dirty, p) \in Page /\ Sound(getPage(dirty, p), p, kept, moved)
        /\ getPage(<<>>, p) = OnDisk(p) /\ OnDisk(p) \in Page /\ Sound(OnDisk(p), p, stored, moved)
  <2>1. \A p \in allocatedPages : getPage(<<>>, p) = OnDisk(p)
    BY DEF getPage
  <2>2. \A p \in allocatedPages : getPage(dirty, p) \in Page /\ OnDisk(p) \in Page
    BY <1>1, PagesArePages, Zenon
  <2> QED
    BY <1>1, <2>1, <2>2, Zenon DEF PagesSound
<1>3. ASSUME NEW k \in Keys PROVE Lookup(Records(dirty), keyToPage, k) = kept[k].value
  <2>1. k \in Keys \ moved /\ kept[k].page \notin mixed
    BY <1>1
  <2>2. CASE kept[k].value # Nothing
    BY <2>1, <2>2, LookupRight
  <2>3. CASE kept[k].value = Nothing
    <3>1. Lookup(Records(dirty), keyToPage, k) = Nothing
      BY <1>2, <2>1, <2>3, LookupFindsNone
    <3> QED
      BY <2>3, <3>1
  <2> QED
    BY <2>2, <2>3
<1>4. ASSUME NEW k \in Keys PROVE Lookup(Records(<<>>), Indexed(disk), k) = stored[k].value
  <2>1. k \in Keys \ moved
    BY <1>1
  <2>2. CASE stored[k].value = Nothing
    <3>1. \A p \in allocatedPages : /\ getPage(<<>>, p) \in Page
                                    /\ Sound(getPage(<<>>, p), p, stored, moved)
      BY <1>2, Zenon
    <3>2. Lookup(Records(<<>>), Indexed(disk), k) = Nothing
      BY <2>1, <2>2, <3>1, LookupFindsNone
    <3> QED
      BY <2>2, <3>2
  <2>3. CASE stored[k].value # Nothing
    <3>1. PICK p \in allocatedPages : p = stored[k].page
      BY <1>1, Zenon DEF Ghosts, IsTable
    <3>2. IsOn(k, p, stored)
      BY <2>3, <3>1 DEF IsOn
    <3>3. p \in Nat /\ disk \in Seq(Page) /\ Len(disk) \in Nat
      BY <1>1, PagesArePages DEF Shape
    <3>4. p < Len(disk)
      <4> SUFFICES ASSUME ~(p < Len(disk)) PROVE FALSE
        OBVIOUS
      <4>1. Sound(Zeros(PAGE_SIZE), p, stored, moved)
        BY <1>2, Zenon DEF OnDisk
      <4>2. Range(RecordsOf(Zeros(PAGE_SIZE))) = {}
        BY ZeroPage, WalksAgree
      <4>3. Listed(Zeros(PAGE_SIZE), {}, p, stored, moved)
        BY <4>1, <4>2, ZeroPage, SoundWalks
      <4> QED
        BY <2>1, <3>2, <4>3, Zenon DEF Listed
    <3>5. ASSUME NEW i \in 1 .. Len(disk) PROVE Sound(disk[i], i - 1, stored, {})
      <4>1. PICK q \in allocatedPages : q = i - 1 /\ q < Len(disk) /\ q + 1 = i
        <5>1. PICK last \in Nat : allocatedPages = 0 .. last /\ Len(disk) <= last + 1
          BY <1>1 DEF Shape
        <5>2. i - 1 \in 0 .. last /\ i - 1 < Len(disk) /\ i - 1 + 1 = i
          BY <3>3, <5>1
        <5> QED
          BY <5>1, <5>2
      <4>2. OnDisk(q) = disk[i]
        BY <4>1, Zenon DEF OnDisk
      <4> QED
        BY <1>1, <1>2, <4>1, <4>2, Zenon
    <3>6. k \in DOMAIN Indexed(disk) /\ Indexed(disk)[k] = p
      BY <3>2, <3>3, <3>4, <3>5, IndexedRight
    <3>7. getPage(<<>>, p) \in Page /\ Sound(getPage(<<>>, p), p, stored, moved)
      BY <1>2, Zenon
    <3> QED
      BY <2>1, <3>2, <3>6, <3>7, LookupFinds
  <2> QED
    BY <2>2, <2>3
<1> QED
  BY <1>3, <1>4, Zenon DEF Mem, File

\* The invariant.
THEOREM StoreInvariant == Spec => []StoreInv
BY InitInv, NextInv, PTL DEF Spec

\* Pages, page numbers, map and ghosts have their types in every run of the program,
\* for pages of any size (storage.hpp, storage.cpp:69-130, 151-300, 644-779).
THEOREM StoreTypeCorrect == Spec => []StoreTypeOK
<1>1. StoreInv => StoreTypeOK
  <2> SUFFICES ASSUME StoreInv PROVE StoreTypeOK
    OBVIOUS
  <2>1. Shape
    BY DEF StoreInv
  <2>2. ASSUME NEW d \in Page PROVE IsPage(d)
    <3>1. DOMAIN d = 1 .. PAGE_SIZE /\ \A i \in 1 .. PAGE_SIZE : d[i] \in Byte
      BY PageBytes
    <3>2. Range(d) \subseteq Byte
      BY <3>1, Zenon DEF Range
    <3> QED
      BY <3>1, <3>2, Zenon DEF IsPage, Byte
  <2>3. \A i \in DOMAIN disk : IsPage(disk[i])
    <3>1. disk \in Seq(Page)
      BY <2>1 DEF Shape
    <3>2. \A i \in DOMAIN disk : disk[i] \in Page
      BY <3>1
    <3> QED
      BY <2>2, <3>2, Zenon
  <2>4. \A p \in DOMAIN dirty : IsPage(dirty[p])
    BY <2>1, <2>2, Zenon DEF Shape
  <2>5. allocatedPages \subseteq 0 .. MaxRun
    <3>1. PICK last \in Nat : allocatedPages = 0 .. last /\ last <= run
      BY <2>1 DEF Shape
    <3>2. run \in 1 .. MaxRun /\ MaxRun \in Nat
      BY <2>1, PageStoreAssumption, Zenon DEF Shape
    <3> QED
      BY <3>1, <3>2
  <2> QED
    BY <2>1, <2>3, <2>4, <2>5, Zenon DEF StoreTypeOK, Shape
<1> QED
  BY <1>1, StoreInvariant, PTL

\* As long as nothing was deleted or resized on its page, a key has its last value,
\* and after a crash the last one that was flushed; what was deleted elsewhere makes
\* no difference in the run in which it was (storage.cpp:151-436, 644-779).
THEOREM UndamagedRecordsStay == Spec => [](mixed = {} \/ run = 1 => RecordsStay)
<1>1. StoreInv => (mixed = {} \/ run = 1 => RecordsStay)
  <2> SUFFICES ASSUME StoreInv, mixed = {} \/ run = 1, NEW k \in Keys,
                      ~(mixed # {} /\ (k \in moved \/ kept[k].value = Nothing \/ kept[k].page \in mixed))
               PROVE  Lookup(Records(dirty), keyToPage, k) = kept[k].value
    BY Zenon DEF RecordsStay
  <2>1. CASE mixed = {}
    <3>1. Mem = [j \in Keys |-> kept[j].value]
      BY <2>1, MemIsKept
    <3>2. Mem[k] = Lookup(Records(dirty), keyToPage, k)
      BY DEF Mem
    <3> QED
      BY <3>1, <3>2
  <2>2. CASE mixed # {}
    BY <2>2, LookupRight
  <2> QED
    BY <2>1, <2>2
<1> QED
  BY <1>1, StoreInvariant, PTL

\* Until a record is deleted or resized, scanRecords returns every record with its
\* value, none twice, and nothing else
\* (storage.cpp:780-850).
THEOREM ScansAreComplete == Spec => []ScanComplete
<1>1. StoreInv => ScanComplete
  <2> SUFFICES ASSUME StoreInv, mixed = {}
               PROVE  /\ {<<r.key, r.value, r.page>> : r \in ScanRecords(dirty)}
                           = {<<k, kept[k].value, kept[k].page>> : k \in {k \in Keys : kept[k].value # Nothing}}
                      /\ \A q, r \in ScanRecords(dirty) : q.key = r.key => q = r
    BY Zenon DEF ScanComplete
  <2>1. Shape /\ Ghosts /\ moved = {}
    BY DEF StoreInv, Shape
  <2> DEFINE d(p) == getPage(dirty, p)
  <2>2. ASSUME NEW p \in allocatedPages
        PROVE  Listed(d(p), Range(ScannedOf(d(p))), p, kept, {})
    <3>1. d(p) \in Page
      BY <2>1, PagesArePages
    <3>2. Sound(d(p), p, kept, {})
      BY <2>1, Zenon DEF StoreInv, PagesSound
    <3> HIDE DEF d
    <3> QED
      BY <3>1, <3>2, SoundWalks
  <2>3. ASSUME NEW r \in ScanRecords(dirty)
        PROVE  \E p \in allocatedPages : \E o \in Range(ScannedOf(d(p))) :
                 /\ r = RecordAt(p, d(p), o)
                 /\ r.page = p /\ r.key = KeyAt(d(p), o) /\ r.value = ValueAt(d(p), o)
                 /\ r.key \in Keys /\ kept[r.key].value # Nothing
                 /\ kept[r.key].page = p /\ kept[r.key].value = r.value
    <3>1. PICK p \in allocatedPages : \E o \in Range(ScannedOf(d(p))) : r = RecordAt(p, d(p), o)
      BY Zenon DEF ScanRecords
    <3>2. PICK o \in Range(ScannedOf(d(p))) : r = RecordAt(p, d(p), o)
      BY <3>1
    <3>3. r.page = p /\ r.key = KeyAt(d(p), o) /\ r.value = ValueAt(d(p), o)
      BY <3>2 DEF RecordAt
    <3> HIDE DEF d
    <3>4. PICK k \in Keys : /\ KeyAt(d(p), o) = k
                            /\ k \in {} \/ (IsOn(k, p, kept) /\ kept[k].value = ValueAt(d(p), o))
      BY <2>2, <3>2, Zenon DEF Listed
    <3>5. k \notin {}
      OBVIOUS
    <3> QED
      BY <3>2, <3>3, <3>4, <3>5, Zenon DEF IsOn
  <2>4. ASSUME NEW k \in Keys, kept[k].value # Nothing
        PROVE  \E r \in ScanRecords(dirty) : r.key = k
    <3>1. PICK p \in allocatedPages : p = kept[k].page
      BY <2>1, Zenon DEF Ghosts, IsTable
    <3>2. IsOn(k, p, kept) /\ k \in Keys \ {}
      BY <2>4, <3>1 DEF IsOn
    <3>3. PICK o \in Range(ScannedOf(d(p))) : KeyAt(d(p), o) = k
      <4> HIDE DEF d
      <4> QED
        BY <2>2, <3>2, Zenon DEF Listed
    <3>4. PICK r : r = RecordAt(p, d(p), o)
      OBVIOUS
    <3>5. r \in {RecordAt(p, d(p), x) : x \in Range(ScannedOf(d(p)))}
      BY <3>4
    <3>6. r \in ScanRecords(dirty)
      BY <3>5, Zenon DEF ScanRecords
    <3>7. r.key = k
      BY <3>3, <3>4 DEF RecordAt
    <3> QED
      BY <3>6, <3>7
  <2>5. ASSUME NEW q \in ScanRecords(dirty), NEW r \in ScanRecords(dirty), q.key = r.key
        PROVE  q = r
    <3> HIDE DEF d
    <3>1. PICK p \in allocatedPages : \E o \in Range(ScannedOf(d(p))) :
            q = RecordAt(p, d(p), o) /\ q.key = KeyAt(d(p), o) /\ kept[q.key].page = p
      BY <2>3, Zenon
    <3>2. PICK z \in allocatedPages : \E o \in Range(ScannedOf(d(z))) :
            r = RecordAt(z, d(z), o) /\ r.key = KeyAt(d(z), o) /\ kept[r.key].page = z
      BY <2>3, Zenon
    <3>3. z = p
      BY <2>5, <3>1, <3>2, Zenon
    <3>4. PICK x \in Range(ScannedOf(d(p))) : q = RecordAt(p, d(p), x) /\ q.key = KeyAt(d(p), x)
      BY <3>1
    <3>5. PICK y \in Range(ScannedOf(d(p))) : r = RecordAt(p, d(p), y) /\ r.key = KeyAt(d(p), y)
      BY <3>2, <3>3
    <3>6. x = y
      BY <2>2, <2>5, <3>4, <3>5, Zenon DEF Listed
    <3> QED
      BY <3>4, <3>5, <3>6, Zenon
  <2>6. ASSUME NEW r \in ScanRecords(dirty)
        PROVE  /\ r.key \in {k \in Keys : kept[k].value # Nothing}
               /\ r.value = kept[r.key].value /\ r.page = kept[r.key].page
    BY <2>3, Zenon
  <2>7. \A k \in {k \in Keys : kept[k].value # Nothing} : \E r \in ScanRecords(dirty) : r.key = k
    BY <2>4, Zenon
  <2> HIDE DEF d
  <2>8. {<<r.key, r.value, r.page>> : r \in ScanRecords(dirty)}
          = {<<k, kept[k].value, kept[k].page>> : k \in {k \in Keys : kept[k].value # Nothing}}
    BY <2>6, <2>7
  <2> QED
    BY <2>5, <2>8
<1> QED
  BY <1>1, StoreInvariant, PTL

\* While nothing is damaged, each step changes what getRecord returns, and what it would
\* return after a restart, as a step of KVStore or not at all.
LEMMA KVStep ==
  ASSUME StoreInv, StoreInv', [Next]_vars, mixed' = {}
  PROVE  [KV!Next]_<<Mem, File>>
<1>1. mixed = {} /\ Shape /\ Ghosts
  <2>1. mixed \subseteq mixed'
    <3>1. ASSUME NEW k \in Keys, NEW v \in Values(k), PutRecord(k, v) PROVE mixed \subseteq mixed'
      BY <3>1, Zenon DEF PutRecord, Moved
    <3>2. ASSUME NEW k \in Keys, GetRecord(k, Records(dirty)) PROVE mixed \subseteq mixed'
      BY <3>2, Zenon DEF GetRecord, ghosts
    <3>3. ASSUME NEW k \in Keys, DeleteRecord(k, Records(dirty)) PROVE mixed \subseteq mixed'
      BY <3>3, Zenon DEF DeleteRecord, Moved
    <3>4. FlushAll \/ Close \/ Crash \/ UNCHANGED vars => mixed \subseteq mixed'
      BY Zenon DEF FlushAll, Close, Crash, Reopen, vars, ghosts
    <3> QED
      BY <3>1, <3>2, <3>3, <3>4, Zenon DEF Next
  <2> QED
    BY <2>1 DEF StoreInv
<1>2. Mem = [k \in Keys |-> kept[k].value] /\ File = [k \in Keys |-> stored[k].value]
  BY <1>1, MemIsKept
<1>3. Mem' = [k \in Keys |-> kept'[k].value] /\ File' = [k \in Keys |-> stored'[k].value]
  <2>1. (StoreInv /\ mixed = {} =>
           Mem = [k \in Keys |-> kept[k].value] /\ File = [k \in Keys |-> stored[k].value])'
    BY MemIsKept, PTL
  <2> QED
    BY <2>1
<1>4. ASSUME kept' = kept, stored' = stored PROVE UNCHANGED <<Mem, File>>
  BY <1>2, <1>3, <1>4
<1>5. ASSUME NEW k \in Keys, NEW v \in Values(k), PutRecord(k, v) PROVE [KV!Next]_<<Mem, File>>
  <2>1. stored' = stored /\ (kept' = kept \/ \E p : kept' = [kept EXCEPT ![k] = [value |-> v, page |-> p]])
    BY <1>5, Zenon DEF PutRecord
  <2>2. CASE kept' = kept
    BY <1>4, <2>1, <2>2
  <2>3. ASSUME NEW p, kept' = [kept EXCEPT ![k] = [value |-> v, page |-> p]]
        PROVE  KV!Set(k, v)
    <3>1. DOMAIN kept = Keys
      BY <1>1 DEF Ghosts, IsTable
    <3>2. kept'[k].value = v /\ \A j \in Keys \ {k} : kept'[j] = kept[j]
      BY <2>3, <3>1
    <3>3. Mem' = [Mem EXCEPT ![k] = v]
      BY <1>2, <1>3, <3>2
    <3>4. File' = File
      BY <1>2, <1>3, <2>1
    <3> QED
      BY <3>3, <3>4 DEF KV!Set
  <2> QED
    BY <2>1, <2>2, <2>3 DEF KV!Next
<1>6. ASSUME NEW k \in Keys, GetRecord(k, Records(dirty)) PROVE [KV!Next]_<<Mem, File>>
  <2>1. kept' = kept /\ stored' = stored
    BY <1>6 DEF GetRecord, ghosts
  <2> QED
    BY <1>4, <2>1
<1>7. ASSUME NEW k \in Keys, DeleteRecord(k, Records(dirty)) PROVE [KV!Next]_<<Mem, File>>
  <2>1. PICK r : mixed' = mixed \cup {r.page}
    BY <1>7, Zenon DEF DeleteRecord, Moved
  <2> QED
    BY <2>1
<1>8. CASE FlushAll
  <2>1. PICK pages \in SUBSET DOMAIN dirty : stored' = Saved(pages) /\ kept' = kept
    BY <1>8, Zenon DEF FlushAll
  <2> DEFINE keys == {k \in Keys : kept[k].page \in pages}
  <2>2. File' = KV!Written(keys)
    <3>1. \A k \in Keys : stored'[k].value = IF k \in keys THEN Mem[k] ELSE File[k]
      BY <1>2, <2>1 DEF Saved
    <3> HIDE DEF keys
    <3> QED
      BY <1>3, <3>1, Zenon DEF KV!Written
  <2>3. Mem' = Mem
    BY <1>2, <1>3, <2>1
  <2>4. keys \in SUBSET Keys
    OBVIOUS
  <2> QED
    BY <2>2, <2>3, <2>4 DEF KV!Next, KV!Flush
<1>9. ASSUME NEW pages \in SUBSET DOMAIN dirty, Reopen(pages) PROVE [KV!Next]_<<Mem, File>>
  <2>1. stored' = Saved(pages) /\ kept' = Saved(pages)
    BY <1>9 DEF Reopen
  <2> DEFINE keys == {k \in Keys : kept[k].page \in pages}
  <2>2. File' = KV!Written(keys)
    <3>1. \A k \in Keys : stored'[k].value = IF k \in keys THEN Mem[k] ELSE File[k]
      BY <1>2, <2>1 DEF Saved
    <3> HIDE DEF keys
    <3> QED
      BY <1>3, <3>1, Zenon DEF KV!Written
  <2>3. Mem' = File'
    BY <1>3, <2>1
  <2>4. keys \in SUBSET Keys
    OBVIOUS
  <2> QED
    BY <2>2, <2>3, <2>4 DEF KV!Next, KV!Restart
<1>10. CASE Close
  <2>1. Reopen(DOMAIN dirty)
    BY <1>10 DEF Close
  <2> QED
    BY <1>9, <2>1
<1>11. CASE Crash
  <2>1. Reopen({}) /\ {} \in SUBSET DOMAIN dirty
    BY <1>11 DEF Crash
  <2> QED
    BY <1>9, <2>1
<1>12. CASE UNCHANGED vars
  <2>1. kept' = kept /\ stored' = stored
    BY <1>12 DEF vars, ghosts
  <2> QED
    BY <1>4, <2>1
<1> QED
  BY <1>5, <1>6, <1>7, <1>8, <1>10, <1>11, <1>12, Zenon DEF Next

\* Until a record is deleted or resized, the pages implement the map that the
\* transaction manager takes the storage for: a put changes one key, a flush that
\* stops half-way brings a part of the file up to date, a restart goes back to what is
\* in the file, and nothing else changes (storage.cpp:69-130, 151-300, 644-779).
THEOREM PagesImplementKVStore == Spec => ImplementsKVStore
<1>1. Init => KV!Init
  <2> SUFFICES ASSUME Init PROVE KV!Init
    OBVIOUS
  <2>1. StoreInv /\ mixed = {}
    BY InitInv DEF Init
  <2>2. Mem = [k \in Keys |-> kept[k].value] /\ File = [k \in Keys |-> stored[k].value]
    BY <2>1, MemIsKept
  <2>3. \A k \in Keys : kept[k].value = Nothing /\ stored[k].value = Nothing
    BY DEF Init
  <2> QED
    BY <2>2, <2>3 DEF KV!Init
<1>2. StoreInv /\ StoreInv' /\ [Next]_vars => [mixed' = {} => [KV!Next]_<<Mem, File>>]_vars
  BY KVStep
<1> QED
  BY <1>1, <1>2, StoreInvariant, PTL DEF Spec, ImplementsKVStore

------------------------------------------------------------------------------
(* A put is read back *)

\* A walk goes forward, so whatever is behind a place, the records up to there are met.
LEMMA WalkReaches ==
  ASSUME NEW d \in Page, NEW S, S \subseteq Nat, NEW o \in S, 0 \in S,
         \A q \in S : /\ q <= o /\ InLoop(q) /\ ~Dead(d, q) /\ Fits(d, q)
                      /\ q # o => After(d, q) \in S
  PROVE  /\ o \in Range(RecordsOf(d)) /\ Range(RecordsOf(d)) \subseteq Nat
         /\ \A x \in Range(RecordsOf(d)) : x \in S \/ o < x
<1> DEFINE fits == [q \in Offsets |-> Fits(d, q)]
<1> DEFINE search == [q \in Offsets |-> Search(d, q)]
<1>0. NotFound \in Nat /\ Offsets = 0 .. NotFound
  BY OffsetsAre
<1>1. Forward(d, search, fits)
  <2> SUFFICES ASSUME NEW q \in Offsets, InLoop(q)
               PROVE  search[q] \in q + 1 .. NotFound /\ (fits[q] => Fits(d, q))
    BY Zenon DEF Forward
  <2>1. q \in Nat
    BY <1>0
  <2>2. Search(d, q) \in q + 1 .. NotFound
    BY <2>1, SearchAhead, Zenon DEF EndsAhead
  <2> QED
    BY <2>2, Zenon
<1>2. RecordsOf(d) = Walk(d, search, fits)
  BY Zenon DEF RecordsOf
<1>3. PICK f : WalkBy(f, d, search, fits) /\ RecordsOf(d) = f[0]
  <2> HIDE DEF search, fits
  <2>1. PICK f : WalkBy(f, d, search, fits) /\ Walk(d, search, fits) = f[0]
    BY <1>1, WalkGoes
  <2> QED
    BY <1>2, <2>1, Zenon
<1>4. \A q \in Offsets : f[q] = IF ~InLoop(q) THEN <<>>
                                ELSE IF Skippable(d, q) THEN f[After(d, q)]
                                ELSE IF Dead(d, q) THEN f[search[q]]
                                ELSE IF Fits(d, q) THEN <<q>> \o f[After(d, q)] ELSE <<>>
  BY <1>3, Zenon DEF WalkBy
<1>5. \A q \in Offsets : InLoop(q) => search[q] \in q + 1 .. NotFound
  BY <1>1, Zenon DEF Forward
<1>6. \A q \in S : q \in Nat /\ q \in Offsets
  BY OffsetsAre
<1> HIDE DEF search, fits
<1> DEFINE Ahead(q) == f[q] \in Seq(Nat) /\ \A x \in Range(f[q]) : q <= x
<1> DEFINE Meets(q) == o \in Range(f[q]) /\ \A x \in Range(f[q]) : x \in S \/ o < x
<1> DEFINE G == {q \in 0 .. NotFound : Ahead(q) /\ (q \in S => Meets(q))}
<1>7. ASSUME NEW q \in 0 .. NotFound, \A r \in q + 1 .. NotFound : r \in G PROVE q \in G
  <2>0. <<>> \in Seq(Nat) /\ Range(<<>>) = {} /\ q \in Nat
    BY DEF Range
  <2>1. ASSUME NEW r \in q + 1 .. NotFound
        PROVE  /\ f[r] \in Seq(Nat) /\ Range(f[r]) \subseteq Nat
               /\ \A x \in Range(f[r]) : q < x
               /\ r \in S => Meets(r)
    <3>1. f[r] \in Seq(Nat) /\ (\A x \in Range(f[r]) : r <= x) /\ (r \in S => Meets(r))
      BY <1>7
    <3>2. Range(f[r]) \subseteq Nat
      <4>1. \A i \in DOMAIN f[r] : f[r][i] \in Nat
        BY <3>1
      <4> QED
        BY <4>1, Zenon DEF Range
    <3>3. \A x \in Range(f[r]) : q < x
      BY <3>1, <3>2
    <3> QED
      BY <3>1, <3>2, <3>3
  <2>2. CASE ~InLoop(q)
    <3>1. f[q] = <<>> /\ q \notin S
      BY <1>0, <1>4, <2>2, Zenon
    <3> QED
      BY <2>0, <3>1, Zenon
  <2>3. CASE InLoop(q) /\ (Skippable(d, q) \/ Dead(d, q))
    <3>1. PICK r \in q + 1 .. NotFound : f[q] = f[r]
      <4>1. Skippable(d, q) => After(d, q) \in q + 1 .. NotFound
        BY <2>0, <2>3, SkipsForward
      <4>2. search[q] \in q + 1 .. NotFound
        BY <1>0, <1>5, <2>3
      <4> QED
        BY <1>0, <1>4, <2>3, <4>1, <4>2, Zenon
    <3>2. q \notin S
      BY <2>3, Zenon DEF Skippable
    <3>3. f[r] \in Seq(Nat) /\ \A x \in Range(f[r]) : q <= x
      <4> SUFFICES ASSUME NEW x \in Range(f[r]) PROVE q <= x
        BY <2>1, Zenon
      <4>1. x \in Nat /\ q < x
        BY <2>1, Zenon
      <4> QED
        BY <2>0, <4>1
    <3> QED
      BY <3>1, <3>2, <3>3, Zenon
  <2>4. CASE InLoop(q) /\ ~Skippable(d, q) /\ ~Dead(d, q) /\ ~Fits(d, q)
    <3>1. f[q] = <<>> /\ q \notin S
      BY <1>0, <1>4, <2>4, Zenon
    <3> QED
      BY <2>0, <3>1, Zenon
  <2>5. CASE InLoop(q) /\ ~Skippable(d, q) /\ ~Dead(d, q) /\ Fits(d, q)
    <3>1. PICK r \in q + 1 .. NotFound : r = After(d, q)
      BY <2>0, <2>5, SkipsForward
    <3>2. f[q] = <<q>> \o f[r]
      BY <1>0, <1>4, <2>5, <3>1, Zenon
    <3>3. f[q] \in Seq(Nat) /\ Range(f[q]) = {q} \cup Range(f[r])
      <4>1. f[r] \in Seq(Nat)
        BY <2>1, Zenon
      <4>2. q \in Nat
        BY <2>0
      <4>3. <<q>> \o f[r] \in Seq(Nat) /\ Range(<<q>> \o f[r]) = {q} \cup Range(f[r])
        BY <4>1, <4>2, RangeOfTaken, Zenon
      <4> QED
        BY <3>2, <4>3, Zenon
    <3>4. Ahead(q)
      <4> SUFFICES ASSUME NEW x \in Range(f[q]) PROVE q <= x
        BY <3>3, Zenon
      <4>1. x \in Nat /\ (x = q \/ q < x)
        BY <2>0, <2>1, <3>3, Zenon
      <4> QED
        BY <2>0, <4>1
    <3>5. q \in S => Meets(q)
      <4>1. CASE q \in S /\ q # o
        <5>1. r \in S
          BY <3>1, <4>1
        <5>2. Meets(r)
          BY <2>1, <5>1
        <5> QED
          BY <3>3, <4>1, <5>2, Zenon
      <4>2. CASE q = o
        BY <2>1, <3>3, <4>2, Zenon
      <4> QED
        BY <4>1, <4>2
    <3> QED
      BY <3>4, <3>5
  <2> QED
    BY <2>2, <2>3, <2>4, <2>5, Zenon
<1>8. 0 .. NotFound \subseteq G
  <2> HIDE DEF G
  <2> QED
    BY <1>0, <1>7, Backward
<1>9. 0 \in 0 .. NotFound
  BY <1>0
<1>10. Ahead(0) /\ Meets(0)
  BY <1>8, <1>9
<1>11. Range(f[0]) \subseteq Nat
  <2>1. \A i \in DOMAIN f[0] : f[0][i] \in Nat
    BY <1>10
  <2> QED
    BY <2>1, Zenon DEF Range
<1> QED
  BY <1>3, <1>10, <1>11, Zenon

\* getRecord stops at the first record that the key has on the page of the map.
LEMMA LookupFirst ==
  ASSUME NEW cache, NEW p \in allocatedPages, p \in Nat, NEW k,
         NEW o \in Range(RecordsOf(getPage(cache, p))), KeyAt(getPage(cache, p), o) = k,
         o \in Nat, Range(RecordsOf(getPage(cache, p))) \subseteq Nat,
         \A x \in Range(RecordsOf(getPage(cache, p))) : KeyAt(getPage(cache, p), x) = k => o <= x,
         NEW map, k \in DOMAIN map, map[k] = p
  PROVE  Lookup(Records(cache), map, k) = ValueAt(getPage(cache, p), o)
<1> DEFINE d == getPage(cache, p)
<1> DEFINE records == Records(cache)
<1>1. PICK r : r = RecordAt(p, d, o)
  OBVIOUS
<1>2. r.page = p /\ r.offset = o /\ r.key = k /\ r.value = ValueAt(d, o)
  BY <1>1 DEF RecordAt
<1>3. r \in records
  <2>1. r \in {RecordAt(p, d, x) : x \in Range(RecordsOf(d))}
    BY <1>1
  <2> QED
    BY <2>1, Zenon DEF Records
<1>4. ASSUME NEW q \in records, q.key = k, q.page = p
      PROVE  \E x \in Nat : q = RecordAt(p, d, x) /\ q.offset = x /\ o <= x
  <2>0. PICK z \in allocatedPages :
          \E x \in Range(RecordsOf(getPage(cache, z))) : q = RecordAt(z, getPage(cache, z), x)
    BY Zenon DEF Records
  <2>1. PICK x \in Range(RecordsOf(getPage(cache, z))) : q = RecordAt(z, getPage(cache, z), x)
    BY <2>0
  <2>2. q.page = z /\ q.key = KeyAt(getPage(cache, z), x) /\ q.offset = x
    BY <2>1 DEF RecordAt
  <2>3. z = p
    BY <1>4, <2>2
  <2>4. x \in Nat /\ o <= x
    BY <1>4, <2>1, <2>2, <2>3
  <2> QED
    BY <2>1, <2>2, <2>3, <2>4, Zenon
<1> HIDE DEF records, d
<1> DEFINE of == {q \in records : q.key = k}
<1> DEFINE mine == {q \in of : k \in DOMAIN map /\ q.page = map[k]}
<1> DEFINE where == IF mine # {} THEN mine ELSE of
<1>5. r \in where /\ \A q \in where : q \in records /\ q.key = k /\ q.page = p
  <2>1. r \in mine
    BY <1>2, <1>3, Zenon
  <2>2. where = mine
    BY <2>1, Zenon
  <2>3. \A q \in mine : q \in records /\ q.key = k /\ q.page = p
    BY Zenon
  <2> HIDE DEF where, mine
  <2> QED
    BY <2>1, <2>2, <2>3, Zenon
<1>6. \A q \in where : r.page = q.page /\ r.offset <= q.offset
  <2> HIDE DEF where
  <2> SUFFICES ASSUME NEW q \in where PROVE r.page = q.page /\ r.offset <= q.offset
    OBVIOUS
  <2>1. PICK x \in Nat : q.offset = x /\ o <= x
    BY <1>4, <1>5
  <2> QED
    BY <1>2, <1>5, <2>1
<1>7. r \in Stops(records, map, k)
  <2>1. (r \in where /\ \A z \in where : r.page = z.page /\ r.offset <= z.offset)
          => r \in Stops(records, map, k)
    BY Zenon DEF Stops
  <2> QED
    BY <1>5, <1>6, <2>1, Zenon
<1>8. ASSUME NEW q \in Stops(records, map, k) PROVE q = r
  <2>1. q \in where /\ \A z \in where : z.page < q.page \/ (z.page = q.page /\ q.offset <= z.offset)
    BY Zenon DEF Stops
  <2> HIDE DEF where
  <2>2. PICK x \in Nat : q = RecordAt(p, d, x) /\ q.offset = x /\ o <= x
    BY <1>4, <1>5, <2>1
  <2>3. r.page < q.page \/ (r.page = q.page /\ q.offset <= r.offset)
    BY <1>5, <2>1
  <2>4. r.page = p /\ q.page = p /\ r.offset = o
    BY <1>2, <1>5, <2>1, Zenon
  <2>5. x = o
    BY <2>2, <2>3, <2>4
  <2> QED
    BY <1>1, <2>2, <2>5, Zenon
<1> QED
  BY <1>2, <1>7, <1>8, Zenon DEF Lookup, records, d

\* What a value written over another one that is no shorter leaves of the page: the
\* bytes in front of it, and a record with the new value.
Shortened(c, d, o, v) ==
  /\ c \in Page /\ \A i \in 1 .. PAGE_SIZE : i <= o => c[i] = d[i]
  /\ InLoop(o) /\ ~Dead(c, o) /\ Fits(c, o)
  /\ KeyAt(c, o) = KeyAt(d, o) /\ ValueAt(c, o) = v

\* It leaves just that.
LEMMA ShortenedPage ==
  ASSUME NEW d \in Page, NEW starts, NEW end, Laid(d, starts, end), NEW o \in starts,
         NEW v \in Seq(Byte), Len(v) <= ValueLen(d, o), NEW c,
         c = Written(Written(d, o + 2, Uint16(Len(v))), o + 4 + KeyLen(d, o), v)
  PROVE  Shortened(c, d, o, v)
<1>0. PICK kl, vl : Spot(d, end, o, kl, vl)
  BY RecordPlace
<1>1. PICK n \in Nat : n = Len(v)
  OBVIOUS
<1>2. /\ o \in Nat /\ kl \in Nat /\ 0 < kl /\ InLoop(o) /\ PAGE_SIZE \in Nat /\ n \in Nat
      /\ o + 4 + kl + n <= PAGE_SIZE /\ o + 4 <= PAGE_SIZE
      /\ KeyLen(d, o) = kl /\ KeyAt(d, o) = Slice(d, o + 4, kl)
  BY <1>0, <1>1, Sizes DEF Spot
<1>3. n <= MaxUint16
  <2>1. ValueLen(d, o) \in Nat /\ ValueLen(d, o) <= MaxUint16
    BY <1>2, Lengths
  <2> QED
    BY <1>1, <2>1, Sizes
<1>4. PICK p \in Nat : p = o + 4 + kl
  BY <1>2
<1>5. o + 4 < p /\ p + n <= PAGE_SIZE
  BY <1>2, <1>4
<1>6. PICK b : b = Uint16(n)
  OBVIOUS
<1>7. b \in Seq(Byte) /\ DOMAIN b = 1 .. 2 /\ b[1] + 256 * b[2] = n
  <2>1. b \in Seq(Byte) /\ Len(b) = 2 /\ b[1] + 256 * b[2] = n
    BY <1>3, <1>6, WordReadBack
  <2> QED
    BY <2>1
<1>8. PICK z \in Nat : z = o + 2
  BY <1>2
<1>9. PICK m : m = Written(d, z, b)
  OBVIOUS
<1>10. m \in Page /\ \A i \in 1 .. PAGE_SIZE :
         m[i] = IF i - z \in DOMAIN b THEN b[i - z] ELSE d[i]
  BY <1>7, <1>9, WrittenPage
<1>11. c = Written(m, p, v)
  BY <1>1, <1>2, <1>4, <1>6, <1>8, <1>9, Zenon
<1>12. c \in Page /\ \A i \in 1 .. PAGE_SIZE :
          c[i] = IF i - p \in 1 .. n THEN v[i - p] ELSE m[i]
  <2>1. DOMAIN v = 1 .. n
    BY <1>1
  <2>2. c \in Page /\ \A i \in 1 .. PAGE_SIZE :
          c[i] = IF i - p \in DOMAIN v THEN v[i - p] ELSE m[i]
    BY <1>10, <1>11, WrittenPage
  <2> QED
    BY <2>1, <2>2, Zenon
<1>13. \A i \in 1 .. PAGE_SIZE : i <= p => c[i] = m[i]
  <2>1. \A i \in 1 .. PAGE_SIZE : i <= p => i - p \notin 1 .. n
    BY <1>2
  <2> QED
    BY <1>12, <2>1, Zenon
<1>14. \A i \in 1 .. PAGE_SIZE : i <= o + 2 \/ o + 4 < i => m[i] = d[i]
  <2>1. \A i \in 1 .. PAGE_SIZE : i <= o + 2 \/ o + 4 < i => i - z \notin 1 .. 2
    BY <1>2, <1>8
  <2> QED
    BY <1>7, <1>10, <2>1, Zenon
<1>15. \A i \in 1 .. PAGE_SIZE : i <= o + 2 \/ (o + 4 < i /\ i <= p) => c[i] = d[i]
  <2>1. \A i \in 1 .. PAGE_SIZE : i <= o + 2 => i <= p
    BY <1>2, <1>5
  <2> QED
    BY <1>13, <1>14, <2>1, Zenon
<1>16. KeyLen(c, o) = kl /\ ValueLen(c, o) = n
  <2>1. PICK i1, i2, i3, i4 \in 1 .. PAGE_SIZE : i1 = o + 1 /\ i2 = o + 2 /\ i3 = o + 3 /\ i4 = o + 4
    BY <1>2
  <2>2. /\ i1 <= o + 2 /\ i2 <= o + 2 /\ i3 <= p /\ i4 <= p
        /\ i3 - z = 1 /\ i4 - z = 2 /\ 1 \in 1 .. 2 /\ 2 \in 1 .. 2
    BY <1>2, <1>5, <1>8, <2>1
  <2>3. c[i1] = d[i1] /\ c[i2] = d[i2]
    BY <1>15, <2>2, Zenon
  <2>4. c[i3] = b[1] /\ c[i4] = b[2]
    <3>1. m[i3] = b[1] /\ m[i4] = b[2]
      BY <1>7, <1>10, <2>2, Zenon
    <3>2. c[i3] = m[i3] /\ c[i4] = m[i4]
      BY <1>13, <2>2, Zenon
    <3> QED
      BY <3>1, <3>2, Zenon
  <2>5. /\ KeyLen(d, o) = d[i1] + 256 * d[i2] /\ KeyLen(c, o) = c[i1] + 256 * c[i2]
        /\ ValueLen(c, o) = c[i3] + 256 * c[i4]
    <3>1. /\ KeyLen(d, o) = d[o + 1] + 256 * d[o + 2] /\ KeyLen(c, o) = c[o + 1] + 256 * c[o + 2]
          /\ ValueLen(c, o) = c[o + 3] + 256 * c[o + 4]
      <4>1. c \in Page
        BY <1>12
      <4>2. o \in Nat /\ o + 4 <= PAGE_SIZE
        BY <1>2
      <4>3. KeyLen(d, o) = d[o + 1] + 256 * d[o + 2]
        BY <4>2, Lengths
      <4> QED
        BY <4>1, <4>2, <4>3, Lengths
    <3> QED
      BY <2>1, <3>1, Zenon
  <2> QED
    BY <1>2, <1>7, <2>3, <2>4, <2>5, Zenon
<1>17. ~Dead(c, o) /\ Fits(c, o)
  BY <1>2, <1>16 DEF Dead, Fits
<1>18. KeyAt(c, o) = KeyAt(d, o)
  <2>1. PICK s \in Nat : s = o + 4
    BY <1>2
  <2>2. s + kl <= PAGE_SIZE /\ \A i \in 1 .. PAGE_SIZE : s < i /\ i <= s + kl => c[i] = d[i]
    <3>1. s + kl = p /\ s + kl <= PAGE_SIZE
      BY <1>2, <1>4, <1>5, <2>1
    <3> QED
      BY <1>15, <2>1, <3>1, Zenon
  <2>3. Slice(c, s, kl) = Slice(d, s, kl)
    <3>1. c \in Page /\ kl \in Nat
      BY <1>2, <1>12
    <3> QED
      BY <2>2, <3>1, SliceSame
  <2>4. KeyAt(c, o) = Slice(c, s, kl)
    BY <1>16, <2>1, Zenon DEF KeyAt
  <2>5. KeyAt(d, o) = Slice(d, s, kl)
    BY <1>2, <2>1, Zenon
  <2> QED
    BY <2>3, <2>4, <2>5, Zenon
<1>19. ValueAt(c, o) = v
  <2>1. ASSUME NEW i \in 1 .. n PROVE c[p + i] = v[i]
    <3>1. PICK j \in 1 .. PAGE_SIZE : j = p + i /\ j - p = i
      BY <1>2, <1>5
    <3>2. c[j] = v[j - p]
      BY <1>12, <3>1, Zenon
    <3> QED
      BY <3>1, <3>2, Zenon
  <2>2. Slice(c, p, Len(v)) = v
    <3>1. p + Len(v) <= PAGE_SIZE /\ \A i \in 1 .. Len(v) : c[p + i] = v[i]
      BY <1>1, <1>5, <2>1, Zenon
    <3> QED
      BY <1>12, <3>1, SliceIs
  <2> QED
    BY <1>1, <1>4, <1>16, <2>2, Zenon DEF ValueAt
<1>20. \A i \in 1 .. PAGE_SIZE : i <= o => c[i] = d[i]
  <2>1. \A i \in 1 .. PAGE_SIZE : i <= o => i <= o + 2
    BY <1>2
  <2> QED
    BY <1>15, <2>1, Zenon
<1> QED
  BY <1>2, <1>12, <1>17, <1>18, <1>19, <1>20, Zenon DEF Shortened

\* The walk of getRecord meets that record, and none of the same key before it.
LEMMA ShortenedIsMet ==
  ASSUME NEW d \in Page, NEW starts, NEW end, Laid(d, starts, end), NEW o \in starts,
         \A q \in starts : KeyAt(d, q) = KeyAt(d, o) => q = o,
         NEW c, NEW v, Shortened(c, d, o, v)
  PROVE  /\ o \in Nat /\ o \in Range(RecordsOf(c)) /\ Range(RecordsOf(c)) \subseteq Nat
         /\ \A x \in Range(RecordsOf(c)) : KeyAt(c, x) = KeyAt(d, o) => o <= x
<1>0. c \in Page /\ \A i \in 1 .. PAGE_SIZE : i <= o => c[i] = d[i]
  BY DEF Shortened
<1>1. PlacesOf(d, starts, end)
  BY LaidPlaces
<1>2. o \in Nat /\ starts \subseteq Nat /\ end \in Nat /\ end <= PAGE_SIZE /\ PAGE_SIZE \in Nat
  BY <1>1, Sizes DEF PlacesOf
<1>3. ASSUME NEW q \in starts, q < o
      PROVE  /\ SamePlace(c, d, q) /\ KeyAt(c, q) = KeyAt(d, q)
             /\ After(d, q) \in starts /\ After(d, q) <= o
  <2>1. PICK a, b : Spot(d, end, q, a, b)
    BY RecordPlace
  <2>2. /\ q \in Nat /\ a \in Nat /\ b \in Nat /\ After(d, q) = q + 4 + a + b
        /\ KeyLen(d, q) = a
    BY <2>1, Zenon DEF Spot
  <2>3. After(d, q) <= o
    BY <1>3 DEF Laid
  <2>4. o < end
    <3>1. o < After(d, o) /\ After(d, o) <= end
      BY <1>1, Zenon DEF PlacesOf
    <3>2. PICK x, y : Spot(d, end, o, x, y)
      BY RecordPlace
    <3>3. After(d, o) \in Nat
      BY <3>2 DEF Spot
    <3> QED
      BY <1>2, <3>1, <3>3
  <2>5. q + 4 + a + b <= o
    BY <2>2, <2>3, Zenon
  <2>6. After(d, q) \in starts
    <3>1. After(d, q) # end
      BY <1>2, <2>2, <2>4, <2>5
    <3>2. After(d, q) \in starts \cup {end}
      BY <1>1, Zenon DEF PlacesOf
    <3> QED
      BY <3>1, <3>2
  <2>7. SamePlace(c, d, q)
    <3>1. q + 4 <= PAGE_SIZE
      BY <1>2, <2>2, <2>4, <2>5
    <3>2. \A i \in 1 .. PAGE_SIZE : q < i /\ i <= q + 4 => c[i] = d[i]
      <4>1. \A i \in 1 .. PAGE_SIZE : i <= q + 4 => i <= o
        BY <1>2, <2>2, <2>5
      <4> QED
        BY <1>0, <4>1, Zenon
    <3> QED
      BY <1>0, <2>2, <3>1, <3>2, SameHeader
  <2>8. KeyAt(c, q) = KeyAt(d, q)
    <3>1. PICK s \in Nat : s = q + 4
      BY <2>2
    <3>2. s + a <= PAGE_SIZE
      BY <1>2, <2>2, <2>4, <2>5, <3>1
    <3>3. \A i \in 1 .. PAGE_SIZE : s < i /\ i <= s + a => c[i] = d[i]
      <4>1. \A i \in 1 .. PAGE_SIZE : i <= s + a => i <= o
        BY <1>2, <2>2, <2>5, <3>1
      <4> QED
        BY <1>0, <4>1, Zenon
    <3>4. Slice(c, s, a) = Slice(d, s, a)
      BY <1>0, <2>2, <3>2, <3>3, SliceSame
    <3>5. KeyLen(c, q) = a
      BY <2>2, <2>7, Zenon DEF SamePlace
    <3> QED
      BY <2>2, <3>1, <3>4, <3>5, Zenon DEF KeyAt
  <2> QED
    BY <2>3, <2>6, <2>7, <2>8
<1> DEFINE S == {q \in starts : q <= o}
<1>4. o \in S /\ S \subseteq Nat
  <2>1. o <= o
    BY <1>2
  <2> QED
    BY <1>2, <2>1, Zenon
<1>5. 0 \in S
  <2>1. 0 \in starts \cup {end}
    BY DEF Laid
  <2>2. end # 0
    <3>1. o < After(d, o) /\ After(d, o) <= end
      BY <1>1, Zenon DEF PlacesOf
    <3>2. PICK x, y : Spot(d, end, o, x, y)
      BY RecordPlace
    <3>3. After(d, o) \in Nat
      BY <3>2 DEF Spot
    <3> QED
      BY <1>2, <3>1, <3>3
  <2> QED
    BY <1>2, <2>1, <2>2
<1>6. \A q \in S : q = o \/ (q \in starts /\ q < o)
  BY <1>2
<1>7. ASSUME NEW q \in S
      PROVE  /\ q <= o /\ InLoop(q) /\ ~Dead(c, q) /\ Fits(c, q)
             /\ q # o => After(c, q) \in S
  <2>1. CASE q = o
    BY <1>2, <2>1 DEF Shortened
  <2>2. CASE q \in starts /\ q < o
    <3>1. /\ SamePlace(c, d, q) /\ After(d, q) \in starts /\ After(d, q) <= o
      BY <1>3, <2>2
    <3>2. InLoop(q) /\ ~Dead(d, q) /\ Live(d, q)
      BY <1>1, <2>2, Zenon DEF PlacesOf, Laid
    <3>3. ~Dead(c, q) /\ Fits(c, q) /\ After(c, q) = After(d, q)
      BY <3>1, <3>2, Zenon DEF SamePlace, Live, Dead
    <3> QED
      BY <3>1, <3>2, <3>3, Zenon
  <2> QED
    BY <1>6, <2>1, <2>2
<1>8. /\ o \in Range(RecordsOf(c)) /\ Range(RecordsOf(c)) \subseteq Nat
      /\ \A x \in Range(RecordsOf(c)) : x \in S \/ o < x
  <2> HIDE DEF S
  <2> QED
    BY <1>0, <1>4, <1>5, <1>7, WalkReaches
<1>9. ASSUME NEW x \in Range(RecordsOf(c)), KeyAt(c, x) = KeyAt(d, o) PROVE o <= x
  <2>1. CASE o < x
    BY <1>2, <1>8, <2>1
  <2>2. CASE x \in S
    <3>1. x = o
      <4> SUFFICES ASSUME x \in starts, x < o PROVE FALSE
        BY <1>6, <2>2
      <4>1. KeyAt(d, x) = KeyAt(d, o)
        BY <1>3, <1>9
      <4>2. x = o
        BY <4>1
      <4> QED
        BY <1>2, <4>2
    <3> QED
      BY <1>2, <3>1
  <2> QED
    BY <1>8, <2>1, <2>2
<1> QED
  BY <1>2, <1>8, <1>9

\* A harmless put is read back.
LEMMA HarmlessReadBack ==
  ASSUME StoreInv, NEW k \in Keys \ moved, NEW v \in Values(k), Harmless(k, v)
  PROVE  ReadBack(k, v)
<1>0. Shape /\ Ghosts /\ PagesSound
  BY DEF StoreInv
<1>1. PICK t : t = Try(k, v)
  OBVIOUS
<1>2. Tried(t, k, v)
  BY <1>0, <1>1, TryKeeps
<1> SUFFICES ASSUME t.ok PROVE Lookup(Records(t.cache), Changed(keyToPage, k, t.page), k) = v
  BY <1>1, Zenon DEF ReadBack
<1>3. PICK p \in allocatedPages : p = t.page
  BY <1>2, Zenon DEF Tried
<1>4. p \notin mixed /\ (IsOn(k, p, kept) => Len(v) <= Len(kept[k].value)) /\ p \in Nat
  <2>1. p \in Nat
    BY <1>0, PagesArePages
  <2> QED
    BY <1>1, <1>3, <2>1, Zenon DEF Harmless
<1>5. PICK d \in Page : d = getPage(dirty, p)
  BY <1>0, PagesArePages
<1>6. PICK f : f = FindFreeSpaceInPage(d, k, v)
  OBVIOUS
<1>7. PICK map : map = Changed(keyToPage, k, p) /\ k \in DOMAIN map /\ map[k] = p
  <2>1. k \in DOMAIN Changed(keyToPage, k, p) /\ Changed(keyToPage, k, p)[k] = p
    BY DEF Changed
  <2> QED
    BY <2>1, Zenon
<1>8. IsTable(kept) /\ DOMAIN kept = Keys
  BY <1>0, Zenon DEF Ghosts, IsTable
<1>9. Sound(d, p, kept, moved)
  BY <1>0, <1>4, <1>5, Zenon DEF PagesSound
<1>10. LeftAlone(p, k, v) => f.ok /\ getPage(t.cache, p) = f.page
  BY <1>2, <1>3, <1>5, <1>6, Zenon DEF Tried
<1>11. CASE IsOn(k, p, kept) => Len(kept[k].value) = Len(v)
  <2>1. PutOn(f, d, p, kept, moved, k, v)
    BY <1>6, <1>8, <1>9, <1>11, PutKeepsPage
  <2>2. LeftAlone(p, k, v)
    BY <1>5, <1>6, <2>1, Zenon DEF LeftAlone, PutOn
  <2>3. f.ok /\ getPage(t.cache, p) = f.page /\ f.page \in Page
    BY <1>10, <2>1, <2>2, Zenon DEF PutOn
  <2>4. PICK new : new = Recorded(kept, k, v, p)
    OBVIOUS
  <2>5. Sound(f.page, p, new, moved)
    BY <2>1, <2>3, <2>4, Zenon DEF PutOn
  <2>6. AfterPut(new, kept, k, v, p)
    BY <1>8, <2>4, RecordedTable
  <2>7. IsOn(k, p, new) /\ new[k].value = v
    BY <2>6, Zenon DEF AfterPut
  <2>8. getPage(t.cache, p) \in Page /\ Sound(getPage(t.cache, p), p, new, moved)
    BY <2>3, <2>5, Zenon
  <2>9. Lookup(Records(t.cache), map, k) = new[k].value
    BY <1>7, <2>7, <2>8, LookupFinds
  <2> QED
    BY <1>3, <1>7, <2>7, <2>9, Zenon
<1>12. CASE IsOn(k, p, kept) /\ Len(kept[k].value) # Len(v)
  <2>1. PICK starts, end : Laid(d, starts, end) /\ Listed(d, starts, p, kept, moved)
    BY <1>9, Zenon DEF Sound
  <2>2. PICK o \in starts : KeyAt(d, o) = k
    BY <1>12, <2>1, Zenon DEF Listed
  <2>3. \A q \in starts : KeyAt(d, q) = KeyAt(d, o) => q = o
    BY <2>1, Zenon DEF Listed
  <2>4. kept[k].value = ValueAt(d, o)
    BY <2>1, <2>2, Zenon DEF Listed
  <2>5. v \in Seq(Byte)
    BY KeyFacts
  <2>6. o \in Nat /\ Len(v) <= ValueLen(d, o)
    <3>1. PICK kl, vl : Spot(d, end, o, kl, vl)
      BY <2>1, RecordPlace
    <3>2. PICK s \in Nat : s = o + 4 + kl
      BY <3>1 DEF Spot
    <3>3. s + vl <= PAGE_SIZE /\ vl \in Nat
      BY <3>1, <3>2, Sizes DEF Spot
    <3>4. Len(Slice(d, s, vl)) = vl
      BY <3>3, SliceOf
    <3>5. ValueAt(d, o) = Slice(d, s, vl) /\ ValueLen(d, o) = vl /\ o \in Nat
      BY <3>1, <3>2, Zenon DEF Spot
    <3> QED
      BY <1>4, <1>12, <2>4, <3>4, <3>5, Zenon
  <2>7. With(d, UpdatableOf(d), k) = {o}
    <3>1. Range(UpdatableOf(d)) = starts
      BY <2>1, WalksAgree
    <3> QED
      BY <2>2, <2>3, <3>1, Zenon DEF With
  <2>8. Min({o}) = o /\ InPlace(d, o, v) /\ {o} # {}
    <3>1. Min({o}) = o
      BY <2>6 DEF Min
    <3>2. InPlace(d, o, v)
      BY <2>6 DEF InPlace
    <3> QED
      BY <3>1, <3>2
  <2>9. PICK c : c = Written(Written(d, o + 2, Uint16(Len(v))), o + 4 + KeyLen(d, o), v)
    OBVIOUS
  <2>10. f = [page |-> c, ok |-> TRUE]
    BY <1>6, <2>7, <2>8, <2>9, Zenon DEF FindFreeSpaceInPage
  <2>11. f.ok /\ f.page = c
    BY <2>10
  <2>12. getPage(t.cache, p) = c
    BY <1>5, <1>6, <1>10, <2>11, Zenon DEF LeftAlone
  <2>13. Shortened(c, d, o, v)
    BY <2>1, <2>5, <2>6, <2>9, ShortenedPage
  <2>14. /\ o \in Range(RecordsOf(c)) /\ Range(RecordsOf(c)) \subseteq Nat
         /\ \A x \in Range(RecordsOf(c)) : KeyAt(c, x) = k => o <= x
    BY <2>1, <2>2, <2>3, <2>13, ShortenedIsMet
  <2>15. KeyAt(c, o) = k /\ ValueAt(c, o) = v
    BY <2>2, <2>13, Zenon DEF Shortened
  <2>16. Lookup(Records(t.cache), map, k) = ValueAt(getPage(t.cache, p), o)
    <3>1. /\ o \in Range(RecordsOf(getPage(t.cache, p)))
          /\ Range(RecordsOf(getPage(t.cache, p))) \subseteq Nat
          /\ KeyAt(getPage(t.cache, p), o) = k
          /\ \A x \in Range(RecordsOf(getPage(t.cache, p))) :
               KeyAt(getPage(t.cache, p), x) = k => o <= x
      BY <2>12, <2>14, <2>15, Zenon
    <3> QED
      BY <1>4, <1>7, <2>6, <3>1, LookupFirst
  <2> QED
    BY <1>3, <1>7, <2>12, <2>15, <2>16, Zenon
<1> QED
  BY <1>11, <1>12

\* Where a put finds room on a page without damage, new, or in the place of a value of
\* the same length or of a longer one, the next getRecord finds the new value, although
\* the two walk through the page by different rules and a shorter value leaves bytes
\* of the old one behind (storage.cpp:644-779, 302-369).
THEOREM HarmlessPutsAreRead == Spec => []PutIsRead
<1>1. StoreInv => PutIsRead
  BY HarmlessReadBack DEF PutIsRead
<1> QED
  BY <1>1, StoreInvariant, PTL

================================================================================
