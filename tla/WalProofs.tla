------------------------------- MODULE WalProofs -------------------------------
(****************************************************************************)
(* Theorems about WriteAheadLog, for keys and values of any length and any  *)
(* number of entries, transactions and runs: a log can be read again, and   *)
(* what a commit flushed stays in it.                                       *)
(*                                                                          *)
(* deserializeEntry undoes serializeEntry whatever follows the entry        *)
(* (DeserializeWhole) and refuses a part of it (DeserializePart).  The      *)
(* invariant Placed says where the entries are in the bytes of the log;     *)
(* what reading them one after the other gives follows by induction from    *)
(* the last one back (DecodedFinds).                                        *)
(****************************************************************************)
EXTENDS WriteAheadLog, SequenceInduction

------------------------------------------------------------------------------
(* Entries *)

\* Bytes of the log.
Data == Seq(Bytes)

\* What serializeEntry is given: a length has 16 bits.
Entries ==
  {e \in [type : Data, txnId : Data, key : Data, value : Data] :
     /\ Len(e.type) = 4 /\ Len(e.txnId) = 8
     /\ Len(e.key) < 65536 /\ Len(e.value) < 65536}

\* Sequences with the same elements.
LEMMA SameSequences ==
  ASSUME NEW S, NEW a \in Seq(S), NEW b \in Seq(S), Len(a) = Len(b),
         \A i \in 1 .. Len(a) : a[i] = b[i]
  PROVE  a = b
OBVIOUS

\* The same, whatever sets the elements are known to be in.
LEMMA SameElements ==
  ASSUME NEW S, NEW T, NEW a \in Seq(S), NEW b \in Seq(T), Len(a) = Len(b),
         \A i \in 1 .. Len(a) : a[i] = b[i]
  PROVE  a = b
OBVIOUS

\* The elements of a part of a sequence.
LEMMA PartOf ==
  ASSUME NEW S, NEW a \in Seq(S), NEW m \in Nat, NEW n \in Nat, m <= n, n <= Len(a)
  PROVE  /\ SubSeq(a, m + 1, n) \in Seq(S) /\ Len(SubSeq(a, m + 1, n)) = n - m
         /\ \A i \in 1 .. n - m : SubSeq(a, m + 1, n)[i] = a[m + i]
OBVIOUS

IsPart(S, a, m, n, b) ==
  b \in Seq(S) /\ Len(b) = n - m /\ \A i \in 1 .. n - m : b[i] = a[m + i]

\* A part of a sequence, under a name of its own.
LEMMA PartIs ==
  ASSUME NEW S, NEW a \in Seq(S), NEW m \in Nat, NEW n \in Nat, m <= n, n <= Len(a),
         NEW b, b = SubSeq(a, m + 1, n)
  PROVE  IsPart(S, a, m, n, b)
BY PartOf, Zenon DEF IsPart

\* The first n elements of a sequence.
LEMMA FirstPartIs ==
  ASSUME NEW S, NEW a \in Seq(S), NEW n \in Nat, n <= Len(a), NEW b, b = SubSeq(a, 1, n)
  PROVE  b \in Seq(S) /\ Len(b) = n /\ \A i \in 1 .. n : b[i] = a[i]
OBVIOUS

\* A sequence with one more element.
LEMMA AppendedIs ==
  ASSUME NEW S, NEW a \in Seq(S), NEW x \in S, NEW n, n = Len(a), NEW b, b = Append(a, x)
  PROVE  b \in Seq(S) /\ Len(b) = n + 1 /\ b[n + 1] = x /\ \A i \in 1 .. n : b[i] = a[i]
OBVIOUS

\* A function on the first numbers is a sequence.
LEMMA FunctionIsSeq ==
  ASSUME NEW S, NEW n \in Nat, NEW f \in [1 .. n -> S]
  PROVE  f \in Seq(S) /\ Len(f) = n
OBVIOUS

\* A number of 16 bits is read back from its two bytes.
LEMMA TwoBytes ==
  ASSUME NEW n \in Nat, n < 65536
  PROVE  /\ Uint16(n) \in Data /\ Len(Uint16(n)) = 2
         /\ Uint16(n)[1] + 256 * Uint16(n)[2] = n
<1>1. n % 256 \in Bytes /\ n \div 256 \in Bytes
  BY DEF Bytes
<1>2. (n \div 256) % 256 = n \div 256
  BY <1>1 DEF Bytes
<1>3. (n % 256) + 256 * (n \div 256) = n
  OBVIOUS
<1> QED
  BY <1>1, <1>2, <1>3 DEF Uint16, Data

\* Data that is joined.
Makes(a, b, c) ==
  /\ c \in Data /\ Len(c) = Len(a) + Len(b)
  /\ \A i \in 1 .. Len(a) : c[i] = a[i]
  /\ \A i \in 1 .. Len(b) : c[Len(a) + i] = b[i]

\* What \o makes.
LEMMA JoinedData ==
  ASSUME NEW a \in Data, NEW b \in Data, NEW c, c = a \o b
  PROVE  Makes(a, b, c)
<1>1. a \in Seq(Bytes) /\ b \in Seq(Bytes)
  BY DEF Data
<1>2. a \o b \in Seq(Bytes)
  BY <1>1
<1>3. Joined(a, b)
  BY <1>1, JoinedSequences
<1> QED
  BY <1>2, <1>3, Zenon DEF Data, Joined, Makes

\* A slice is the data that is there.
LEMMA SliceIs ==
  ASSUME NEW d \in Data, NEW o \in Nat, NEW a \in Data, o + Len(a) <= Len(d),
         \A i \in 1 .. Len(a) : d[o + i] = a[i]
  PROVE  Slice(d, o, Len(a)) = a
<1>1. /\ d \in Seq(Bytes) /\ a \in Seq(Bytes) /\ Len(a) \in Nat /\ Len(d) \in Nat
      /\ o + Len(a) \in Nat /\ o <= o + Len(a) /\ o + Len(a) - o = Len(a)
  BY DEF Data
<1>2. PICK b : b = SubSeq(d, o + 1, o + Len(a))
  OBVIOUS
<1>3. b \in Seq(Bytes) /\ Len(b) = Len(a) /\ \A i \in 1 .. Len(a) : b[i] = d[o + i]
  BY <1>1, <1>2, PartOf
<1>4. b = a
  BY <1>1, <1>3, SameSequences
<1> QED
  BY <1>2, <1>4 DEF Slice

\* The eight bytes of an id.
LEMMA EightBytes ==
  ASSUME NEW n \in Nat
  PROVE  Uint64(n) \in Data /\ Len(Uint64(n)) = 8
<1>1. n % 256 \in Bytes /\ (n \div 256) % 256 \in Bytes /\ 0 \in Bytes
  BY DEF Bytes
<1>2. Uint16(n) \in Data /\ Len(Uint16(n)) = 2
  BY <1>1 DEF Uint16, Data
<1>3. Zeros(6) \in Data /\ Len(Zeros(6)) = 6
  <2>1. Zeros(6) \in [1 .. 6 -> Bytes]
    BY <1>1 DEF Zeros
  <2> QED
    BY <2>1, FunctionIsSeq DEF Data
<1>4. PICK a, b, c : a = Uint16(n) /\ b = Zeros(6) /\ c = a \o b
  OBVIOUS
<1>5. a \in Data /\ Len(a) = 2 /\ b \in Data /\ Len(b) = 6 /\ c = a \o b
  BY <1>2, <1>3, <1>4, Zenon
<1>6. c \in Data /\ Len(c) = 8
  <2>1. Makes(a, b, c)
    BY <1>5, JoinedData
  <2> QED
    BY <1>5, <2>1 DEF Makes
<1>7. Uint64(n) = c
  BY <1>4 DEF Uint64
<1> QED
  BY <1>6, <1>7

\* The timestamp that every entry has.
LEMMA ClockBytes8 == Timestamp \in Data /\ Len(Timestamp) = 8
<1>1. Timestamp \in [1 .. 8 -> Bytes]
  BY WriteAheadLogAssumption
<1> QED
  BY <1>1, FunctionIsSeq DEF Data

\* Where the bytes of each field are in an entry.
Fields(e, s) ==
  /\ s \in Data /\ Len(s) = Size(e)
  /\ \A i \in 1 .. 4 : s[i] = e.type[i]
  /\ \A i \in 1 .. 8 : s[4 + i] = e.txnId[i]
  /\ \A i \in 1 .. 2 : s[20 + i] = Uint16(Len(e.key))[i]
  /\ \A i \in 1 .. Len(e.key) : s[22 + i] = e.key[i]
  /\ \A i \in 1 .. 2 : s[22 + Len(e.key) + i] = Uint16(Len(e.value))[i]
  /\ \A i \in 1 .. Len(e.value) : s[24 + Len(e.key) + i] = e.value[i]

\* Each field of an entry is where deserializeEntry looks for it.
LEMMA SerializeFields ==
  ASSUME NEW e \in Entries
  PROVE  Fields(e, Serialize(e))
<1>1. /\ e.type \in Data /\ e.txnId \in Data /\ e.key \in Data /\ e.value \in Data
      /\ Len(e.type) = 4 /\ Len(e.txnId) = 8
      /\ Len(e.key) < 65536 /\ Len(e.value) < 65536
  BY DEF Entries
<1>2. Len(e.key) \in Nat /\ Len(e.value) \in Nat
  BY <1>1 DEF Data
<1>3. /\ Uint16(Len(e.key)) \in Data /\ Len(Uint16(Len(e.key))) = 2
      /\ Uint16(Len(e.value)) \in Data /\ Len(Uint16(Len(e.value))) = 2
  BY <1>1, <1>2, TwoBytes
<1>4. Timestamp \in Data /\ Len(Timestamp) = 8
  BY ClockBytes8
<1>5. PICK type, txnId, clock, klen, key, vlen, value :
        /\ type = e.type /\ txnId = e.txnId /\ clock = Timestamp
        /\ klen = Uint16(Len(e.key)) /\ key = e.key
        /\ vlen = Uint16(Len(e.value)) /\ value = e.value
  OBVIOUS
<1>6. /\ type \in Data /\ txnId \in Data /\ clock \in Data /\ klen \in Data /\ key \in Data
      /\ vlen \in Data /\ value \in Data
      /\ Len(type) = 4 /\ Len(txnId) = 8 /\ Len(clock) = 8
      /\ Len(klen) = 2 /\ Len(vlen) = 2 /\ Len(key) \in Nat /\ Len(value) \in Nat
  <2>1. type \in Data /\ Len(type) = 4
    BY <1>1, <1>5
  <2>2. txnId \in Data /\ Len(txnId) = 8
    BY <1>1, <1>5
  <2>3. clock \in Data /\ Len(clock) = 8
    BY <1>4, <1>5
  <2>4. klen \in Data /\ Len(klen) = 2
    BY <1>3, <1>5
  <2>5. vlen \in Data /\ Len(vlen) = 2
    BY <1>3, <1>5
  <2>6. key \in Data /\ Len(key) \in Nat
    BY <1>1, <1>2, <1>5
  <2>7. value \in Data /\ Len(value) \in Nat
    BY <1>1, <1>2, <1>5
  <2> QED
    BY <2>1, <2>2, <2>3, <2>4, <2>5, <2>6, <2>7, Zenon
<1>7. PICK a, b, c, d, f, s :
        /\ a = type \o txnId /\ b = a \o clock /\ c = b \o klen /\ d = c \o key
        /\ f = d \o vlen /\ s = f \o value
  OBVIOUS
<1>8. Serialize(e) = s
  BY <1>5, <1>7 DEF Serialize
<1>9. /\ a \in Data /\ Len(a) = 12
      /\ \A i \in 1 .. 4 : a[i] = type[i]
      /\ \A i \in 1 .. 8 : a[4 + i] = txnId[i]
  <2>1. Makes(type, txnId, a)
    BY <1>6, <1>7, JoinedData
  <2> QED
    BY <1>6, <2>1 DEF Makes
<1>10. b \in Data /\ Len(b) = 20 /\ \A i \in 1 .. 12 : b[i] = a[i]
  <2>1. Makes(a, clock, b)
    BY <1>6, <1>9, <1>7, JoinedData
  <2> QED
    BY <1>6, <1>9, <2>1 DEF Makes
<1>11. /\ c \in Data /\ Len(c) = 22
       /\ \A i \in 1 .. 20 : c[i] = b[i]
       /\ \A i \in 1 .. 2 : c[20 + i] = klen[i]
  <2>1. Makes(b, klen, c)
    BY <1>6, <1>10, <1>7, JoinedData
  <2> QED
    BY <1>6, <1>10, <2>1 DEF Makes
<1>12. /\ d \in Data /\ Len(d) = 22 + Len(key)
       /\ \A i \in 1 .. 22 : d[i] = c[i]
       /\ \A i \in 1 .. Len(key) : d[22 + i] = key[i]
  <2>1. Makes(c, key, d)
    BY <1>6, <1>11, <1>7, JoinedData
  <2> QED
    BY <1>6, <1>11, <2>1 DEF Makes
<1>13. /\ f \in Data /\ Len(f) = 24 + Len(key)
       /\ \A i \in 1 .. 22 + Len(key) : f[i] = d[i]
       /\ \A i \in 1 .. 2 : f[22 + Len(key) + i] = vlen[i]
  <2>1. Makes(d, vlen, f)
    BY <1>6, <1>12, <1>7, JoinedData
  <2> QED
    BY <1>6, <1>12, <2>1 DEF Makes
<1>14. /\ s \in Data /\ Len(s) = 24 + Len(key) + Len(value)
       /\ \A i \in 1 .. 24 + Len(key) : s[i] = f[i]
       /\ \A i \in 1 .. Len(value) : s[24 + Len(key) + i] = value[i]
  <2>1. Makes(f, value, s)
    BY <1>6, <1>13, <1>7, JoinedData
  <2> QED
    BY <1>6, <1>13, <2>1 DEF Makes
<1>15. \A i \in 1 .. 22 : s[i] = c[i]
  <2> SUFFICES ASSUME NEW i \in 1 .. 22 PROVE s[i] = c[i]
    OBVIOUS
  <2>1. i \in 1 .. 22 + Len(key) /\ i \in 1 .. 24 + Len(key)
    BY <1>6
  <2> QED
    BY <1>12, <1>13, <1>14, <2>1
<1>16. \A i \in 1 .. 20 : s[i] = b[i]
  BY <1>11, <1>15
<1>17. \A i \in 1 .. 4 : s[i] = type[i]
  BY <1>9, <1>10, <1>16
<1>18. \A i \in 1 .. 8 : s[4 + i] = txnId[i]
  <2> SUFFICES ASSUME NEW i \in 1 .. 8 PROVE s[4 + i] = txnId[i]
    OBVIOUS
  <2>1. 4 + i \in 1 .. 12 /\ 4 + i \in 1 .. 20
    OBVIOUS
  <2> QED
    BY <1>9, <1>10, <1>16, <2>1
<1>19. \A i \in 1 .. 2 : s[20 + i] = klen[i]
  BY <1>11, <1>15
<1>20. \A i \in 1 .. Len(key) : s[22 + i] = key[i]
  <2> SUFFICES ASSUME NEW i \in 1 .. Len(key) PROVE s[22 + i] = key[i]
    OBVIOUS
  <2>1. 22 + i \in 1 .. 22 + Len(key) /\ 22 + i \in 1 .. 24 + Len(key)
    BY <1>6
  <2> QED
    BY <1>12, <1>13, <1>14, <2>1
<1>21. \A i \in 1 .. 2 : s[22 + Len(key) + i] = vlen[i]
  BY <1>6, <1>13, <1>14
<1>22. Len(s) = Size(e)
  BY <1>5, <1>14, Zenon DEF Size
<1>23. Fields(e, s)
  <2>1. s \in Data /\ \A i \in 1 .. Len(value) : s[24 + Len(key) + i] = value[i]
    BY <1>14
  <2> QED
    BY <1>5, <1>17, <1>18, <1>19, <1>20, <1>21, <1>22, <2>1, Zenon DEF Fields
<1> QED
  BY <1>8, <1>23

\* Where data begins like an entry, the lengths in it are those of the entry.
LEMMA LengthsRead ==
  ASSUME NEW e \in Entries, NEW d \in Data,
         \A j \in 1 .. Size(e) : j <= Len(d) => d[j] = Serialize(e)[j]
  PROVE  /\ Len(e.key) \in Nat /\ Len(e.value) \in Nat /\ Len(d) \in Nat
         /\ Size(e) = 24 + Len(e.key) + Len(e.value)
         /\ Len(d) >= 22 => Word(d, 20) = Len(e.key)
         /\ Len(d) >= 24 + Len(e.key) => Word(d, 22 + Len(e.key)) = Len(e.value)
<1>1. /\ e.key \in Data /\ e.value \in Data
      /\ Len(e.key) < 65536 /\ Len(e.value) < 65536
  BY DEF Entries
<1>2. Len(e.key) \in Nat /\ Len(e.value) \in Nat /\ Len(d) \in Nat
  BY <1>1 DEF Data
<1>3. Size(e) = 24 + Len(e.key) + Len(e.value)
  BY DEF Size
<1>4. PICK k, v, s, klen, vlen :
        /\ k = Len(e.key) /\ v = Len(e.value) /\ s = Serialize(e)
        /\ klen = Uint16(Len(e.key)) /\ vlen = Uint16(Len(e.value))
  OBVIOUS
<1>5. /\ k \in Nat /\ v \in Nat
      /\ klen[1] + 256 * klen[2] = k /\ vlen[1] + 256 * vlen[2] = v
  <2>1. Uint16(Len(e.key))[1] + 256 * Uint16(Len(e.key))[2] = Len(e.key)
    BY <1>1, <1>2, TwoBytes
  <2>2. Uint16(Len(e.value))[1] + 256 * Uint16(Len(e.value))[2] = Len(e.value)
    BY <1>1, <1>2, TwoBytes
  <2> QED
    BY <1>2, <1>4, <2>1, <2>2
<1>6. /\ \A i \in 1 .. 2 : s[20 + i] = klen[i]
      /\ \A i \in 1 .. 2 : s[22 + k + i] = vlen[i]
  BY <1>4, SerializeFields DEF Fields
<1>7. s[21] = klen[1] /\ s[22] = klen[2] /\ s[23 + k] = vlen[1] /\ s[24 + k] = vlen[2]
  BY <1>5, <1>6
<1>8. \A j \in 1 .. 24 + k + v : j <= Len(d) => d[j] = s[j]
  BY <1>3, <1>4
<1>9. Len(d) >= 22 => d[21] = s[21] /\ d[22] = s[22]
  BY <1>2, <1>5, <1>8
<1>10. Len(d) >= 24 + k => d[23 + k] = s[23 + k] /\ d[24 + k] = s[24 + k]
  BY <1>2, <1>5, <1>8
<1>11. Len(d) >= 22 => Word(d, 20) = k
  BY <1>5, <1>7, <1>9 DEF Word
<1>12. Len(d) >= 24 + k => Word(d, 22 + k) = v
  BY <1>5, <1>7, <1>10 DEF Word
<1> QED
  BY <1>2, <1>3, <1>4, <1>11, <1>12

\* deserializeEntry gives back the entry, whatever follows it.
LEMMA DeserializeWhole ==
  ASSUME NEW e \in Entries, NEW d \in Data, Size(e) <= Len(d),
         \A j \in 1 .. Size(e) : d[j] = Serialize(e)[j]
  PROVE  Deserialize(d) = e
<1>1. /\ e \in [type : Data, txnId : Data, key : Data, value : Data]
      /\ Len(e.type) = 4 /\ Len(e.txnId) = 8
  BY DEF Entries
<1>2. /\ Len(e.key) \in Nat /\ Len(e.value) \in Nat /\ Len(d) \in Nat
      /\ Size(e) = 24 + Len(e.key) + Len(e.value)
      /\ Len(d) >= 22 => Word(d, 20) = Len(e.key)
      /\ Len(d) >= 24 + Len(e.key) => Word(d, 22 + Len(e.key)) = Len(e.value)
  BY LengthsRead
<1>3. PICK k, v, s, type, txnId, key, value :
        /\ k = Len(e.key) /\ v = Len(e.value) /\ s = Serialize(e)
        /\ type = e.type /\ txnId = e.txnId /\ key = e.key /\ value = e.value
  OBVIOUS
<1>4. /\ type \in Data /\ txnId \in Data /\ key \in Data /\ value \in Data
      /\ Len(type) = 4 /\ Len(txnId) = 8 /\ Len(key) = k /\ Len(value) = v
      /\ k \in Nat /\ v \in Nat /\ Len(d) \in Nat /\ Len(d) >= 24 + k + v
  BY <1>1, <1>2, <1>3
<1>5. Word(d, 20) = k /\ Word(d, 22 + k) = v
  <2>1. Len(d) >= 22 /\ Len(d) >= 24 + k
    BY <1>4
  <2> QED
    BY <1>2, <1>3, <2>1
<1>6. \A j \in 1 .. 24 + k + v : d[j] = s[j]
  BY <1>2, <1>3
<1>7. /\ \A i \in 1 .. 4 : s[i] = type[i]
      /\ \A i \in 1 .. 8 : s[4 + i] = txnId[i]
      /\ \A i \in 1 .. k : s[22 + i] = key[i]
      /\ \A i \in 1 .. v : s[24 + k + i] = value[i]
  BY <1>3, SerializeFields DEF Fields
<1>8. Slice(d, 0, 4) = type
  <2>1. \A i \in 1 .. Len(type) : d[0 + i] = type[i]
    BY <1>4, <1>6, <1>7
  <2>2. 0 + Len(type) <= Len(d)
    BY <1>4
  <2>3. Slice(d, 0, Len(type)) = type
    BY <1>4, <2>1, <2>2, SliceIs
  <2> QED
    BY <1>4, <2>3, Zenon
<1>9. Slice(d, 4, 8) = txnId
  <2>1. \A i \in 1 .. Len(txnId) : d[4 + i] = txnId[i]
    <3> SUFFICES ASSUME NEW i \in 1 .. 8 PROVE d[4 + i] = txnId[i]
      BY <1>4
    <3>1. 4 + i \in 1 .. 24 + k + v
      BY <1>4
    <3> QED
      BY <1>6, <1>7, <3>1
  <2>2. 4 + Len(txnId) <= Len(d)
    BY <1>4
  <2>3. Slice(d, 4, Len(txnId)) = txnId
    BY <1>4, <2>1, <2>2, SliceIs
  <2> QED
    BY <1>4, <2>3, Zenon
<1>10. Slice(d, 22, k) = key
  <2>1. \A i \in 1 .. Len(key) : d[22 + i] = key[i]
    <3> SUFFICES ASSUME NEW i \in 1 .. k PROVE d[22 + i] = key[i]
      BY <1>4
    <3>1. 22 + i \in 1 .. 24 + k + v
      BY <1>4
    <3> QED
      BY <1>6, <1>7, <3>1
  <2>2. 22 + Len(key) <= Len(d)
    BY <1>4
  <2>3. Slice(d, 22, Len(key)) = key
    BY <1>4, <2>1, <2>2, SliceIs
  <2> QED
    BY <1>4, <2>3, Zenon
<1>11. Slice(d, 24 + k, v) = value
  <2>1. \A i \in 1 .. Len(value) : d[24 + k + i] = value[i]
    <3> SUFFICES ASSUME NEW i \in 1 .. v PROVE d[24 + k + i] = value[i]
      BY <1>4
    <3>1. 24 + k + i \in 1 .. 24 + k + v
      BY <1>4
    <3> QED
      BY <1>6, <1>7, <3>1
  <2>2. 24 + k \in Nat /\ 24 + k + Len(value) <= Len(d)
    BY <1>4
  <2>3. Slice(d, 24 + k, Len(value)) = value
    BY <1>4, <2>1, <2>2, SliceIs
  <2> QED
    BY <1>4, <2>3, Zenon
<1>12. ~ (Len(d) < 22 \/ Len(d) < 24 + k \/ Len(d) < 24 + k + v)
  BY <1>4
<1>13. Deserialize(d) = [type |-> type, txnId |-> txnId, key |-> key, value |-> value]
  BY <1>5, <1>8, <1>9, <1>10, <1>11, <1>12, Zenon DEF Deserialize
<1>14. e = [type |-> type, txnId |-> txnId, key |-> key, value |-> value]
  BY <1>1, <1>3
<1> QED
  BY <1>13, <1>14

\* It refuses a part of an entry.
LEMMA DeserializePart ==
  ASSUME NEW e \in Entries, NEW d \in Data, Len(d) < Size(e),
         \A j \in 1 .. Len(d) : d[j] = Serialize(e)[j]
  PROVE  Deserialize(d) = NoEntry
<1>1. /\ Len(e.key) \in Nat /\ Len(e.value) \in Nat /\ Len(d) \in Nat
      /\ Size(e) = 24 + Len(e.key) + Len(e.value)
      /\ Len(d) >= 22 => Word(d, 20) = Len(e.key)
      /\ Len(d) >= 24 + Len(e.key) => Word(d, 22 + Len(e.key)) = Len(e.value)
  <2>1. \A j \in 1 .. Size(e) : j <= Len(d) => d[j] = Serialize(e)[j]
    <3>1. Len(d) \in Nat
      BY DEF Data
    <3> QED
      BY <3>1
  <2> QED
    BY <2>1, LengthsRead
<1>2. CASE Len(d) < 22
  BY <1>2, Zenon DEF Deserialize
<1>3. CASE Len(d) >= 22 /\ Len(d) < 24 + Len(e.key)
  <2>1. Word(d, 20) = Len(e.key)
    BY <1>1, <1>3
  <2> QED
    BY <1>3, <2>1, Zenon DEF Deserialize
<1>4. CASE Len(d) >= 24 + Len(e.key)
  <2>1. Word(d, 20) = Len(e.key) /\ Word(d, 22 + Len(e.key)) = Len(e.value)
    BY <1>1, <1>4
  <2>2. Len(d) < 24 + Len(e.key) + Len(e.value)
    BY <1>1
  <2> QED
    BY <2>1, <2>2, Zenon DEF Deserialize
<1> QED
  BY <1>1, <1>2, <1>3, <1>4

\* The size of an entry is a number.
LEMMA LengthsOf ==
  ASSUME NEW e \in Entries
  PROVE  /\ Len(e.key) \in Nat /\ Len(e.value) \in Nat
         /\ Size(e) = 24 + Len(e.key) + Len(e.value) /\ Size(e) \in Nat
<1>1. e.key \in Data /\ e.value \in Data
  BY DEF Entries
<1>2. PICK k, v, m : k = Len(e.key) /\ v = Len(e.value) /\ m = Size(e)
  OBVIOUS
<1>3. k \in Nat /\ v \in Nat
  BY <1>1, <1>2 DEF Data
<1>4. m = 24 + k + v
  BY <1>2, Zenon DEF Size
<1>5. m \in Nat
  BY <1>3, <1>4
<1> QED
  BY <1>2, <1>3, <1>4, <1>5, Zenon

\* An entry is not what stands for none.
LEMMA EntryIsOne == ASSUME NEW e \in Entries PROVE e # NoEntry
<1>1. e \in [type : Data, txnId : Data, key : Data, value : Data]
  BY DEF Entries
<1>2. "type" \in DOMAIN e
  BY <1>1
<1>3. DOMAIN NoEntry = {}
  BY DEF NoEntry
<1> QED
  BY <1>2, <1>3

------------------------------------------------------------------------------
(* Reading one entry after the other *)

\* What deserializeEntry makes of the data from an offset on.
ReadAt(d, o) == Deserialize(SubSeq(d, o + 1, Len(d)))

\* The entries from an offset on, when f has those from the later ones on.
DecodedBody(d, f, o) ==
  IF ReadAt(d, o) = NoEntry THEN <<>> ELSE <<ReadAt(d, o)>> \o f[o + Size(ReadAt(d, o))]

\* f says of every offset what is found from there on.
Decodes(d, f) == f = [o \in 0 .. Len(d) |-> DecodedBody(d, f, o)]

\* Decoded is the value at offset 0 of such a function.
LEMMA DecodedDecodes == ASSUME NEW d PROVE Decoded(d) = (CHOOSE f : Decodes(d, f))[0]
BY Zenon DEF Decoded, Decodes, DecodedBody, ReadAt

\* An entry that is read is as long as its two lengths say, and they are compared
\* with what is there.
LEMMA EntryFits ==
  ASSUME NEW d \in Data, Deserialize(d) # NoEntry
  PROVE  Size(Deserialize(d)) \in 24 .. Len(d)
<1>1. PICK n, k, v : n = Len(d) /\ k = Word(d, 20) /\ v = Word(d, 22 + k)
  OBVIOUS
<1>2. ~ (n < 22) /\ ~ (n < 24 + k) /\ ~ (n < 24 + k + v)
  BY <1>1, Zenon DEF Deserialize
<1>3. n \in Nat /\ \A i \in 1 .. n : d[i] \in Nat
  <2>1. d \in Seq(Bytes)
    BY DEF Data
  <2>2. Len(d) \in Nat /\ DOMAIN d = 1 .. Len(d) /\ \A i \in DOMAIN d : d[i] \in Bytes
    BY <2>1, SeqElements
  <2>3. \A b \in Bytes : b \in Nat
    BY DEF Bytes
  <2> QED
    BY <1>1, <2>2, <2>3, Zenon
<1>4. k \in Nat
  <2>1. d[21] \in Nat /\ d[22] \in Nat
    BY <1>2, <1>3
  <2>2. k = d[20 + 1] + 256 * d[20 + 2]
    BY <1>1, Zenon DEF Word
  <2> QED
    BY <2>1, <2>2
<1>5. v \in Nat
  <2>1. d[22 + k + 1] \in Nat /\ d[22 + k + 2] \in Nat
    BY <1>2, <1>3, <1>4
  <2>2. v = d[22 + k + 1] + 256 * d[22 + k + 2]
    BY <1>1, Zenon DEF Word
  <2> QED
    BY <2>1, <2>2
<1>6. n >= 24 + k /\ n >= 24 + k + v
  BY <1>2, <1>3, <1>4, <1>5
<1>7. PICK key, value : key = Slice(d, 22, k) /\ value = Slice(d, 24 + k, v)
  OBVIOUS
<1>8. Deserialize(d) = [type |-> Slice(d, 0, 4), txnId |-> Slice(d, 4, 8),
                        key |-> key, value |-> value]
  BY <1>1, <1>2, <1>7, Zenon DEF Deserialize
<1>9. Len(key) = k
  <2>1. PICK m : m = 22 + k
    OBVIOUS
  <2>2. d \in Seq(Bytes) /\ m \in Nat /\ 22 <= m /\ m <= Len(d) /\ m - 22 = k
    BY <1>1, <1>3, <1>4, <1>6, <2>1 DEF Data
  <2>3. Len(SubSeq(d, 22 + 1, m)) = m - 22
    BY <2>2, PartOf
  <2> QED
    BY <1>7, <2>1, <2>2, <2>3, Zenon DEF Slice
<1>10. Len(value) = v
  <2>1. PICK m, l : m = 24 + k /\ l = m + v
    OBVIOUS
  <2>2. d \in Seq(Bytes) /\ m \in Nat /\ l \in Nat /\ m <= l /\ l <= Len(d) /\ l - m = v
    <3>1. d \in Seq(Bytes) /\ Len(d) = n
      BY <1>1 DEF Data
    <3>2. n \in Nat
      BY <1>3
    <3>3. m \in Nat /\ l \in Nat /\ m <= l /\ l <= n /\ l - m = v
      BY <1>4, <1>5, <1>6, <2>1, <3>2
    <3> QED
      BY <3>1, <3>3
  <2>3. Len(SubSeq(d, m + 1, l)) = l - m
    BY <2>2, PartOf
  <2> QED
    BY <1>7, <2>1, <2>2, <2>3, Zenon DEF Slice
<1>11. Size(Deserialize(d)) = 24 + k + v
  BY <1>8, <1>9, <1>10 DEF Size
<1> QED
  BY <1>1, <1>3, <1>4, <1>5, <1>6, <1>11

\* What is behind an entry is behind its offset.
LEMMA ReadMovesOn ==
  ASSUME NEW d \in Data, NEW o \in 0 .. Len(d), ReadAt(d, o) # NoEntry
  PROVE  o + Size(ReadAt(d, o)) \in o + 1 .. Len(d)
<1>1. PICK r : r = SubSeq(d, o + 1, Len(d))
  OBVIOUS
<1>2. d \in Seq(Bytes) /\ Len(d) \in Nat /\ o \in Nat /\ o <= Len(d)
  BY DEF Data
<1>3. r \in Seq(Bytes) /\ Len(r) = Len(d) - o
  BY <1>1, <1>2, PartOf
<1>4. ReadAt(d, o) = Deserialize(r)
  BY <1>1, Zenon DEF ReadAt
<1>5. Size(ReadAt(d, o)) \in 24 .. Len(r)
  BY <1>3, <1>4, EntryFits DEF Data
<1> QED
  BY <1>2, <1>3, <1>5

\* The body looks at later offsets only.
LEMMA DecodedBodyLater ==
  ASSUME NEW d \in Data, NEW f, NEW g, NEW o \in 0 .. Len(d),
         \A m \in o + 1 .. Len(d) : f[m] = g[m]
  PROVE  DecodedBody(d, f, o) = DecodedBody(d, g, o)
<1>1. CASE ReadAt(d, o) = NoEntry
  BY <1>1 DEF DecodedBody
<1>2. CASE ReadAt(d, o) # NoEntry
  <2>1. f[o + Size(ReadAt(d, o))] = g[o + Size(ReadAt(d, o))]
    BY <1>2, ReadMovesOn
  <2> QED
    BY <1>2, <2>1, Zenon DEF DecodedBody
<1> QED
  BY <1>1, <1>2

\* There is such a function: it is defined from the end of d backwards.
LEMMA DecodesExists ==
  ASSUME NEW d \in Data
  PROVE  \E f : Decodes(d, f)
<1> DEFINE n == Len(d)
<1>0. n \in Nat
  BY DEF Data
<1> DEFINE G == {i \in 1 .. n + 1 : \E f : f = [o \in i - 1 .. n |-> DecodedBody(d, f, o)]}
<1>1. ASSUME NEW i \in 1 .. n + 1, \A j \in i + 1 .. n + 1 : j \in G PROVE i \in G
  <2>1. PICK f : i # n + 1 => f = [o \in i .. n |-> DecodedBody(d, f, o)]
    <3>1. i # n + 1 => i + 1 \in i + 1 .. n + 1 /\ i + 1 - 1 = i
      BY <1>0
    <3> QED
      BY <1>1, <3>1
  <2> DEFINE new == DecodedBody(d, f, i - 1)
  <2> DEFINE g == [o \in i - 1 .. n |-> IF o = i - 1 THEN new ELSE f[o]]
  <2>2. \A o \in i .. n : f[o] = DecodedBody(d, f, o)
    BY <1>0, <2>1
  <2> HIDE DEF new
  <2>3. \A o \in i .. n : g[o] = f[o]
    BY <1>0
  <2> HIDE DEF g
  <2>4. \A o \in i - 1 .. n : DecodedBody(d, g, o) = DecodedBody(d, f, o)
    <3> SUFFICES ASSUME NEW o \in i - 1 .. n
                 PROVE  DecodedBody(d, g, o) = DecodedBody(d, f, o)
      OBVIOUS
    <3>1. o \in 0 .. n /\ \A m \in o + 1 .. n : g[m] = f[m]
      BY <1>0, <2>3
    <3> QED
      BY <3>1, DecodedBodyLater
  <2>5. \A o \in i - 1 .. n : (IF o = i - 1 THEN new ELSE f[o]) = DecodedBody(d, g, o)
    BY <1>0, <2>2, <2>4 DEF new
  <2>6. g = [o \in i - 1 .. n |-> DecodedBody(d, g, o)]
    BY <2>5 DEF g
  <2> QED
    BY <2>6
<1>2. 1 \in G
  <2> HIDE DEF G
  <2>1. 1 .. n + 1 \subseteq G
    BY <1>0, <1>1, DownInduction
  <2> QED
    BY <1>0, <2>1
<1>3. PICK f : f = [o \in 1 - 1 .. n |-> DecodedBody(d, f, o)]
  BY <1>2
<1>4. 1 - 1 .. n = 0 .. n
  OBVIOUS
<1>5. f = [o \in 0 .. n |-> DecodedBody(d, f, o)]
  BY <1>3, <1>4, Zenon
<1> QED
  BY <1>5 DEF Decodes

\* The entries w are in d, the first at offset p[0] = 0 and each where the one
\* before it ends.
LaidOut(d, w, p) ==
  /\ w \in Seq(Entries) /\ p \in [0 .. Len(w) -> 0 .. Len(d)] /\ p[0] = 0
  /\ \A i \in 1 .. Len(w) :
       /\ p[i] = p[i - 1] + Size(w[i])
       /\ \A j \in 1 .. Size(w[i]) : d[p[i - 1] + j] = Serialize(w[i])[j]

\* Each of them is read where it is.
LEMMA LaidOutRead ==
  ASSUME NEW d \in Data, NEW w, NEW p, LaidOut(d, w, p), NEW i \in 1 .. Len(w)
  PROVE  ReadAt(d, p[i - 1]) = w[i]
<1>1. /\ Len(w) \in Nat /\ w[i] \in Entries /\ i - 1 \in 0 .. Len(w) /\ i \in 0 .. Len(w)
  BY DEF LaidOut
<1>2. PICK e, o, m : e = w[i] /\ o = p[i - 1] /\ m = Size(e)
  OBVIOUS
<1>3. /\ e \in Entries /\ o \in 0 .. Len(d) /\ o + m \in 0 .. Len(d)
      /\ \A j \in 1 .. m : d[o + j] = Serialize(e)[j]
  BY <1>1, <1>2 DEF LaidOut
<1>4. m \in Nat
  BY <1>2, <1>3, LengthsOf
<1>5. PICK r : r = SubSeq(d, o + 1, Len(d))
  OBVIOUS
<1>6. d \in Seq(Bytes) /\ Len(d) \in Nat /\ o \in Nat /\ o <= Len(d) /\ o + m <= Len(d)
  BY <1>3, <1>4 DEF Data
<1>7. /\ r \in Seq(Bytes) /\ Len(r) = Len(d) - o
      /\ \A j \in 1 .. Len(d) - o : r[j] = d[o + j]
  BY <1>5, <1>6, PartOf
<1>8. m <= Len(r) /\ \A j \in 1 .. m : r[j] = Serialize(e)[j]
  BY <1>3, <1>4, <1>6, <1>7
<1>9. Deserialize(r) = e
  BY <1>2, <1>3, <1>7, <1>8, DeserializeWhole DEF Data
<1> QED
  BY <1>2, <1>5, <1>9, Zenon DEF ReadAt

\* What deserializeEntry finds in d begins with w, and is w if no entry follows.
Finds(d, w, p) ==
  /\ \E S : Decoded(d) \in Seq(S)
  /\ Len(w) <= Len(Decoded(d))
  /\ \A i \in 1 .. Len(w) : Decoded(d)[i] = w[i]
  /\ ReadAt(d, p[Len(w)]) = NoEntry => Len(Decoded(d)) = Len(w)

\* By induction from the last entry back, and from there to the end of d.
LEMMA DecodedFinds ==
  ASSUME NEW d \in Data, NEW w, NEW p, LaidOut(d, w, p)
  PROVE  Finds(d, w, p)
<1> DEFINE n == Len(w)
<1> DEFINE f == CHOOSE f : Decodes(d, f)
<1>1. Decodes(d, f) /\ Decoded(d) = f[0]
  BY DecodesExists, DecodedDecodes
<1> HIDE DEF f
<1>2. \A o \in 0 .. Len(d) : f[o] = DecodedBody(d, f, o)
  BY <1>1 DEF Decodes
<1>3. Len(d) \in Nat /\ n \in Nat /\ p[0] = 0 /\ \A i \in 0 .. n : p[i] \in 0 .. Len(d)
  <2>1. Len(d) \in Nat
    BY DEF Data
  <2>2. w \in Seq(Entries) /\ p \in [0 .. n -> 0 .. Len(d)] /\ p[0] = 0
    BY Zenon DEF LaidOut
  <2>3. n \in Nat
    BY <2>2
  <2> HIDE DEF n
  <2> QED
    BY <2>1, <2>2, <2>3
<1>R. PICK R : R = {ReadAt(d, o) : o \in 0 .. Len(d)}
  OBVIOUS
\* Whatever is found from any offset on is a sequence.
<1>4. ASSUME NEW o \in 0 .. Len(d) PROVE f[o] \in Seq(R)
  <2> DEFINE G == {i \in 1 .. Len(d) + 1 : f[i - 1] \in Seq(R)}
  <2>1. ASSUME NEW i \in 1 .. Len(d) + 1, \A j \in i + 1 .. Len(d) + 1 : j \in G
        PROVE  i \in G
    <3>1. PICK u, r : u = i - 1 /\ r = ReadAt(d, u)
      OBVIOUS
    <3>2. u \in 0 .. Len(d)
      BY <1>3, <3>1
    <3>3. f[u] = IF r = NoEntry THEN <<>> ELSE <<r>> \o f[u + Size(r)]
      BY <1>2, <3>1, <3>2, Zenon DEF DecodedBody
    <3>4. CASE r = NoEntry
      <4>1. f[u] = <<>>
        BY <3>3, <3>4
      <4>2. f[u] \in Seq(R)
        BY <4>1
      <4> QED
        BY <3>1, <4>2
    <3>5. CASE r # NoEntry
      <4>1. u + Size(r) \in u + 1 .. Len(d)
        BY <3>1, <3>2, <3>5, ReadMovesOn
      <4>2. PICK v : v = u + Size(r)
        OBVIOUS
      <4>3. v + 1 \in i + 1 .. Len(d) + 1 /\ v \in Nat
        BY <1>3, <3>1, <3>2, <4>1, <4>2
      <4>4. f[v] \in Seq(R)
        <5>1. PICK j : j = v + 1
          OBVIOUS
        <5>4. j - 1 = v
          BY <4>3, <5>1
        <5>2. j \in G
          <6>1. j \in i + 1 .. Len(d) + 1
            BY <4>3, <5>1, Zenon
          <6> QED
            BY <2>1, <6>1, Zenon
        <5>3. f[j - 1] \in Seq(R)
          BY <5>2, Zenon
        <5> QED
          BY <5>3, <5>4, Zenon
      <4>5. r \in R
        BY <1>R, <3>1, <3>2
      <4>6. <<r>> \o f[v] \in Seq(R)
        BY <4>4, <4>5
      <4> QED
        BY <3>1, <3>3, <3>5, <4>2, <4>6
    <3> QED
      BY <3>4, <3>5
  <2>2. o + 1 \in G
    <3> HIDE DEF G
    <3>1. 1 .. Len(d) + 1 \subseteq G
      BY <1>3, <2>1, DownInduction
    <3>2. o + 1 \in 1 .. Len(d) + 1
      BY <1>3
    <3> QED
      BY <3>1, <3>2
  <2>3. o + 1 - 1 = o
    OBVIOUS
  <2> QED
    BY <2>2, <2>3
\* From where entry m + 1 begins on, the rest of w is found.
<1> DEFINE Right(m) ==
      /\ n - m <= Len(f[p[m]])
      /\ \A i \in 1 .. n - m : f[p[m]][i] = w[m + i]
      /\ ReadAt(d, p[n]) = NoEntry => Len(f[p[m]]) = n - m
<1>5. Right(n)
  <2>1. f[p[n]] \in Seq(R) /\ p[n] \in 0 .. Len(d)
    BY <1>3, <1>4
  <2>2. ReadAt(d, p[n]) = NoEntry => f[p[n]] = <<>>
    BY <1>2, <2>1 DEF DecodedBody
  <2>3. ReadAt(d, p[n]) = NoEntry => Len(f[p[n]]) = 0
    BY <2>2
  <2>4. Len(f[p[n]]) \in Nat
    BY <2>1
  <2> QED
    BY <1>3, <2>3, <2>4
<1>6. ASSUME NEW m \in 0 .. n - 1, Right(m + 1) PROVE Right(m)
  <2>1. m + 1 \in 1 .. n /\ m + 1 - 1 = m /\ m \in 0 .. n /\ m + 1 \in 0 .. n
    BY <1>3
  <2>2. PICK o, e, q, rest :
          o = p[m] /\ e = w[m + 1] /\ q = p[m + 1] /\ rest = f[q]
    OBVIOUS
  <2>3. e \in Entries /\ e # NoEntry
    BY <2>1, <2>2, EntryIsOne DEF LaidOut
  <2>4. ReadAt(d, o) = e
    BY <2>1, <2>2, LaidOutRead
  <2>5. q = o + Size(e)
    BY <2>1, <2>2 DEF LaidOut
  <2>6. o \in 0 .. Len(d) /\ q \in 0 .. Len(d)
    BY <1>3, <2>1, <2>2
  <2>7. f[o] = <<e>> \o rest
    BY <1>2, <2>2, <2>3, <2>4, <2>5, <2>6, Zenon DEF DecodedBody
  <2>8. rest \in Seq(R)
    BY <1>4, <2>2, <2>6
  <2>9. PICK all : all = f[o]
    OBVIOUS
  <2>10. e \in R
    BY <1>R, <2>4, <2>6
  <2>11. Joined(<<e>>, rest)
    <3>1. <<e>> \in Seq(R)
      BY <2>10
    <3> QED
      BY <2>8, <3>1, JoinedSequences, Zenon
  <2>16. Len(<<e>>) = 1 /\ <<e>>[1] = e
    OBVIOUS
  <2>12. /\ Len(all) = 1 + Len(rest) /\ Len(rest) \in Nat /\ all[1] = e
         /\ \A i \in 1 .. Len(rest) : all[1 + i] = rest[i]
    BY <2>7, <2>9, <2>11, <2>16 DEF Joined
  <2>13. /\ n - (m + 1) <= Len(rest)
         /\ \A i \in 1 .. n - (m + 1) : rest[i] = w[m + 1 + i]
         /\ ReadAt(d, p[n]) = NoEntry => Len(rest) = n - (m + 1)
    BY <1>6, <2>2
  <2>14. \A i \in 1 .. n - m : all[i] = w[m + i]
    <3> SUFFICES ASSUME NEW i \in 1 .. n - m PROVE all[i] = w[m + i]
      OBVIOUS
    <3>1. CASE i = 1
      BY <2>2, <2>12, <3>1
    <3>2. CASE i # 1
      <4>1. i - 1 \in 1 .. n - (m + 1) /\ i - 1 \in 1 .. Len(rest)
        BY <1>3, <2>12, <2>13, <3>2
      <4>2. all[1 + (i - 1)] = rest[i - 1] /\ rest[i - 1] = w[m + 1 + (i - 1)]
        BY <2>12, <2>13, <4>1
      <4>3. 1 + (i - 1) = i /\ m + 1 + (i - 1) = m + i
        BY <1>3
      <4> QED
        BY <4>2, <4>3
    <3> QED
      BY <3>1, <3>2
  <2>15. /\ n - m <= Len(all)
         /\ ReadAt(d, p[n]) = NoEntry => Len(all) = n - m
    BY <1>3, <2>1, <2>12, <2>13
  <2> QED
    BY <2>2, <2>9, <2>14, <2>15
<1>7. Right(0)
  <2> DEFINE H == {i \in Nat : i <= n => Right(n - i)}
  <2>1. 0 \in H
    BY <1>3, <1>5
  <2>2. ASSUME NEW i \in Nat, i \in H PROVE i + 1 \in H
    <3> SUFFICES ASSUME i + 1 <= n PROVE Right(n - (i + 1))
      OBVIOUS
    <3>1. PICK m : m = n - (i + 1)
      OBVIOUS
    <3>2. m \in 0 .. n - 1 /\ m + 1 = n - i /\ i <= n
      BY <1>3, <3>1
    <3>3. Right(n - i)
      BY <2>2, <3>2
    <3> HIDE DEF Right
    <3>4. Right(m + 1)
      BY <3>2, <3>3
    <3>5. Right(m)
      BY <1>6, <3>2, <3>4
    <3> QED
      BY <3>1, <3>5
  <2>3. n \in H
    <3> HIDE DEF H
    <3> QED
      BY <1>3, <2>1, <2>2, SetInduction
  <2>4. n - n = 0
    BY <1>3
  <2> QED
    BY <1>3, <2>3, <2>4
<1>8. /\ \E S : Decoded(d) \in Seq(S)
      /\ n <= Len(Decoded(d))
      /\ \A i \in 1 .. n : Decoded(d)[i] = w[i]
      /\ ReadAt(d, p[n]) = NoEntry => Len(Decoded(d)) = n
  <2>1. n - 0 = n /\ \A i \in 1 .. n : 0 + i = i
    BY <1>3
  <2>2. Decoded(d) \in Seq(R)
    BY <1>1, <1>3, <1>4
  <2>3. /\ n <= Len(Decoded(d))
        /\ \A i \in 1 .. n : Decoded(d)[i] = w[i]
        /\ ReadAt(d, p[n]) = NoEntry => Len(Decoded(d)) = n
    BY <1>1, <1>3, <1>7, <2>1
  <2> QED
    BY <2>2, <2>3
<1> QED
  BY <1>8 DEF Finds

------------------------------------------------------------------------------
(* Where the entries are *)

\* Where entry i ends, or the header.
Ending(h, es, i) == IF i = 0 THEN h ELSE es[i]

\* In a log with a header of h bytes, each entry of w has the bytes before its
\* place in es, and follows the one before it unless a part of one was left
\* between them (t); and so does the end of the log.
Placed(log, h, w, es, t) ==
  /\ log \in Data /\ h \in Nat /\ w \in Seq(Entries)
  /\ es \in Seq(Nat) /\ Len(es) = Len(w) /\ t \subseteq 0 .. Len(w)
  /\ \A i \in 1 .. Len(w) :
       /\ Ending(h, es, i - 1) + Size(w[i]) <= es[i]
       /\ i - 1 \notin t => Ending(h, es, i - 1) + Size(w[i]) = es[i]
       /\ \A j \in 1 .. Size(w[i]) : log[es[i] - Size(w[i]) + j] = Serialize(w[i])[j]
  /\ \A i, j \in 0 .. Len(w) : i <= j => Ending(h, es, i) <= Ending(h, es, j)
  /\ Ending(h, es, Len(w)) <= Len(log)
  /\ Len(w) \notin t => Ending(h, es, Len(w)) = Len(log)

\* Where entries end is between the header and the end of the log.
LEMMA EndingIsNat ==
  ASSUME NEW log, NEW h, NEW w, NEW es, NEW t, Placed(log, h, w, es, t)
  PROVE  /\ Len(w) \in Nat /\ Len(log) \in Nat
         /\ \A i \in 0 .. Len(w) :
              Ending(h, es, i) \in Nat /\ h <= Ending(h, es, i) /\ Ending(h, es, i) <= Len(log)
<1>1. /\ log \in Data /\ h \in Nat /\ w \in Seq(Entries)
      /\ es \in Seq(Nat) /\ Len(es) = Len(w)
      /\ \A i, j \in 0 .. Len(w) : i <= j => Ending(h, es, i) <= Ending(h, es, j)
      /\ Ending(h, es, Len(w)) <= Len(log)
  BY DEF Placed
<1>2. PICK n, l : n = Len(w) /\ l = Len(log)
  OBVIOUS
<1>3. n \in Nat /\ l \in Nat /\ \A i \in 1 .. n : es[i] \in Nat
  <2>1. n \in Nat /\ l \in Nat
    BY <1>1, <1>2 DEF Data
  <2>2. DOMAIN es = 1 .. Len(es) /\ \A i \in DOMAIN es : es[i] \in Nat
    BY <1>1, SeqElements
  <2> QED
    BY <1>1, <1>2, <2>1, <2>2, Zenon
<1>4. ASSUME NEW i \in 0 .. n PROVE Ending(h, es, i) \in Nat
  <2>1. CASE i = 0
    BY <1>1, <2>1 DEF Ending
  <2>2. CASE i # 0
    <3>1. i \in 1 .. n
      BY <1>3, <2>2
    <3> QED
      BY <1>3, <2>2, <3>1 DEF Ending
  <2> QED
    BY <2>1, <2>2
<1>5. ASSUME NEW i \in 0 .. n PROVE h <= Ending(h, es, i) /\ Ending(h, es, i) <= l
  <2>1. PICK x, y : x = Ending(h, es, i) /\ y = Ending(h, es, n)
    OBVIOUS
  <2>2. 0 \in 0 .. n /\ n \in 0 .. n /\ 0 <= i /\ i <= n
    BY <1>3
  <2>3. Ending(h, es, 0) = h
    BY DEF Ending
  <2>4. h <= x /\ x <= y /\ y <= l
    BY <1>1, <1>2, <2>1, <2>2, <2>3
  <2>5. x \in Nat /\ y \in Nat
    BY <1>4, <2>1, <2>2
  <2>6. h <= x /\ x <= l
    BY <1>1, <1>3, <2>4, <2>5
  <2> QED
    BY <2>1, <2>6
<1> QED
  BY <1>2, <1>3, <1>4, <1>5

\* A part of a part.
LEMMA PartOfPart ==
  ASSUME NEW S, NEW a \in Seq(S), NEW m \in Nat, NEW n \in Nat, m + n <= Len(a)
  PROVE  LET b == SubSeq(a, m + 1, Len(a))
         IN  SubSeq(b, n + 1, Len(b)) = SubSeq(a, m + n + 1, Len(a))
<1>1. PICK l, k : l = Len(a) /\ k = m + n
  OBVIOUS
<1>2. l \in Nat /\ k \in Nat /\ m <= l /\ k <= l /\ n <= l - m
  BY <1>1
<1>3. PICK b : b = SubSeq(a, m + 1, l)
  OBVIOUS
<1>4. b \in Seq(S) /\ Len(b) = l - m /\ \A i \in 1 .. l - m : b[i] = a[m + i]
  <2>1. l <= Len(a)
    BY <1>1, <1>2
  <2>2. IsPart(S, a, m, l, b)
    BY <1>2, <1>3, <2>1, PartIs
  <2> QED
    BY <2>2, Zenon DEF IsPart
<1>5. PICK q : q = Len(b)
  OBVIOUS
<1>6. q = l - m /\ q \in Nat /\ n <= q
  <2>1. q = l - m
    BY <1>4, <1>5, Zenon
  <2> QED
    BY <1>2, <2>1
<1>7. PICK c : c = SubSeq(b, n + 1, q)
  OBVIOUS
<1>8. c \in Seq(S) /\ Len(c) = q - n /\ \A i \in 1 .. q - n : c[i] = b[n + i]
  <2>1. q <= Len(b)
    BY <1>5, <1>6
  <2>2. IsPart(S, b, n, q, c)
    BY <1>4, <1>6, <1>7, <2>1, PartIs
  <2> QED
    BY <2>2, Zenon DEF IsPart
<1>9. PICK d : d = SubSeq(a, k + 1, l)
  OBVIOUS
<1>10. d \in Seq(S) /\ Len(d) = l - k /\ \A i \in 1 .. l - k : d[i] = a[k + i]
  <2>1. l <= Len(a)
    BY <1>1, <1>2
  <2>2. IsPart(S, a, k, l, d)
    BY <1>2, <1>9, <2>1, PartIs
  <2> QED
    BY <2>2, Zenon DEF IsPart
<1>11. q - n = l - k
  <2>1. k = m + n
    BY <1>1
  <2> QED
    BY <1>2, <1>6, <2>1
<1>12. ASSUME NEW i \in 1 .. q - n PROVE c[i] = d[i]
  <2>1. c[i] = b[n + i] /\ n + i \in 1 .. l - m
    BY <1>2, <1>6, <1>8
  <2>2. b[n + i] = a[m + (n + i)] /\ m + (n + i) = k + i
    BY <1>1, <1>4, <2>1
  <2>3. d[i] = a[k + i]
    BY <1>10, <1>11
  <2> QED
    BY <2>1, <2>2, <2>3
<1>13. c = d
  <2>1. Len(c) = Len(d) /\ \A i \in 1 .. Len(c) : c[i] = d[i]
    BY <1>8, <1>10, <1>11, <1>12
  <2> QED
    BY <1>8, <1>10, <2>1, SameSequences
<1> QED
  BY <1>1, <1>3, <1>5, <1>7, <1>9, <1>13, Zenon

\* A sequence whose elements begin another one is a prefix of it.
LEMMA PrefixIs ==
  ASSUME NEW S, NEW T, NEW a \in Seq(S), NEW b \in Seq(T), Len(a) <= Len(b),
         \A i \in 1 .. Len(a) : b[i] = a[i]
  PROVE  IsPrefix(a, b)
<1>1. PICK n : n = Len(a)
  OBVIOUS
<1>2. n \in Nat /\ n <= Len(a) /\ n <= Len(b) /\ 0 <= n
  BY <1>1
<1>3. PICK c, e : c = SubSeq(a, 1, n) /\ e = SubSeq(b, 1, n)
  OBVIOUS
<1>6. /\ c \in Seq(S) /\ Len(c) = n /\ \A i \in 1 .. n : c[i] = a[i]
      /\ e \in Seq(T) /\ Len(e) = n /\ \A i \in 1 .. n : e[i] = b[i]
  BY <1>2, <1>3, FirstPartIs
<1>7. Len(c) = Len(e) /\ \A i \in 1 .. Len(c) : c[i] = e[i]
  BY <1>1, <1>6
<1>8. c = e
  BY <1>6, <1>7, SameElements
<1>9. SubSeq(a, 1, n) = SubSeq(b, 1, n)
  BY <1>3, <1>8, Zenon
<1> QED
  BY <1>1, <1>9, Zenon DEF IsPrefix

\* The entries before the first that follows a torn one are found, in the log
\* and in any part of it that has them; and nothing else is, if no entry follows.
LEMMA PlacedRead ==
  ASSUME NEW log, NEW h, NEW w, NEW es, NEW t, Placed(log, h, w, es, t),
         NEW i \in 0 .. Len(w), \A j \in t : i <= j,
         NEW d \in Data, Ending(h, es, i) <= Len(d), Len(d) <= Len(log),
         \A j \in 1 .. Len(d) : d[j] = log[j]
  PROVE  LET found == Decoded(SubSeq(d, h + 1, Len(d)))
         IN  /\ IsPrefix(SubSeq(w, 1, i), found)
             /\ ReadAt(d, Ending(h, es, i)) = NoEntry => found = SubSeq(w, 1, i)
<1>1. /\ w \in Seq(Entries) /\ h \in Nat /\ t \subseteq 0 .. Len(w)
      /\ Len(w) \in Nat
      /\ \A m \in 0 .. Len(w) : Ending(h, es, m) \in Nat /\ h <= Ending(h, es, m)
      /\ \A m \in 0 .. Len(w) : m <= i => Ending(h, es, m) <= Ending(h, es, i)
  BY EndingIsNat DEF Placed
<1>2. PICK n, z : n = Len(d) /\ z = Len(w)
  OBVIOUS
<1>3. n \in Nat /\ z \in Nat /\ i <= z /\ i \in Nat
  BY <1>1, <1>2 DEF Data
<1>4. PICK u : u = SubSeq(w, 1, i)
  OBVIOUS
<1>5. u \in Seq(Entries) /\ Len(u) = i /\ \A m \in 1 .. i : u[m] = w[m]
  <2>1. i <= Len(w)
    BY <1>2, <1>3
  <2> QED
    BY <1>1, <1>3, <1>4, <2>1, FirstPartIs
<1>6. PICK T : T = SubSeq(d, h + 1, n)
  OBVIOUS
<1>7. h <= n
  <2>1. PICK x : x = Ending(h, es, i)
    OBVIOUS
  <2>2. x \in Nat /\ h <= x /\ x <= n
    BY <1>1, <1>2, <2>1
  <2>3. h \in Nat
    BY <1>1
  <2> QED
    BY <1>3, <2>2, <2>3
<1>8. T \in Seq(Bytes) /\ Len(T) = n - h /\ \A j \in 1 .. n - h : T[j] = d[h + j]
  <2>1. d \in Seq(Bytes) /\ n <= Len(d)
    BY <1>2, <1>3 DEF Data
  <2>2. IsPart(Bytes, d, h, n, T)
    BY <1>1, <1>3, <1>6, <1>7, <2>1, PartIs
  <2> QED
    BY <2>2, Zenon DEF IsPart
<1> DEFINE end(m) == Ending(h, es, m)
<1> HIDE DEF end
<1>9. /\ \A m \in 0 .. i : end(m) \in Nat /\ h <= end(m) /\ end(m) <= n
      /\ end(0) = h
  <2>1. end(0) = h
    BY DEF end, Ending
  <2>2. ASSUME NEW m \in 0 .. i PROVE end(m) \in Nat /\ h <= end(m) /\ end(m) <= n
    <3>1. PICK x, y : x = Ending(h, es, m) /\ y = Ending(h, es, i)
      OBVIOUS
    <3>2. m \in 0 .. Len(w) /\ m <= i
      BY <1>2, <1>3
    <3>3. x \in Nat /\ y \in Nat /\ h <= x /\ x <= y /\ y <= n
      BY <1>1, <1>2, <3>1, <3>2
    <3>4. x \in Nat /\ h <= x /\ x <= n
      BY <1>3, <3>3
    <3> QED
      BY <3>1, <3>4 DEF end
  <2> QED
    BY <2>1, <2>2
<1>10. \A m \in 1 .. i :
         /\ end(m) = end(m - 1) + Size(w[m])
         /\ \A j \in 1 .. Size(w[m]) : log[end(m - 1) + j] = Serialize(w[m])[j]
  <2> SUFFICES ASSUME NEW m \in 1 .. i
               PROVE  /\ end(m) = end(m - 1) + Size(w[m])
                      /\ \A j \in 1 .. Size(w[m]) : log[end(m - 1) + j] = Serialize(w[m])[j]
    OBVIOUS
  <2>1. m \in 1 .. Len(w) /\ m # 0 /\ m - 1 \in 0 .. i /\ ~ (i <= m - 1)
    BY <1>2, <1>3
  <2>2. m - 1 \notin t
    BY <2>1
  <2>3. PICK x, y, size : x = end(m - 1) /\ y = end(m) /\ size = Size(w[m])
    OBVIOUS
  <2>4. y = es[m] /\ x = Ending(h, es, m - 1)
    BY <2>1, <2>3 DEF end, Ending
  <2>5. /\ x + size = y
        /\ \A j \in 1 .. size : log[y - size + j] = Serialize(w[m])[j]
    <3>1. /\ m - 1 \notin t => Ending(h, es, m - 1) + Size(w[m]) = es[m]
          /\ \A j \in 1 .. Size(w[m]) : log[es[m] - Size(w[m]) + j] = Serialize(w[m])[j]
      BY <2>1, Zenon DEF Placed
    <3> QED
      BY <2>2, <2>3, <2>4, <3>1, Zenon
  <2>6. size \in Nat /\ x \in Nat
    <3>1. w[m] \in Entries
      BY <1>1, <2>1
    <3> QED
      BY <1>9, <2>1, <2>3, <3>1, LengthsOf
  <2>7. \A j \in 1 .. size : y - size + j = x + j
    BY <2>5, <2>6
  <2>8. \A j \in 1 .. size : log[x + j] = Serialize(w[m])[j]
    BY <2>5, <2>7, Zenon
  <2> QED
    BY <2>3, <2>5, <2>8
<1> DEFINE p == [m \in 0 .. i |-> end(m) - h]
<1>11. \A m \in 0 .. i : p[m] = end(m) - h
  OBVIOUS
<1>12. p \in [0 .. i -> 0 .. n - h]
  BY <1>1, <1>3, <1>9
<1> HIDE DEF p
<1>13. LaidOut(T, u, p)
  <2>1. p[0] = 0
    BY <1>1, <1>3, <1>9, <1>11
  <2>2. ASSUME NEW m \in 1 .. i
        PROVE  /\ p[m] = p[m - 1] + Size(u[m])
               /\ \A j \in 1 .. Size(u[m]) : T[p[m - 1] + j] = Serialize(u[m])[j]
    <3>1. m - 1 \in 0 .. i /\ m \in 0 .. i /\ m \in 1 .. Len(w)
      BY <1>2, <1>3
    <3>2. PICK x, y, size, e, q :
            x = end(m - 1) /\ y = end(m) /\ e = u[m] /\ size = Size(e) /\ q = p[m - 1]
      OBVIOUS
    <3>3. e = w[m] /\ e \in Entries
      BY <1>1, <1>5, <3>1, <3>2
    <3>4. size \in Nat
      BY <3>2, <3>3, LengthsOf
    <3>5. /\ y = x + size
          /\ \A j \in 1 .. size : log[x + j] = Serialize(e)[j]
      BY <1>10, <3>2, <3>3, Zenon
    <3>6. x \in Nat /\ h <= x /\ y <= n
      BY <1>9, <3>1, <3>2
    <3>7. q = x - h /\ p[m] = y - h
      BY <1>11, <3>1, <3>2
    <3>8. p[m] = q + size
      BY <1>1, <3>4, <3>5, <3>6, <3>7
    <3>9. ASSUME NEW j \in 1 .. size PROVE T[q + j] = Serialize(e)[j]
      <4>1. q + j \in 1 .. n - h /\ h + (q + j) = x + j /\ x + j \in 1 .. n
        BY <1>1, <1>3, <3>4, <3>5, <3>6, <3>7
      <4>2. T[q + j] = d[x + j]
        BY <1>8, <4>1
      <4>3. d[x + j] = log[x + j]
        BY <1>2, <4>1
      <4> QED
        BY <3>5, <4>2, <4>3
    <3> QED
      BY <3>2, <3>8, <3>9
  <2>3. Len(u) = i /\ Len(T) = n - h /\ u \in Seq(Entries)
    BY <1>5, <1>8, Zenon
  <2> QED
    BY <1>12, <2>1, <2>2, <2>3, Zenon DEF LaidOut
<1>14. Finds(T, u, p)
  BY <1>8, <1>13, DecodedFinds DEF Data
<1>15. PICK found : found = Decoded(T)
  OBVIOUS
<1>16. PICK S : found \in Seq(S)
  BY <1>14, <1>15 DEF Finds
<1>17. /\ Len(u) <= Len(found) /\ \A m \in 1 .. Len(u) : found[m] = u[m]
       /\ ReadAt(T, p[Len(u)]) = NoEntry => Len(found) = Len(u)
  BY <1>14, <1>15, Zenon DEF Finds
<1>18. IsPrefix(u, found)
  BY <1>5, <1>16, <1>17, PrefixIs
<1>19. ReadAt(T, p[i]) = ReadAt(d, end(i))
  <2>1. PICK q : q = p[i]
    OBVIOUS
  <2>2. q = end(i) - h /\ end(i) \in Nat /\ h <= end(i) /\ end(i) <= n
    BY <1>3, <1>9, <1>11, <2>1
  <2>3. q \in Nat /\ h + q = end(i) /\ h + q <= Len(d)
    BY <1>1, <1>2, <1>3, <2>2
  <2>4. d \in Seq(Bytes) /\ h \in Nat /\ T = SubSeq(d, h + 1, Len(d))
    BY <1>1, <1>2, <1>6 DEF Data
  <2>5. SubSeq(T, q + 1, Len(T)) = SubSeq(d, h + q + 1, Len(d))
    BY <2>3, <2>4, PartOfPart, Zenon
  <2> QED
    BY <2>1, <2>3, <2>5, Zenon DEF ReadAt
<1>20. ReadAt(d, end(i)) = NoEntry => found = u
  <2> SUFFICES ASSUME ReadAt(d, end(i)) = NoEntry PROVE found = u
    OBVIOUS
  <2>1. Len(found) = Len(u) /\ \A m \in 1 .. Len(found) : found[m] = u[m]
    BY <1>5, <1>17, <1>19, Zenon
  <2> QED
    BY <1>5, <1>16, <2>1, SameElements
<1>21. u = SubSeq(w, 1, i) /\ found = Decoded(SubSeq(d, h + 1, Len(d)))
  BY <1>2, <1>4, <1>6, <1>15
<1> QED
  BY <1>18, <1>20, <1>21, Zenon DEF end

\* A log that has a header and nothing else.
LEMMA PlacedEmpty ==
  ASSUME NEW log \in Data
  PROVE  Placed(log, Len(log), <<>>, <<>>, {})
<1>1. Len(log) \in Nat /\ Len(<<>>) = 0
  BY DEF Data
<1>2. <<>> \in Seq(Entries) /\ <<>> \in Seq(Nat)
  OBVIOUS
<1>3. Ending(Len(log), <<>>, 0) = Len(log)
  BY DEF Ending
<1>4. \A i, j \in 0 .. 0 : Ending(Len(log), <<>>, i) <= Ending(Len(log), <<>>, j)
  BY <1>1, <1>3
<1>5. \A i \in 1 .. 0 : FALSE
  OBVIOUS
<1>6. {} \subseteq 0 .. 0 /\ Len(log) <= Len(log)
  BY <1>1
<1> QED
  BY <1>1, <1>2, <1>3, <1>4, <1>5, <1>6, Zenon DEF Placed

\* A log with one more entry, wherever the log ends.
LEMMA PlacedAppend ==
  ASSUME NEW log, NEW h, NEW w, NEW es, NEW t, Placed(log, h, w, es, t),
         NEW e \in Entries
  PROVE  Placed(log \o Serialize(e), h, Append(w, e), Append(es, Len(log) + Size(e)), t)
<1>1. /\ log \in Data /\ h \in Nat /\ w \in Seq(Entries)
      /\ es \in Seq(Nat) /\ Len(es) = Len(w) /\ t \subseteq 0 .. Len(w)
  BY Zenon DEF Placed
<1>2. PICK n, l, size, s : n = Len(w) /\ l = Len(log) /\ size = Size(e) /\ s = Serialize(e)
  OBVIOUS
<1>3. n \in Nat /\ l \in Nat /\ size \in Nat
  <2>1. n \in Nat
    BY <1>1, <1>2
  <2>2. l \in Nat
    BY <1>1, <1>2 DEF Data
  <2>3. size \in Nat
    BY <1>2, LengthsOf
  <2> QED
    BY <2>1, <2>2, <2>3
<1>4. s \in Data /\ Len(s) = size
  BY <1>2, SerializeFields, Zenon DEF Fields
<1>5. PICK log2, w2, es2 : log2 = log \o s /\ w2 = Append(w, e) /\ es2 = Append(es, l + size)
  OBVIOUS
<1>6. /\ log2 \in Data /\ Len(log2) = l + size
      /\ \A i \in 1 .. l : log2[i] = log[i]
      /\ \A i \in 1 .. size : log2[l + i] = s[i]
  <2>1. Makes(log, s, log2)
    BY <1>1, <1>4, <1>5, JoinedData
  <2> QED
    BY <1>2, <1>4, <2>1, Zenon DEF Makes
<1>7. w2 \in Seq(Entries) /\ Len(w2) = n + 1 /\ w2[n + 1] = e /\ \A i \in 1 .. n : w2[i] = w[i]
  BY <1>1, <1>2, <1>5, AppendedIs
<1>8. /\ es2 \in Seq(Nat) /\ Len(es2) = n + 1 /\ es2[n + 1] = l + size
      /\ \A i \in 1 .. n : es2[i] = es[i]
  <2>1. PICK x : x = l + size
    OBVIOUS
  <2>2. x \in Nat /\ es2 = Append(es, x) /\ Len(es) = n
    BY <1>1, <1>2, <1>3, <1>5, <2>1
  <2>3. /\ es2 \in Seq(Nat) /\ Len(es2) = n + 1 /\ es2[n + 1] = x
        /\ \A i \in 1 .. n : es2[i] = es[i]
    BY <1>1, <2>2, AppendedIs
  <2> QED
    BY <2>1, <2>3, Zenon
<1>9. /\ \A i \in 0 .. n : Ending(h, es2, i) = Ending(h, es, i)
      /\ Ending(h, es2, n + 1) = l + size
  BY <1>3, <1>8 DEF Ending
<1>10. \A i \in 0 .. n : Ending(h, es, i) \in Nat /\ Ending(h, es, i) <= l
  BY <1>2, EndingIsNat
<1>11. t \subseteq 0 .. n + 1 /\ n + 1 \notin t
  BY <1>1, <1>2, <1>3
<1>12. ASSUME NEW i \in 1 .. n + 1
       PROVE  /\ Ending(h, es2, i - 1) + Size(w2[i]) <= es2[i]
              /\ i - 1 \notin t => Ending(h, es2, i - 1) + Size(w2[i]) = es2[i]
              /\ \A j \in 1 .. Size(w2[i]) :
                   log2[es2[i] - Size(w2[i]) + j] = Serialize(w2[i])[j]
  <2>1. CASE i \in 1 .. n
    <3>1. i - 1 \in 0 .. n /\ i \in 0 .. n /\ i \in 1 .. Len(w)
      BY <1>2, <1>3, <2>1
    <3>2. PICK x, y, m : x = Ending(h, es, i - 1) /\ y = es[i] /\ m = Size(w[i])
      OBVIOUS
    <3>3. x = Ending(h, es2, i - 1) /\ y = es2[i] /\ m = Size(w2[i]) /\ w2[i] = w[i]
      BY <1>7, <1>8, <1>9, <2>1, <3>1, <3>2, Zenon
    <3>4. /\ x + m <= y
          /\ i - 1 \notin t => x + m = y
          /\ \A j \in 1 .. m : log[y - m + j] = Serialize(w[i])[j]
      BY <3>1, <3>2, Zenon DEF Placed
    <3>5. m \in Nat
      <4>1. w[i] \in Entries
        BY <1>1, <3>1
      <4> QED
        BY <3>2, <4>1, LengthsOf
    <3>6. x \in Nat /\ y \in Nat /\ y <= l
      <4>1. y = Ending(h, es, i)
        BY <2>1, <3>2 DEF Ending
      <4> QED
        BY <1>10, <3>1, <3>2, <4>1, Zenon
    <3>7. ASSUME NEW j \in 1 .. m PROVE log2[y - m + j] = Serialize(w[i])[j]
      <4>1. PICK q : q = y - m + j
        OBVIOUS
      <4>2. q \in 1 .. l
        BY <1>3, <3>4, <3>5, <3>6, <4>1
      <4> QED
        BY <1>6, <3>4, <4>1, <4>2, Zenon
    <3> QED
      BY <3>3, <3>4, <3>7, Zenon
  <2>2. CASE i = n + 1
    <3>1. i - 1 = n /\ n \in 0 .. n /\ n \in 0 .. Len(w)
      BY <1>2, <1>3, <2>2
    <3>2. PICK x : x = Ending(h, es, n)
      OBVIOUS
    <3>3. x = Ending(h, es2, i - 1) /\ es2[i] = l + size /\ w2[i] = e /\ Size(w2[i]) = size
      BY <1>2, <1>7, <1>8, <1>9, <2>2, <3>1, <3>2, Zenon
    <3>4. x \in Nat /\ x <= l /\ (n \notin t => x = l)
      <4>1. Len(w) \notin t => Ending(h, es, Len(w)) = Len(log)
        BY Zenon DEF Placed
      <4>2. x \in Nat /\ x <= l
        BY <1>10, <3>1, <3>2, Zenon
      <4>3. n \notin t => x = l
        BY <1>2, <3>2, <4>1, Zenon
      <4> QED
        BY <4>2, <4>3
    <3>5. x + size <= l + size /\ (n \notin t => x + size = l + size)
      BY <1>3, <3>4
    <3>7. ASSUME NEW j \in 1 .. Size(w2[i])
          PROVE  log2[es2[i] - Size(w2[i]) + j] = Serialize(w2[i])[j]
      <4>1. PICK y, m, q : y = es2[i] /\ m = Size(w2[i]) /\ q = y - m + j
        OBVIOUS
      <4>2. y = l + size /\ m = size /\ j \in 1 .. m
        BY <3>3, <4>1, Zenon
      <4>3. q = l + j /\ j \in 1 .. size
        BY <1>3, <4>1, <4>2
      <4>4. log2[q] = s[j]
        BY <1>6, <4>3, Zenon
      <4>5. s = Serialize(w2[i])
        BY <1>2, <3>3, Zenon
      <4> QED
        BY <4>1, <4>4, <4>5, Zenon
    <3>8. Ending(h, es2, i - 1) + Size(w2[i]) <= es2[i]
      BY <3>3, <3>5, Zenon
    <3>9. i - 1 \notin t => Ending(h, es2, i - 1) + Size(w2[i]) = es2[i]
      BY <3>1, <3>3, <3>5, Zenon
    <3> QED
      BY <3>7, <3>8, <3>9
  <2> QED
    BY <1>3, <2>1, <2>2
<1>13. ASSUME NEW i \in 0 .. n + 1, NEW j \in 0 .. n + 1, i <= j
       PROVE  Ending(h, es2, i) <= Ending(h, es2, j)
  <2>1. CASE j \in 0 .. n
    <3>1. i \in 0 .. n /\ i \in 0 .. Len(w) /\ j \in 0 .. Len(w)
      BY <1>2, <1>3, <1>13, <2>1
    <3>2. Ending(h, es, i) <= Ending(h, es, j)
      BY <1>13, <3>1, Zenon DEF Placed
    <3> QED
      BY <1>9, <2>1, <3>1, <3>2, Zenon
  <2>2. CASE i \in 0 .. n /\ j = n + 1
    <3>1. PICK x : x = Ending(h, es, i)
      OBVIOUS
    <3>2. x \in Nat /\ x <= l
      BY <1>10, <2>2, <3>1
    <3>3. x <= l + size
      BY <1>3, <3>2
    <3> QED
      BY <1>9, <2>2, <3>1, <3>3, Zenon
  <2>3. CASE i = n + 1 /\ j = n + 1
    BY <1>3, <1>9, <2>3
  <2> QED
    BY <1>3, <1>13, <2>1, <2>2, <2>3
<1>14. Ending(h, es2, n + 1) <= Len(log2) /\ Ending(h, es2, n + 1) = Len(log2)
  BY <1>3, <1>6, <1>9
<1>15. Placed(log2, h, w2, es2, t)
  BY <1>1, <1>6, <1>7, <1>8, <1>11, <1>12, <1>13, <1>14, Zenon DEF Placed
<1> QED
  BY <1>2, <1>5, <1>15, Zenon

\* The part of a log that has the first entries, and maybe a part of what follows.
LEMMA PlacedCut ==
  ASSUME NEW log, NEW h, NEW w, NEW es, NEW t, Placed(log, h, w, es, t),
         NEW kept \in 0 .. Len(w), NEW m \in Nat, Ending(h, es, kept) <= m, m <= Len(log),
         NEW t2, t2 \subseteq 0 .. kept, \A i \in t : i < kept => i \in t2,
         kept \notin t2 => m = Ending(h, es, kept)
  PROVE  Placed(SubSeq(log, 1, m), h, SubSeq(w, 1, kept), SubSeq(es, 1, kept), t2)
<1>1. /\ log \in Data /\ h \in Nat /\ w \in Seq(Entries)
      /\ es \in Seq(Nat) /\ Len(es) = Len(w) /\ t \subseteq 0 .. Len(w)
  BY Zenon DEF Placed
<1>2. PICK n, l : n = Len(w) /\ l = Len(log)
  OBVIOUS
<1>3. n \in Nat /\ l \in Nat /\ kept \in Nat /\ kept <= n /\ m <= l
  <2>1. n \in Nat
    BY <1>1, <1>2
  <2>2. l \in Nat
    BY <1>1, <1>2 DEF Data
  <2> QED
    BY <1>2, <2>1, <2>2
<1>5. PICK log2, w2, es2 :
        log2 = SubSeq(log, 1, m) /\ w2 = SubSeq(w, 1, kept) /\ es2 = SubSeq(es, 1, kept)
  OBVIOUS
<1>6. log2 \in Data /\ Len(log2) = m /\ \A i \in 1 .. m : log2[i] = log[i]
  BY <1>1, <1>5, FirstPartIs DEF Data
<1>7. w2 \in Seq(Entries) /\ Len(w2) = kept /\ \A i \in 1 .. kept : w2[i] = w[i]
  <2>1. kept <= Len(w)
    BY <1>2, <1>3
  <2> QED
    BY <1>1, <1>3, <1>5, <2>1, FirstPartIs
<1>8. es2 \in Seq(Nat) /\ Len(es2) = kept /\ \A i \in 1 .. kept : es2[i] = es[i]
  <2>1. kept <= Len(es)
    BY <1>1, <1>2, <1>3
  <2> QED
    BY <1>1, <1>3, <1>5, <2>1, FirstPartIs
<1>9. \A i \in 0 .. kept : Ending(h, es2, i) = Ending(h, es, i)
  <2> SUFFICES ASSUME NEW i \in 0 .. kept PROVE Ending(h, es2, i) = Ending(h, es, i)
    OBVIOUS
  <2>1. CASE i = 0
    BY <2>1, Zenon DEF Ending
  <2>2. CASE i # 0
    <3>1. i \in 1 .. kept
      BY <1>3, <2>2
    <3> QED
      BY <1>8, <2>2, <3>1, Zenon DEF Ending
  <2> QED
    BY <2>1, <2>2
<1>10. \A i \in 0 .. kept : Ending(h, es, i) \in Nat /\ Ending(h, es, i) <= Ending(h, es, kept)
  <2> SUFFICES ASSUME NEW i \in 0 .. kept
               PROVE  Ending(h, es, i) \in Nat /\ Ending(h, es, i) <= Ending(h, es, kept)
    OBVIOUS
  <2>1. i \in 0 .. Len(w) /\ i <= kept
    BY <1>2, <1>3
  <2>2. Ending(h, es, i) \in Nat
    BY <2>1, EndingIsNat, Zenon
  <2>3. Ending(h, es, i) <= Ending(h, es, kept)
    BY <2>1, Zenon DEF Placed
  <2> QED
    BY <2>2, <2>3
<1>11. PICK x : x = Ending(h, es, kept)
  OBVIOUS
<1>12. x \in Nat /\ x <= m
  <2>1. kept \in 0 .. kept
    BY <1>3
  <2> QED
    BY <1>10, <1>11, <2>1
<1>13. ASSUME NEW i \in 1 .. kept
       PROVE  /\ Ending(h, es2, i - 1) + Size(w2[i]) <= es2[i]
              /\ i - 1 \notin t2 => Ending(h, es2, i - 1) + Size(w2[i]) = es2[i]
              /\ \A j \in 1 .. Size(w2[i]) :
                   log2[es2[i] - Size(w2[i]) + j] = Serialize(w2[i])[j]
  <2>1. i - 1 \in 0 .. kept /\ i \in 0 .. kept /\ i \in 1 .. Len(w) /\ i - 1 < kept
    BY <1>2, <1>3
  <2>2. PICK a, b, size, s :
          a = Ending(h, es, i - 1) /\ b = es[i] /\ size = Size(w[i]) /\ s = Serialize(w[i])
    OBVIOUS
  <2>3. a = Ending(h, es2, i - 1) /\ b = es2[i] /\ size = Size(w2[i]) /\ s = Serialize(w2[i])
    BY <1>7, <1>8, <1>9, <2>1, <2>2, Zenon
  <2>4. /\ a + size <= b
        /\ i - 1 \notin t => a + size = b
        /\ \A j \in 1 .. size : log[b - size + j] = s[j]
    BY <2>1, <2>2, Zenon DEF Placed
  <2>5. size \in Nat
    <3>1. w[i] \in Entries
      BY <1>1, <2>1
    <3> QED
      BY <2>2, <3>1, LengthsOf
  <2>6. a \in Nat /\ b \in Nat /\ b <= x
    <3>1. b = Ending(h, es, i)
      BY <2>1, <2>2 DEF Ending
    <3>2. b \in Nat /\ b <= x
      BY <1>10, <1>11, <2>1, <3>1, Zenon
    <3>3. a \in Nat
      BY <1>10, <2>1, <2>2, Zenon
    <3> QED
      BY <3>2, <3>3
  <2>7. i - 1 \notin t2 => a + size = b
    <3>1. i - 1 \notin t2 => i - 1 \notin t
      BY <2>1
    <3> QED
      BY <2>4, <3>1
  <2>8. ASSUME NEW j \in 1 .. size PROVE log2[b - size + j] = s[j]
    <3>1. PICK q : q = b - size + j
      OBVIOUS
    <3>2. q \in 1 .. m
      BY <1>12, <2>4, <2>5, <2>6, <3>1
    <3> QED
      BY <1>6, <2>4, <3>1, <3>2, Zenon
  <2>9. Ending(h, es2, i - 1) + Size(w2[i]) <= es2[i]
    BY <2>3, <2>4, Zenon
  <2>10. i - 1 \notin t2 => Ending(h, es2, i - 1) + Size(w2[i]) = es2[i]
    BY <2>3, <2>7, Zenon
  <2>11. \A j \in 1 .. Size(w2[i]) : log2[es2[i] - Size(w2[i]) + j] = Serialize(w2[i])[j]
    BY <2>3, <2>8, Zenon
  <2> QED
    BY <2>9, <2>10, <2>11
<1>14. ASSUME NEW i \in 0 .. kept, NEW j \in 0 .. kept, i <= j
       PROVE  Ending(h, es2, i) <= Ending(h, es2, j)
  <2>1. i \in 0 .. Len(w) /\ j \in 0 .. Len(w)
    BY <1>2, <1>3
  <2>2. Ending(h, es, i) <= Ending(h, es, j)
    BY <1>14, <2>1, Zenon DEF Placed
  <2> QED
    BY <1>9, <2>2, Zenon
<1>15. Ending(h, es2, kept) = x
  <2>1. kept \in 0 .. kept
    BY <1>3
  <2> QED
    BY <1>9, <1>11, <2>1, Zenon
<1>16. x <= Len(log2) /\ (kept \notin t2 => x = Len(log2))
  BY <1>6, <1>11, <1>12
<1>17. Placed(log2, h, w2, es2, t2)
  BY <1>1, <1>6, <1>7, <1>8, <1>13, <1>14, <1>15, <1>16, Zenon DEF Placed
<1> QED
  BY <1>5, <1>17, Zenon

------------------------------------------------------------------------------
(* The invariant *)

\* The variables have their types.
WalTypes ==
  /\ file \in Data /\ buffer \in Data /\ failed \in BOOLEAN
  /\ nextTxnId \in Nat \ {0} /\ active \subseteq 1 .. nextTxnId - 1
  /\ run \in 1 .. MaxRun
  /\ header \in {0, WAL_HEADER_SIZE} /\ header <= Len(file)
  /\ Len(written) <= MaxEntries

\* The entries are in the log, wherever its buffer begins.
Layout == Placed(Log, header, written, ends, torn)

\* What a commit flushed is in the file.
CommitsFlushed == \A i \in committed : i \in 1 .. Len(written) /\ ends[i] <= Len(file)

\* The inductive invariant.
WalInv == WalTypes /\ Layout /\ CommitsFlushed

\* The five types of entries.
TypeNames == {"BEGIN_TXN", "COMMIT_TXN", "ABORT_TXN", "PUT_RECORD", "DELETE_RECORD"}

\* A type has four bytes.
LEMMA FourBytes ==
  ASSUME NEW type \in TypeNames
  PROVE  TypeBytes[type] \in Data /\ Len(TypeBytes[type]) = 4
<1>1. PICK a, b, c, d, e :
        /\ a = <<0, 0, 0, 0>> /\ b = <<1, 0, 0, 0>> /\ c = <<2, 0, 0, 0>>
        /\ d = <<3, 0, 0, 0>> /\ e = <<4, 0, 0, 0>>
  OBVIOUS
<1>2. 0 \in Bytes /\ 1 \in Bytes /\ 2 \in Bytes /\ 3 \in Bytes /\ 4 \in Bytes
  BY DEF Bytes
<1>3. /\ a \in Data /\ Len(a) = 4 /\ b \in Data /\ Len(b) = 4 /\ c \in Data /\ Len(c) = 4
      /\ d \in Data /\ Len(d) = 4 /\ e \in Data /\ Len(e) = 4
  BY <1>1, <1>2 DEF Data
<1>4. /\ TypeBytes["BEGIN_TXN"] = a /\ TypeBytes["COMMIT_TXN"] = b
      /\ TypeBytes["ABORT_TXN"] = c /\ TypeBytes["PUT_RECORD"] = d
      /\ TypeBytes["DELETE_RECORD"] = e
  BY <1>1, Zenon DEF TypeBytes
<1> QED
  BY <1>3, <1>4, Zenon DEF TypeNames

\* What the six functions of the class write are entries.
LEMMA EntryIsEntry ==
  ASSUME NEW kind \in TypeNames, NEW id \in Nat,
         NEW key \in Data, Len(key) < 65536, NEW value \in Data, Len(value) < 65536
  PROVE  Entry(kind, id, key, value) \in Entries
<1>1. PICK bytes : bytes = TypeBytes[kind]
  OBVIOUS
<1>2. PICK number : number = Uint64(id)
  OBVIOUS
<1>3. bytes \in Data /\ Len(bytes) = 4
  <2>1. TypeBytes[kind] \in Data /\ Len(TypeBytes[kind]) = 4
    BY FourBytes
  <2> QED
    BY <1>1, <2>1
<1>4. number \in Data /\ Len(number) = 8
  <2>1. Uint64(id) \in Data /\ Len(Uint64(id)) = 8
    BY EightBytes
  <2> QED
    BY <1>2, <2>1
<1> DEFINE e == [type |-> bytes, txnId |-> number, key |-> key, value |-> value]
<1>5. e \in [type : Data, txnId : Data, key : Data, value : Data]
  BY <1>3, <1>4
<1>6. e.type = bytes /\ e.txnId = number /\ e.key = key /\ e.value = value
  OBVIOUS
<1>7. Entry(kind, id, key, value) = e
  BY <1>1, <1>2 DEF Entry
<1> HIDE DEF e
<1>8. e \in Entries
  BY <1>3, <1>4, <1>5, <1>6 DEF Entries
<1> QED
  BY <1>7, <1>8

\* An empty buffer is data.
LEMMA EmptyData == <<>> \in Data /\ Len(<<>>) = 0
BY DEF Data

\* Grouping does not matter when data is joined.
LEMMA Regrouped ==
  ASSUME NEW S, NEW a \in Seq(S), NEW b \in Seq(S), NEW c \in Seq(S)
  PROVE  (a \o b) \o c = a \o (b \o c)
BY SMTT(30)

\* Adding nothing changes nothing.
LEMMA NothingAdded == ASSUME NEW S, NEW a \in Seq(S) PROVE a \o <<>> = a
OBVIOUS

\* The invariant holds of a new log.
LEMMA WalInvInit == Init => WalInv
<1> SUFFICES ASSUME Init PROVE WalInv
  OBVIOUS
<1>1. /\ file = <<>> /\ buffer = <<>> /\ failed = FALSE
      /\ nextTxnId = 1 /\ active = {} /\ run = 1
      /\ header = 0 /\ written = <<>> /\ ends = <<>> /\ committed = {} /\ torn = {}
  BY DEF Init
<1>2. MaxEntries \in Nat /\ MaxRun \in Nat \ {0}
  BY WriteAheadLogAssumption
<1>3. WalTypes
  <2>1. file \in Data /\ buffer \in Data /\ failed \in BOOLEAN
    BY <1>1, EmptyData
  <2>2. nextTxnId \in Nat \ {0} /\ active \subseteq 1 .. nextTxnId - 1 /\ run \in 1 .. MaxRun
    BY <1>1, <1>2
  <2>3. Len(file) = 0 /\ Len(written) = 0
    BY <1>1, EmptyData
  <2>4. header \in {0, WAL_HEADER_SIZE} /\ header <= Len(file) /\ Len(written) <= MaxEntries
    BY <1>1, <1>2, <2>3
  <2> QED
    BY <2>1, <2>2, <2>4 DEF WalTypes
<1>4. Log = <<>>
  BY <1>1 DEF Log
<1>5. Placed(<<>>, Len(<<>>), <<>>, <<>>, {})
  BY EmptyData, PlacedEmpty, Zenon
<1>6. Layout
  BY <1>1, <1>4, <1>5, EmptyData, Zenon DEF Layout
<1>7. CommitsFlushed
  BY <1>1 DEF CommitsFlushed
<1> QED
  BY <1>3, <1>6, <1>7 DEF WalInv

\* What the stream holds, and the log that it makes.
LEMMA LogIs ==
  ASSUME WalInv
  PROVE  /\ file \in Data /\ buffer \in Data /\ Log \in Data
         /\ Len(Log) = Len(file) + Len(buffer) /\ Len(file) \in Nat /\ Len(buffer) \in Nat
         /\ \A j \in 1 .. Len(file) : Log[j] = file[j]
<1>1. file \in Data /\ buffer \in Data
  BY DEF WalInv, WalTypes
<1>2. Len(file) \in Nat /\ Len(buffer) \in Nat
  BY <1>1 DEF Data
<1>3. PICK log : log = file \o buffer
  OBVIOUS
<1>4. Makes(file, buffer, log)
  BY <1>1, <1>3, JoinedData
<1>5. Log = log
  BY <1>3 DEF Log
<1> QED
  BY <1>1, <1>2, <1>4, <1>5, Zenon DEF Makes

\* A step that writes one entry, to the buffer or behind it to the file.
LEMMA EntryWritten ==
  ASSUME WalInv, NEW e \in Entries, WriteLogEntry(e),
         Buffered(e) \/ Flushed(buffer \o Serialize(e))
  PROVE  /\ Layout' /\ file' \in Data /\ buffer' \in Data /\ Len(file) <= Len(file')
         /\ Len(written') = Len(written) + 1 /\ Len(written') <= MaxEntries
         /\ Len(written) \in Nat /\ ends'[Len(written')] = Len(Log')
         /\ \A i \in 1 .. Len(written) : ends'[i] = ends[i]
<1>1. /\ file \in Data /\ buffer \in Data /\ Log \in Data
      /\ Len(file) \in Nat /\ Len(Log) \in Nat
      /\ Placed(Log, header, written, ends, torn)
      /\ written \in Seq(Entries) /\ ends \in Seq(Nat) /\ Len(ends) = Len(written)
  <2>1. Placed(Log, header, written, ends, torn)
    BY DEF WalInv, Layout
  <2>2. written \in Seq(Entries) /\ ends \in Seq(Nat) /\ Len(ends) = Len(written)
    BY <2>1, Zenon DEF Placed
  <2>3. Log \in Data
    BY LogIs
  <2>4. Len(Log) \in Nat
    BY <2>3 DEF Data
  <2> QED
    BY <2>1, <2>2, <2>3, <2>4, LogIs
<1>2. /\ written' = Append(written, e) /\ ends' = Append(ends, Len(Log) + Size(e))
      /\ header' = header /\ torn' = torn /\ Len(written) < MaxEntries
  BY DEF WriteLogEntry
<1>3. PICK s, n, l, size :
        s = Serialize(e) /\ n = Len(written) /\ l = Len(Log) /\ size = Size(e)
  OBVIOUS
<1>4. s \in Data /\ Len(s) = size
  BY <1>3, SerializeFields, Zenon DEF Fields
<1>5. size \in Nat /\ n \in Nat /\ l \in Nat
  <2>1. size \in Nat
    BY <1>3, LengthsOf
  <2>2. n \in Nat
    BY <1>1, <1>3
  <2>3. l \in Nat
    BY <1>1, <1>3
  <2> QED
    BY <2>1, <2>2, <2>3
<1>6. (file \o buffer) \o s = file \o (buffer \o s)
  BY <1>1, <1>4, Regrouped DEF Data
<1>7. buffer \o s \in Data
  <2>1. PICK x : x = buffer \o s
    OBVIOUS
  <2>2. Makes(buffer, s, x)
    BY <1>1, <1>4, <2>1, JoinedData
  <2> QED
    BY <2>1, <2>2, Zenon DEF Makes
<1>8. file \o (buffer \o s) \in Data /\ Len(file) <= Len(file \o (buffer \o s))
  <2>1. PICK x, y : x = buffer \o s /\ y = file \o x
    OBVIOUS
  <2>2. x \in Data
    BY <1>7, <2>1
  <2>3. Makes(file, x, y)
    BY <1>1, <2>1, <2>2, JoinedData
  <2>4. Len(x) \in Nat /\ Len(y) = Len(file) + Len(x) /\ y \in Data
    BY <2>2, <2>3 DEF Makes, Data
  <2>5. Len(file) <= Len(y)
    BY <1>1, <2>4
  <2> QED
    BY <2>1, <2>4, <2>5, Zenon
<1>9. /\ Log' = Log \o s /\ file' \in Data /\ buffer' \in Data /\ Len(file) <= Len(file')
  <2>1. CASE Buffered(e)
    <3>1. file' = file /\ buffer' = buffer \o s
      BY <1>3, <2>1 DEF Buffered
    <3>2. Log' = file \o (buffer \o s)
      BY <3>1 DEF Log
    <3>3. Log' = Log \o s
      BY <1>6, <3>2 DEF Log
    <3> QED
      BY <1>1, <1>7, <3>1, <3>3
  <2>2. CASE Flushed(buffer \o Serialize(e))
    <3>1. file' = file \o (buffer \o s) /\ buffer' = <<>>
      BY <1>3, <2>2 DEF Flushed
    <3>2. Log' = (file \o (buffer \o s)) \o <<>>
      BY <3>1 DEF Log
    <3>3. (file \o (buffer \o s)) \o <<>> = file \o (buffer \o s)
      <4>1. PICK y : y = file \o (buffer \o s)
        OBVIOUS
      <4>2. y \in Seq(Bytes)
        BY <1>8, <4>1 DEF Data
      <4> QED
        BY <4>1, <4>2, NothingAdded
    <3>4. Log' = Log \o s
      BY <1>6, <3>2, <3>3 DEF Log
    <3> QED
      BY <1>8, <3>1, <3>4, EmptyData
  <2> QED
    BY <2>1, <2>2
<1>10. Placed(Log \o s, header, Append(written, e), Append(ends, l + size), torn)
  BY <1>1, <1>3, PlacedAppend, Zenon
<1>11. Placed(Log', header', written', ends', torn')
  BY <1>2, <1>3, <1>9, <1>10, Zenon
<1>12. Layout'
  BY <1>11 DEF Layout
<1>13. Len(written') = n + 1
  BY <1>1, <1>2, <1>3, AppendedIs
<1>14. ends'[n + 1] = l + size /\ \A i \in 1 .. n : ends'[i] = ends[i]
  <2>1. PICK x : x = l + size
    OBVIOUS
  <2>2. x \in Nat /\ ends' = Append(ends, x) /\ n = Len(ends)
    BY <1>1, <1>2, <1>3, <1>5, <2>1
  <2>3. ends'[n + 1] = x /\ \A i \in 1 .. n : ends'[i] = ends[i]
    BY <1>1, <2>2, AppendedIs
  <2> QED
    BY <2>1, <2>3, Zenon
<1>15. Len(Log') = l + size
  <2>1. PICK x : x = Log \o s
    OBVIOUS
  <2>2. Makes(Log, s, x)
    BY <1>1, <1>4, <2>1, JoinedData
  <2>3. Len(x) = l + size
    BY <1>3, <1>4, <2>2, Zenon DEF Makes
  <2> QED
    BY <1>9, <2>1, <2>3, Zenon
<1>16. n + 1 <= MaxEntries
  <2>1. MaxEntries \in Nat
    BY WriteAheadLogAssumption
  <2>2. n < MaxEntries
    BY <1>2, <1>3
  <2> QED
    BY <1>5, <2>1, <2>2
<1> QED
  BY <1>3, <1>5, <1>9, <1>12, <1>13, <1>14, <1>15, <1>16, Zenon

\* A step that writes an entry and no COMMIT.
LEMMA OperationStep ==
  ASSUME WalInv, NEW e \in Entries, WriteLogEntry(e), Buffered(e), committed' = committed,
         nextTxnId' \in Nat \ {0}, active' \subseteq 1 .. nextTxnId' - 1
  PROVE  WalInv'
<1>1. /\ Layout' /\ file' \in Data /\ buffer' \in Data /\ Len(file) <= Len(file')
      /\ Len(written') = Len(written) + 1 /\ Len(written') <= MaxEntries
      /\ Len(written) \in Nat
      /\ \A i \in 1 .. Len(written) : ends'[i] = ends[i]
  BY EntryWritten, Zenon
<1>2. WalTypes /\ CommitsFlushed
  BY DEF WalInv
<1>3. failed' = FALSE /\ run' = run /\ header' = header /\ file' = file
  BY DEF WriteLogEntry, Buffered
<1>4. WalTypes'
  BY <1>1, <1>2, <1>3, Zenon DEF WalTypes
<1>5. CommitsFlushed'
  <2> SUFFICES ASSUME NEW i \in committed
               PROVE  i \in 1 .. Len(written') /\ ends'[i] <= Len(file')
    BY DEF CommitsFlushed
  <2>1. i \in 1 .. Len(written) /\ ends[i] <= Len(file)
    BY <1>2 DEF CommitsFlushed
  <2>2. ends'[i] = ends[i] /\ file' = file
    BY <1>1, <1>3, <2>1
  <2>3. i \in 1 .. Len(written')
    BY <1>1, <2>1
  <2> QED
    BY <2>1, <2>2, <2>3
<1> QED
  BY <1>1, <1>4, <1>5, Zenon DEF WalInv

\* Ids of transactions are numbers.
LEMMA ActiveAreNumbers ==
  ASSUME WalInv
  PROVE  nextTxnId \in Nat \ {0} /\ active \subseteq 1 .. nextTxnId - 1 /\ \A t \in active : t \in Nat
BY DEF WalInv, WalTypes

\* Keys and values fit in an entry.
LEMMA StringsAreData ==
  ASSUME NEW s \in Keys \cup Values
  PROVE  s \in Data /\ Len(s) < 65536
BY WriteAheadLogAssumption DEF Data

\* logBeginTxn, logPutRecord, logDeleteRecord and logAbortTxn write to the buffer.
LEMMA BeginStep == WalInv /\ LogBeginTxn => WalInv'
<1> SUFFICES ASSUME WalInv, LogBeginTxn PROVE WalInv'
  OBVIOUS
<1>1. PICK e : e = Entry("BEGIN_TXN", nextTxnId, <<>>, <<>>)
  OBVIOUS
<1>2. nextTxnId \in Nat \ {0} /\ active \subseteq 1 .. nextTxnId - 1
  BY ActiveAreNumbers
<1>3. /\ WriteLogEntry(e) /\ Buffered(e) /\ committed' = committed
      /\ nextTxnId' = nextTxnId + 1 /\ active' = active \cup {nextTxnId}
  BY <1>1, Zenon DEF LogBeginTxn
<1>4. e \in Entries
  <2>1. "BEGIN_TXN" \in TypeNames
    BY Zenon DEF TypeNames
  <2>2. nextTxnId \in Nat /\ Len(<<>>) < 65536
    BY <1>2
  <2> QED
    BY <1>1, <2>1, <2>2, EmptyData, EntryIsEntry
<1>5. nextTxnId' \in Nat \ {0} /\ active' \subseteq 1 .. nextTxnId' - 1
  BY <1>2, <1>3
<1> QED
  BY <1>3, <1>4, <1>5, OperationStep, Zenon

\* logPutRecord.
LEMMA PutStep ==
  ASSUME NEW t, NEW k \in Keys, NEW v \in Values
  PROVE  WalInv /\ LogPutRecord(t, k, v) => WalInv'
<1> SUFFICES ASSUME WalInv, LogPutRecord(t, k, v) PROVE WalInv'
  OBVIOUS
<1>1. PICK e : e = Entry("PUT_RECORD", t, k, v)
  OBVIOUS
<1>2. /\ nextTxnId \in Nat \ {0} /\ active \subseteq 1 .. nextTxnId - 1
      /\ \A x \in active : x \in Nat
  BY ActiveAreNumbers
<1>3. /\ t \in active /\ WriteLogEntry(e) /\ Buffered(e) /\ committed' = committed
      /\ nextTxnId' = nextTxnId /\ active' = active
  BY <1>1, Zenon DEF LogPutRecord, LogOperation
<1>4. e \in Entries
  <2>1. "PUT_RECORD" \in TypeNames
    BY Zenon DEF TypeNames
  <2>2. t \in Nat /\ k \in Data /\ Len(k) < 65536 /\ v \in Data /\ Len(v) < 65536
    BY <1>2, <1>3, StringsAreData
  <2> QED
    BY <1>1, <2>1, <2>2, EntryIsEntry
<1>5. nextTxnId' \in Nat \ {0} /\ active' \subseteq 1 .. nextTxnId' - 1
  BY <1>2, <1>3
<1> QED
  BY <1>3, <1>4, <1>5, OperationStep, Zenon

\* logDeleteRecord.
LEMMA DeleteStep ==
  ASSUME NEW t, NEW k \in Keys
  PROVE  WalInv /\ LogDeleteRecord(t, k) => WalInv'
<1> SUFFICES ASSUME WalInv, LogDeleteRecord(t, k) PROVE WalInv'
  OBVIOUS
<1>1. PICK e : e = Entry("DELETE_RECORD", t, k, <<>>)
  OBVIOUS
<1>2. /\ nextTxnId \in Nat \ {0} /\ active \subseteq 1 .. nextTxnId - 1
      /\ \A x \in active : x \in Nat
  BY ActiveAreNumbers
<1>3. /\ t \in active /\ WriteLogEntry(e) /\ Buffered(e) /\ committed' = committed
      /\ nextTxnId' = nextTxnId /\ active' = active
  BY <1>1, Zenon DEF LogDeleteRecord, LogOperation
<1>4. e \in Entries
  <2>1. "DELETE_RECORD" \in TypeNames
    BY Zenon DEF TypeNames
  <2>2. t \in Nat /\ k \in Data /\ Len(k) < 65536 /\ Len(<<>>) < 65536
    BY <1>2, <1>3, StringsAreData
  <2> QED
    BY <1>1, <2>1, <2>2, EmptyData, EntryIsEntry
<1>5. nextTxnId' \in Nat \ {0} /\ active' \subseteq 1 .. nextTxnId' - 1
  BY <1>2, <1>3
<1> QED
  BY <1>3, <1>4, <1>5, OperationStep, Zenon

\* logAbortTxn.
LEMMA AbortStep == ASSUME NEW t PROVE WalInv /\ LogAbortTxn(t) => WalInv'
<1> SUFFICES ASSUME WalInv, LogAbortTxn(t) PROVE WalInv'
  OBVIOUS
<1>1. PICK e : e = Entry("ABORT_TXN", t, <<>>, <<>>)
  OBVIOUS
<1>2. /\ nextTxnId \in Nat \ {0} /\ active \subseteq 1 .. nextTxnId - 1
      /\ \A x \in active : x \in Nat
  BY ActiveAreNumbers
<1>3. /\ t \in active /\ WriteLogEntry(e) /\ Buffered(e) /\ committed' = committed
      /\ nextTxnId' = nextTxnId /\ active' = active \ {t}
  BY <1>1, Zenon DEF LogAbortTxn
<1>4. e \in Entries
  <2>1. "ABORT_TXN" \in TypeNames
    BY Zenon DEF TypeNames
  <2>2. t \in Nat /\ Len(<<>>) < 65536
    BY <1>2, <1>3
  <2> QED
    BY <1>1, <2>1, <2>2, EmptyData, EntryIsEntry
<1>5. nextTxnId' \in Nat \ {0} /\ active' \subseteq 1 .. nextTxnId' - 1
  BY <1>2, <1>3
<1> QED
  BY <1>3, <1>4, <1>5, OperationStep, Zenon

\* The COMMIT is in the file, and so is all that was logged before it.
LEMMA CommitStep == ASSUME NEW t PROVE WalInv /\ LogCommitTxn(t) => WalInv'
<1> SUFFICES ASSUME WalInv, LogCommitTxn(t) PROVE WalInv'
  OBVIOUS
<1>1. PICK e : e = Entry("COMMIT_TXN", t, <<>>, <<>>)
  OBVIOUS
<1>2. /\ nextTxnId \in Nat \ {0} /\ active \subseteq 1 .. nextTxnId - 1
      /\ \A x \in active : x \in Nat
  BY ActiveAreNumbers
<1>3. /\ t \in active /\ WriteLogEntry(e) /\ Flushed(buffer \o Serialize(e))
      /\ committed' = committed \cup {Len(written')}
      /\ nextTxnId' = nextTxnId /\ active' = active \ {t}
  BY <1>1, Zenon DEF LogCommitTxn
<1>4. e \in Entries
  <2>1. "COMMIT_TXN" \in TypeNames
    BY Zenon DEF TypeNames
  <2>2. t \in Nat /\ Len(<<>>) < 65536
    BY <1>2, <1>3
  <2> QED
    BY <1>1, <2>1, <2>2, EmptyData, EntryIsEntry
<1>5. /\ Layout' /\ file' \in Data /\ buffer' \in Data /\ Len(file) <= Len(file')
      /\ Len(written') = Len(written) + 1 /\ Len(written') <= MaxEntries
      /\ Len(written) \in Nat /\ ends'[Len(written')] = Len(Log')
      /\ \A i \in 1 .. Len(written) : ends'[i] = ends[i]
  BY <1>3, <1>4, EntryWritten, Zenon
<1>6. WalTypes /\ CommitsFlushed
  BY DEF WalInv
<1>7. failed' = FALSE /\ run' = run /\ header' = header /\ buffer' = <<>>
  BY <1>3 DEF WriteLogEntry, Flushed
<1>8. Len(file) \in Nat /\ Len(file') \in Nat /\ header \in Nat
  <2>1. file \in Data /\ header \in {0, WAL_HEADER_SIZE}
    BY <1>6 DEF WalTypes
  <2>2. WAL_HEADER_SIZE \in Nat
    BY WriteAheadLogAssumption
  <2> QED
    BY <1>5, <2>1, <2>2 DEF Data
<1>9. WalTypes'
  <2>1. header <= Len(file')
    <3>1. header <= Len(file)
      BY <1>6 DEF WalTypes
    <3> QED
      BY <1>5, <1>8, <3>1
  <2>2. active' \subseteq 1 .. nextTxnId' - 1 /\ nextTxnId' \in Nat \ {0}
    BY <1>2, <1>3
  <2>3. header' \in {0, WAL_HEADER_SIZE} /\ run' \in 1 .. MaxRun /\ failed' \in BOOLEAN
    BY <1>6, <1>7 DEF WalTypes
  <2>4. header' <= Len(file')
    BY <1>7, <2>1
  <2> QED
    BY <1>5, <2>2, <2>3, <2>4, Zenon DEF WalTypes
<1>10. Log' = file'
  <2>1. file' \in Seq(Bytes)
    BY <1>5 DEF Data
  <2>2. file' \o <<>> = file'
    BY <2>1, NothingAdded
  <2> QED
    BY <1>7, <2>2 DEF Log
<1>11. CommitsFlushed'
  <2> SUFFICES ASSUME NEW i \in committed'
               PROVE  i \in 1 .. Len(written') /\ ends'[i] <= Len(file')
    BY DEF CommitsFlushed
  <2>1. CASE i \in committed
    <3>1. i \in 1 .. Len(written) /\ ends[i] <= Len(file)
      BY <1>6, <2>1 DEF CommitsFlushed
    <3>2. ends'[i] = ends[i] /\ i \in 1 .. Len(written')
      BY <1>5, <3>1
    <3>3. ends[i] \in Nat
      <4>1. ends \in Seq(Nat) /\ Len(ends) = Len(written)
        BY Zenon DEF WalInv, Layout, Placed
      <4> QED
        BY <3>1, <4>1
    <3>4. ends[i] <= Len(file')
      BY <1>5, <1>8, <3>1, <3>3
    <3> QED
      BY <3>2, <3>4
  <2>2. CASE i = Len(written')
    <3>1. i \in 1 .. Len(written')
      BY <1>5, <2>2
    <3>2. ends'[i] = Len(file')
      BY <1>5, <1>10, <2>2
    <3> QED
      BY <1>8, <3>1, <3>2
  <2> QED
    BY <1>3, <2>1, <2>2
<1> QED
  BY <1>5, <1>9, <1>11, Zenon DEF WalInv

\* A step that moves the buffer to the file, or leaves both as they are.
LEMMA SameLog ==
  ASSUME WalInv, Flushed(buffer) \/ UNCHANGED <<file, buffer>>
  PROVE  Log' = Log /\ file' \in Data /\ buffer' \in Data /\ Len(file) <= Len(file')
<1>1. /\ file \in Data /\ buffer \in Data /\ Log \in Data
      /\ Len(Log) = Len(file) + Len(buffer) /\ Len(file) \in Nat /\ Len(buffer) \in Nat
  BY LogIs
<1>2. CASE Flushed(buffer)
  <2>1. file' = Log /\ buffer' = <<>>
    BY <1>2 DEF Flushed, Log
  <2>2. Log \o <<>> = Log
    BY <1>1, NothingAdded DEF Data
  <2>3. Log' = Log
    <3>1. Log' = file' \o buffer'
      BY DEF Log
    <3> QED
      BY <2>1, <2>2, <3>1, Zenon
  <2>4. Len(file) <= Len(Log)
    BY <1>1
  <2> QED
    BY <1>1, <2>1, <2>3, <2>4, EmptyData
<1>3. CASE UNCHANGED <<file, buffer>>
  <2>1. file' = file /\ buffer' = buffer
    BY <1>3
  <2>2. Log' = Log
    BY <2>1 DEF Log
  <2>3. Len(file') = Len(file)
    BY <2>1
  <2>4. Len(file) <= Len(file')
    BY <1>1, <2>3
  <2> QED
    BY <1>1, <2>1, <2>2, <2>4, Zenon
<1> QED
  BY <1>2, <1>3

\* With the same entries as before, the invariant is kept.
LEMMA SameEntries ==
  ASSUME WalInv, Flushed(buffer) \/ UNCHANGED <<file, buffer>>,
         UNCHANGED <<header, written, ends, committed, torn>>,
         failed' \in BOOLEAN, run' \in 1 .. MaxRun,
         nextTxnId' \in Nat \ {0}, active' \subseteq 1 .. nextTxnId' - 1
  PROVE  WalInv'
<1>1. /\ Log' = Log /\ file' \in Data /\ buffer' \in Data /\ Len(file) <= Len(file')
  BY SameLog
<1>2. /\ header' = header /\ written' = written /\ ends' = ends
      /\ committed' = committed /\ torn' = torn
  OBVIOUS
<1>3. WalTypes /\ Layout /\ CommitsFlushed
  BY DEF WalInv
<1>4. Layout'
  BY <1>1, <1>2, <1>3, Zenon DEF Layout
<1>5. Len(file) \in Nat /\ Len(file') \in Nat /\ header \in Nat
  <2>1. header \in {0, WAL_HEADER_SIZE} /\ WAL_HEADER_SIZE \in Nat
    BY <1>3, WriteAheadLogAssumption DEF WalTypes
  <2> QED
    BY <1>1, <2>1, LogIs DEF Data
<1>6. WalTypes'
  <2>1. header <= Len(file)
    BY <1>3 DEF WalTypes
  <2>2. header <= Len(file')
    BY <1>1, <1>5, <2>1
  <2>3. header' \in {0, WAL_HEADER_SIZE} /\ Len(written') <= MaxEntries /\ header' <= Len(file')
    BY <1>2, <1>3, <2>2, Zenon DEF WalTypes
  <2> QED
    BY <1>1, <2>3, Zenon DEF WalTypes
<1>7. CommitsFlushed'
  <2> SUFFICES ASSUME NEW i \in committed
               PROVE  i \in 1 .. Len(written) /\ ends[i] <= Len(file')
    BY <1>2, Zenon DEF CommitsFlushed
  <2>1. i \in 1 .. Len(written) /\ ends[i] <= Len(file)
    BY <1>3 DEF CommitsFlushed
  <2>2. ends[i] \in Nat
    <3>1. ends \in Seq(Nat) /\ Len(ends) = Len(written)
      BY <1>3, Zenon DEF Layout, Placed
    <3> QED
      BY <2>1, <3>1
  <2> QED
    BY <1>1, <1>5, <2>1, <2>2
<1> QED
  BY <1>4, <1>6, <1>7, Zenon DEF WalInv

\* flush and checkpoint move the buffer to the file.
LEMMA FlushStep == WalInv /\ Flush => WalInv'
<1> SUFFICES ASSUME WalInv, Flush PROVE WalInv'
  OBVIOUS
<1>1. WalTypes
  BY DEF WalInv
<1>2. /\ Flushed(buffer) /\ UNCHANGED <<header, written, ends, committed, torn>>
      /\ failed' \in BOOLEAN /\ run' = run /\ nextTxnId' = nextTxnId /\ active' = active
  BY DEF Flush
<1>3. /\ run' \in 1 .. MaxRun /\ nextTxnId' \in Nat \ {0}
      /\ active' \subseteq 1 .. nextTxnId' - 1
  BY <1>1, <1>2 DEF WalTypes
<1> QED
  BY <1>2, <1>3, SameEntries

\* replayLog may move the buffer to the file, and fails or does not.
LEMMA ReplayStep == WalInv /\ ReplayLog => WalInv'
<1> SUFFICES ASSUME WalInv, ReplayLog PROVE WalInv'
  OBVIOUS
<1>1. WalTypes
  BY DEF WalInv
<1>2. /\ Flushed(buffer) \/ UNCHANGED <<file, buffer>>
      /\ failed' = failed \/ failed' = RanShort(Log)
  BY DEF ReplayLog
<1>3. /\ UNCHANGED <<header, written, ends, committed, torn>>
      /\ run' = run /\ nextTxnId' = nextTxnId /\ active' = active
  BY DEF ReplayLog
<1>4. RanShort(Log) \in BOOLEAN
  BY DEF RanShort
<1>5. /\ failed' \in BOOLEAN /\ run' \in 1 .. MaxRun /\ nextTxnId' \in Nat \ {0}
      /\ active' \subseteq 1 .. nextTxnId' - 1
  BY <1>1, <1>2, <1>3, <1>4 DEF WalTypes
<1> QED
  BY <1>2, <1>3, <1>5, SameEntries

\* A run that ends as it should leaves the whole log to the next.
LEMMA CloseStep == WalInv /\ Close => WalInv'
<1> SUFFICES ASSUME WalInv, Close PROVE WalInv'
  OBVIOUS
<1>1. /\ Flushed(buffer) /\ UNCHANGED <<header, written, ends, committed, torn>>
      /\ failed' = FALSE /\ run' = run + 1 /\ run < MaxRun
      /\ nextTxnId' = 1 /\ active' = {}
  <2>1. Restart(buffer) /\ UNCHANGED <<written, ends, committed, torn>>
    BY DEF Close
  <2>2. Flushed(buffer)
    BY <2>1, Zenon DEF Restart, Flushed
  <2>3. /\ header' = header /\ failed' = FALSE /\ run' = run + 1 /\ run < MaxRun
        /\ nextTxnId' = 1 /\ active' = {}
    BY <2>1 DEF Restart
  <2> QED
    BY <2>1, <2>2, <2>3
<1>2. run \in 1 .. MaxRun /\ MaxRun \in Nat
  BY WriteAheadLogAssumption DEF WalInv, WalTypes
<1>3. /\ failed' \in BOOLEAN /\ run' \in 1 .. MaxRun
      /\ nextTxnId' \in Nat \ {0} /\ active' \subseteq 1 .. nextTxnId' - 1
  <2>1. failed' \in BOOLEAN
    BY <1>1, Zenon
  <2>2. run' \in 1 .. MaxRun
    <3> HIDE <1>1
    <3>1. run' = run + 1 /\ run < MaxRun
      BY <1>1, Zenon
    <3> QED
      BY <1>2, <3>1
  <2>3. nextTxnId' \in Nat \ {0}
    BY <1>1
  <2>4. active' \subseteq 1 .. nextTxnId' - 1
    BY <1>1, Zenon
  <2> QED
    BY <2>1, <2>2, <2>3, <2>4
<1> QED
  BY <1>1, <1>3, SameEntries

\* truncateLog leaves a header and nothing else.
LEMMA TruncateStep == WalInv /\ TruncateLog => WalInv'
<1> SUFFICES ASSUME WalInv, TruncateLog PROVE WalInv'
  OBVIOUS
<1>1. /\ file' = Zeros(WAL_HEADER_SIZE) /\ buffer' = <<>> /\ failed' = FALSE
      /\ header' = WAL_HEADER_SIZE /\ written' = <<>> /\ ends' = <<>> /\ committed' = {}
      /\ torn' = {} /\ nextTxnId' = nextTxnId /\ active' = active /\ run' = run
  BY DEF TruncateLog, TruncatedFile
<1>2. WAL_HEADER_SIZE \in Nat /\ MaxEntries \in Nat
  BY WriteAheadLogAssumption
<1>3. PICK z : z = Zeros(WAL_HEADER_SIZE)
  OBVIOUS
<1>4. z \in Data /\ Len(z) = WAL_HEADER_SIZE
  <2>1. z \in [1 .. WAL_HEADER_SIZE -> Bytes]
    BY <1>3 DEF Zeros, Bytes
  <2> QED
    BY <1>2, <2>1, FunctionIsSeq DEF Data
<1>5. Log' = z
  <2>1. Log' = file' \o buffer'
    BY DEF Log
  <2>2. z \o <<>> = z
    BY <1>4, NothingAdded DEF Data
  <2> QED
    BY <1>1, <1>3, <2>1, <2>2, Zenon
<1>6. Placed(z, Len(z), <<>>, <<>>, {})
  BY <1>4, PlacedEmpty, Zenon
<1>7. Layout'
  <2>1. Placed(Log', header', written', ends', torn')
    BY <1>1, <1>4, <1>5, <1>6, Zenon
  <2> QED
    BY <2>1 DEF Layout
<1>8. WalTypes'
  <2>1. WalTypes
    BY DEF WalInv
  <2>2. file' \in Data /\ buffer' \in Data /\ failed' \in BOOLEAN
    BY <1>1, <1>3, <1>4, EmptyData
  <2>3. /\ nextTxnId' \in Nat \ {0} /\ active' \subseteq 1 .. nextTxnId' - 1
        /\ run' \in 1 .. MaxRun
    BY <1>1, <2>1 DEF WalTypes
  <2>4. header' \in {0, WAL_HEADER_SIZE} /\ header' <= Len(file') /\ Len(written') <= MaxEntries
    BY <1>1, <1>2, <1>3, <1>4, EmptyData
  <2> QED
    BY <2>2, <2>3, <2>4, Zenon DEF WalTypes
<1>9. CommitsFlushed'
  BY <1>1 DEF CommitsFlushed
<1> QED
  BY <1>7, <1>8, <1>9, Zenon DEF WalInv

\* What a crash keeps of the buffer ends a part of the log.
LEMMA JoinCut ==
  ASSUME NEW a \in Data, NEW b \in Data, NEW n \in Nat, n <= Len(b)
  PROVE  /\ a \o SubSeq(b, 1, n) = SubSeq(a \o b, 1, Len(a) + n)
         /\ SubSeq(a \o b, 1, Len(a) + n) \in Data
         /\ Len(SubSeq(a \o b, 1, Len(a) + n)) = Len(a) + n
         /\ Len(a) + n <= Len(a \o b) /\ Len(a) \in Nat
<1>1. PICK k, l : k = Len(a) /\ l = Len(b)
  OBVIOUS
<1>2. k \in Nat /\ l \in Nat /\ n <= l
  BY <1>1 DEF Data
<1>3. PICK p, q, r, s : p = SubSeq(b, 1, n) /\ q = a \o p /\ r = a \o b /\ s = SubSeq(r, 1, k + n)
  OBVIOUS
<1>4. p \in Data /\ Len(p) = n /\ \A i \in 1 .. n : p[i] = b[i]
  BY <1>3, FirstPartIs DEF Data
<1>5. q \in Data /\ Len(q) = k + n
      /\ (\A i \in 1 .. k : q[i] = a[i]) /\ (\A i \in 1 .. n : q[k + i] = p[i])
  <2>1. Makes(a, p, q)
    BY <1>3, <1>4, JoinedData
  <2> QED
    BY <1>1, <1>4, <2>1 DEF Makes
<1>6. r \in Data /\ Len(r) = k + l
      /\ (\A i \in 1 .. k : r[i] = a[i]) /\ (\A i \in 1 .. l : r[k + i] = b[i])
  <2>1. Makes(a, b, r)
    BY <1>3, JoinedData
  <2> QED
    BY <1>1, <2>1 DEF Makes
<1>7. s \in Data /\ Len(s) = k + n /\ \A i \in 1 .. k + n : s[i] = r[i]
  <2>1. k + n \in Nat /\ k + n <= Len(r)
    BY <1>2, <1>6
  <2> QED
    BY <1>3, <1>6, <2>1, FirstPartIs DEF Data
<1>8. q = s
  <2>1. ASSUME NEW i \in 1 .. k + n PROVE q[i] = s[i]
    <3>1. CASE i \in 1 .. k
      BY <1>5, <1>6, <1>7, <3>1
    <3>2. CASE i \notin 1 .. k
      <4>1. i - k \in 1 .. n /\ i - k \in 1 .. l /\ i = k + (i - k)
        BY <1>2, <3>2
      <4>2. q[k + (i - k)] = p[i - k] /\ p[i - k] = b[i - k] /\ r[k + (i - k)] = b[i - k]
        BY <1>4, <1>5, <1>6, <4>1, Zenon
      <4>3. q[i] = r[i]
        BY <4>1, <4>2, Zenon
      <4> QED
        BY <1>7, <4>3
    <3> QED
      BY <3>1, <3>2
  <2>2. \A i \in 1 .. Len(q) : q[i] = s[i]
    BY <1>5, <2>1
  <2> QED
    BY <1>5, <1>7, <2>2, SameSequences DEF Data
<1>9. k + n <= k + l
  BY <1>2
<1> QED
  BY <1>1, <1>2, <1>3, <1>6, <1>7, <1>8, <1>9, Zenon

\* The crash that keeps this many entries and c bytes of the next.
CrashAt(kept, c) ==
  LET left == EndOf(kept) + c - Len(file)
  IN  /\ left \in 0 .. Len(buffer)
      /\ kept < Len(written) => EndOf(kept) + c < EndOf(kept + 1)
      /\ Restart(SubSeq(buffer, 1, left))
      /\ written' = SubSeq(written, 1, kept)
      /\ ends' = SubSeq(ends, 1, kept)
      /\ torn' = {i \in torn : i < kept} \cup (IF c = 0 THEN {} ELSE {kept})
      /\ UNCHANGED committed

\* A crash is one of them.
LEMMA CrashIsAt == Crash => \E kept \in 0 .. Len(written), c \in Nat : CrashAt(kept, c)
<1>1. CutBytes \subseteq Nat
  BY WriteAheadLogAssumption
<1> QED
  BY <1>1, Zenon DEF Crash, CrashAt

\* After a crash the log is what was left of it, all in the file.
LEMMA CrashCuts ==
  ASSUME WalInv, NEW kept \in 0 .. Len(written), NEW c \in Nat, CrashAt(kept, c)
  PROVE  /\ file' = SubSeq(Log, 1, EndOf(kept) + c) /\ file' \in Data /\ buffer' = <<>>
         /\ Log' = file' /\ Len(file') = EndOf(kept) + c
         /\ Len(file) <= EndOf(kept) + c /\ EndOf(kept) + c <= Len(Log)
         /\ EndOf(kept) \in Nat /\ EndOf(kept) = Ending(header, ends, kept)
<1>1. /\ file \in Data /\ buffer \in Data
      /\ Len(Log) = Len(file) + Len(buffer) /\ Len(file) \in Nat /\ Len(buffer) \in Nat
  BY LogIs
<1>2. EndOf(kept) = Ending(header, ends, kept) /\ EndOf(kept) \in Nat
  <2>1. EndOf(kept) = Ending(header, ends, kept)
    BY Zenon DEF EndOf, Ending
  <2>2. Placed(Log, header, written, ends, torn)
    BY DEF WalInv, Layout
  <2>3. Ending(header, ends, kept) \in Nat
    BY <2>2, EndingIsNat
  <2> QED
    BY <2>1, <2>3, Zenon
<1>3. PICK o, k, l : o = EndOf(kept) /\ k = Len(file) /\ l = Len(buffer)
  OBVIOUS
<1>4. PICK left : left = o + c - k
  OBVIOUS
<1>5. left \in 0 .. l /\ Restart(SubSeq(buffer, 1, left))
  BY <1>3, <1>4, Zenon DEF CrashAt
<1>6. /\ o \in Nat /\ k \in Nat /\ l \in Nat /\ left \in Nat /\ left <= l
      /\ k + left = o + c /\ k <= o + c /\ o + c <= k + l
  <2>1. o \in Nat /\ k \in Nat /\ l \in Nat
    BY <1>1, <1>2, <1>3, Zenon
  <2>2. left \in 0 .. l
    BY <1>5, Zenon
  <2> QED
    BY <1>4, <2>1, <2>2
<1>7. file' = file \o SubSeq(buffer, 1, left) /\ buffer' = <<>>
  BY <1>5, Zenon DEF Restart
<1>8. /\ file \o SubSeq(buffer, 1, left) = SubSeq(file \o buffer, 1, k + left)
      /\ SubSeq(file \o buffer, 1, k + left) \in Data
      /\ Len(SubSeq(file \o buffer, 1, k + left)) = k + left
  BY <1>1, <1>3, <1>6, JoinCut
<1>9. /\ file' = SubSeq(Log, 1, o + c) /\ file' \in Data /\ Len(file') = o + c
  BY <1>6, <1>7, <1>8, Zenon DEF Log
<1>10. Log' = file'
  <2>1. Log' = file' \o buffer'
    BY DEF Log
  <2>2. file' \o <<>> = file'
    BY <1>9, NothingAdded DEF Data
  <2> QED
    BY <1>7, <2>1, <2>2, Zenon
<1>11. k <= o + c /\ o + c <= Len(Log)
  BY <1>1, <1>3, <1>6
<1> QED
  BY <1>2, <1>3, <1>7, <1>9, <1>10, <1>11, Zenon

\* What is left after a crash are the entries it kept and a part of the next.
LEMMA CrashStep == WalInv /\ Crash => WalInv'
<1> SUFFICES ASSUME WalInv, NEW kept \in 0 .. Len(written), NEW c \in Nat, CrashAt(kept, c)
             PROVE  WalInv'
  BY CrashIsAt, Zenon
<1>1. /\ file' = SubSeq(Log, 1, EndOf(kept) + c) /\ file' \in Data /\ buffer' = <<>>
      /\ Log' = file' /\ Len(file') = EndOf(kept) + c
      /\ Len(file) <= EndOf(kept) + c /\ EndOf(kept) + c <= Len(Log)
      /\ EndOf(kept) \in Nat /\ EndOf(kept) = Ending(header, ends, kept)
  BY CrashCuts
<1>2. WalTypes /\ Layout /\ CommitsFlushed
  BY DEF WalInv
<1>3. Placed(Log, header, written, ends, torn)
  BY <1>2 DEF Layout
<1>4. PICK o, k, n, m :
        o = EndOf(kept) /\ k = Len(file) /\ n = Len(written) /\ m = EndOf(kept) + c
  OBVIOUS
<1>5. o \in Nat /\ k \in Nat /\ n \in Nat /\ m \in Nat /\ m = o + c /\ k <= m /\ o <= m
      /\ kept \in Nat /\ kept <= n
  <2>1. k \in Nat
    BY <1>4, LogIs
  <2>2. n \in Nat
    BY <1>3, <1>4, EndingIsNat
  <2>3. o \in Nat /\ k <= m
    BY <1>1, <1>4, Zenon
  <2>4. kept \in 0 .. n /\ m = o + c
    BY <1>4
  <2> QED
    BY <2>1, <2>2, <2>3, <2>4
<1>6. /\ kept < n => o + c < EndOf(kept + 1)
      /\ Restart(SubSeq(buffer, 1, EndOf(kept) + c - Len(file)))
      /\ written' = SubSeq(written, 1, kept) /\ ends' = SubSeq(ends, 1, kept)
      /\ torn' = {i \in torn : i < kept} \cup (IF c = 0 THEN {} ELSE {kept})
      /\ committed' = committed
  BY <1>4, Zenon DEF CrashAt
<1>7. /\ header' = header /\ failed' = FALSE /\ run < MaxRun /\ run' = run + 1
      /\ nextTxnId' = 1 /\ active' = {}
  BY <1>6, Zenon DEF Restart
<1>8. Layout'
  <2>1. torn' \subseteq 0 .. kept
    <3>1. torn \subseteq 0 .. n
      BY <1>3, <1>4, Zenon DEF Placed
    <3>2. ASSUME NEW i \in torn' PROVE i \in 0 .. kept
      <4>1. (i \in torn /\ i < kept) \/ i = kept
        BY <1>6
      <4>2. i \in 0 .. n \/ i = kept
        BY <3>1, <4>1, Zenon
      <4> QED
        BY <1>5, <4>1, <4>2
    <3> QED
      BY <3>2, Zenon
  <2>2. \A i \in torn : i < kept => i \in torn'
    BY <1>6, Zenon
  <2>3. kept \notin torn' => m = o
    BY <1>5, <1>6
  <2>4. /\ o = Ending(header, ends, kept) /\ o <= m /\ m <= Len(Log) /\ file' = SubSeq(Log, 1, m)
    BY <1>1, <1>4, <1>5, Zenon
  <2>5. PICK t2 : t2 = torn'
    OBVIOUS
  <2>6. Placed(SubSeq(Log, 1, m), header, SubSeq(written, 1, kept), SubSeq(ends, 1, kept), t2)
    <3>1. /\ t2 \subseteq 0 .. kept /\ \A i \in torn : i < kept => i \in t2
          /\ kept \notin t2 => m = Ending(header, ends, kept)
      BY <2>1, <2>2, <2>3, <2>4, <2>5, Zenon
    <3>2. Ending(header, ends, kept) <= m
      BY <2>4, Zenon
    <3> QED
      BY <1>3, <1>5, <2>4, <3>1, <3>2, PlacedCut
  <2>7. Placed(Log', header', written', ends', torn')
    BY <1>1, <1>6, <1>7, <2>4, <2>5, <2>6, Zenon
  <2> QED
    BY <2>7 DEF Layout
<1>9. Len(written') = kept
  <2>1. written \in Seq(Entries) /\ kept <= Len(written)
    BY <1>3, <1>4, <1>5, Zenon DEF Placed
  <2> QED
    BY <1>5, <1>6, <2>1, FirstPartIs
<1>10. WalTypes'
  <2>1. file' \in Data /\ buffer' \in Data
    BY <1>1, EmptyData
  <2>2. failed' \in BOOLEAN
    BY <1>7
  <2>3. nextTxnId' \in Nat \ {0} /\ active' \subseteq 1 .. nextTxnId' - 1
    <3>1. nextTxnId' \in Nat \ {0}
      BY <1>7
    <3>2. active' \subseteq 1 .. nextTxnId' - 1
      BY <1>7, Zenon
    <3> QED
      BY <3>1, <3>2
  <2>4. run' \in 1 .. MaxRun
    <3>1. run \in 1 .. MaxRun /\ MaxRun \in Nat
      BY <1>2, WriteAheadLogAssumption DEF WalTypes
    <3>2. run < MaxRun /\ run' = run + 1
      BY <1>7, Zenon
    <3> QED
      BY <3>1, <3>2
  <2>5. header' \in {0, WAL_HEADER_SIZE} /\ header' <= Len(file')
    <3>1. header \in {0, WAL_HEADER_SIZE} /\ header <= k
      BY <1>2, <1>4 DEF WalTypes
    <3>2. header \in Nat
      BY <1>3, Zenon DEF Placed
    <3>3. header <= m
      BY <1>5, <3>1, <3>2
    <3> QED
      BY <1>1, <1>4, <1>7, <3>1, <3>3, Zenon
  <2>6. Len(written') <= MaxEntries
    <3>1. n <= MaxEntries /\ MaxEntries \in Nat
      BY <1>2, <1>4, WriteAheadLogAssumption DEF WalTypes
    <3>2. kept <= MaxEntries
      BY <1>5, <3>1
    <3> QED
      BY <1>9, <3>2, Zenon
  <2> QED
    BY <2>1, <2>2, <2>3, <2>4, <2>5, <2>6, Zenon DEF WalTypes
<1>11. CommitsFlushed'
  <2>1. ASSUME NEW i \in committed
        PROVE  i \in 1 .. kept /\ ends'[i] <= Len(file')
    <3>1. i \in 1 .. n /\ ends[i] <= k
      BY <1>2, <1>4 DEF CommitsFlushed
    <3>2. ends \in Seq(Nat) /\ Len(ends) = n
      BY <1>3, <1>4, Zenon DEF Placed
    <3>3. ends[i] \in Nat
      BY <3>1, <3>2
    <3>4. i <= kept
      <4> SUFFICES ASSUME ~(i <= kept) PROVE FALSE
        OBVIOUS
      <4>1. kept < n /\ kept + 1 <= i /\ kept + 1 \in 0 .. n /\ i \in 0 .. n /\ i # 0 /\ kept + 1 # 0
        BY <1>5, <3>1
      <4>2. EndOf(kept + 1) = ends[kept + 1]
        BY <4>1, Zenon DEF EndOf
      <4>3. Ending(header, ends, kept + 1) <= Ending(header, ends, i)
        BY <1>3, <1>4, <4>1, Zenon DEF Placed
      <4>4. ends[kept + 1] <= ends[i]
        BY <4>1, <4>3, Zenon DEF Ending
      <4>5. ends[kept + 1] \in Nat
        BY <3>2, <4>1
      <4>6. m < ends[kept + 1]
        BY <1>5, <1>6, <4>1, <4>2, Zenon
      <4>7. PICK x, y : x = ends[kept + 1] /\ y = ends[i]
        OBVIOUS
      <4>8. x \in Nat /\ y \in Nat /\ x <= y /\ m < x /\ y <= k
        BY <3>1, <3>3, <4>4, <4>5, <4>6, <4>7, Zenon
      <4> QED
        BY <1>5, <4>8
    <3>5. i \in 1 .. kept
      BY <1>5, <3>1, <3>4
    <3>6. ends'[i] = ends[i]
      <4>1. kept <= Len(ends)
        BY <1>5, <3>2, Zenon
      <4>2. PICK es : es = SubSeq(ends, 1, kept)
        OBVIOUS
      <4>3. es[i] = ends[i]
        BY <1>5, <3>2, <3>5, <4>1, <4>2, FirstPartIs
      <4> QED
        BY <1>6, <4>2, <4>3, Zenon
    <3>7. ends[i] <= m
      BY <1>5, <3>1, <3>3
    <3> QED
      BY <1>1, <1>4, <3>5, <3>6, <3>7, Zenon
  <2> QED
    BY <1>6, <1>9, <2>1, Zenon DEF CommitsFlushed
<1> QED
  BY <1>8, <1>10, <1>11, Zenon DEF WalInv

\* Every step keeps the invariant.
LEMMA WalInvStep == WalInv /\ [Next]_vars => WalInv'
<1> SUFFICES ASSUME WalInv, [Next]_vars PROVE WalInv'
  OBVIOUS
<1>1. CASE LogBeginTxn
  BY <1>1, BeginStep
<1>2. ASSUME NEW t \in active, NEW k \in Keys, NEW v \in Values, LogPutRecord(t, k, v)
      PROVE  WalInv'
  BY <1>2, PutStep
<1>3. ASSUME NEW t \in active, NEW k \in Keys, LogDeleteRecord(t, k)
      PROVE  WalInv'
  BY <1>3, DeleteStep
<1>4. ASSUME NEW t \in active, LogCommitTxn(t)
      PROVE  WalInv'
  BY <1>4, CommitStep
<1>5. ASSUME NEW t \in active, LogAbortTxn(t)
      PROVE  WalInv'
  BY <1>5, AbortStep
<1>6. CASE Flush
  BY <1>6, FlushStep
<1>7. CASE ReplayLog
  BY <1>7, ReplayStep
<1>8. CASE TruncateLog
  BY <1>8, TruncateStep
<1>9. CASE Close
  BY <1>9, CloseStep
<1>10. CASE Crash
  BY <1>10, CrashStep
<1>11. CASE UNCHANGED vars
  <2>1. /\ UNCHANGED <<file, buffer>> /\ UNCHANGED <<header, written, ends, committed, torn>>
        /\ failed' = failed /\ run' = run /\ nextTxnId' = nextTxnId /\ active' = active
    BY <1>11 DEF vars
  <2>2. /\ failed' \in BOOLEAN /\ run' \in 1 .. MaxRun /\ nextTxnId' \in Nat \ {0}
        /\ active' \subseteq 1 .. nextTxnId' - 1
    BY <2>1 DEF WalInv, WalTypes
  <2> QED
    BY <2>1, <2>2, SameEntries
<1> QED
  BY <1>1, <1>2, <1>3, <1>4, <1>5, <1>6, <1>7, <1>8, <1>9, <1>10, <1>11, Zenon DEF Next

\* What is known of the log in every state.
THEOREM WalInvHolds == Spec => []WalInv
<1> QED
  BY WalInvInit, WalInvStep, PTL DEF Spec

\* The state has its types and the header is whole or absent (wal.cpp:281-314).
THEOREM WalTypeCorrect == Spec => []WalTypeOK
<1>1. WalInv => WalTypeOK
  <2> SUFFICES ASSUME WalInv PROVE WalTypeOK
    OBVIOUS
  <2>1. WalTypes /\ Layout /\ CommitsFlushed
    BY DEF WalInv
  <2>2. Len(ends) = Len(written) /\ torn \subseteq 0 .. Len(written)
    BY <2>1, Zenon DEF Layout, Placed
  <2>3. committed \subseteq 1 .. Len(written)
    BY <2>1, Zenon DEF CommitsFlushed
  <2>4. header <= Len(file) /\ Len(file) >= header
    <3>1. Len(file) \in Nat /\ header \in Nat /\ header <= Len(file)
      BY <2>1, LogIs, Zenon DEF Layout, Placed, WalTypes
    <3> QED
      BY <3>1
  <2>5. file \in Seq(Bytes) /\ buffer \in Seq(Bytes)
    BY <2>1, Zenon DEF WalTypes, Data
  <2> QED
    BY <2>1, <2>2, <2>3, <2>4, <2>5, Zenon DEF WalTypes, WalTypeOK
<1> QED
  BY <1>1, WalInvHolds, PTL

\* Past the end of the data there is no entry.
LEMMA NothingAtTheEnd ==
  ASSUME NEW d \in Data, NEW n, n = Len(d)
  PROVE  ReadAt(d, n) = NoEntry
<1>1. PICK r : r = SubSeq(d, n + 1, n)
  OBVIOUS
<1>2. n \in Nat
  BY DEF Data
<1>3. Len(r) = 0
  <2>1. r \in Seq(Bytes) /\ Len(r) = n - n
    BY <1>1, <1>2, PartIs DEF Data, IsPart
  <2> QED
    BY <1>2, <2>1
<1>4. Len(r) < 22
  BY <1>3
<1>5. Deserialize(r) = NoEntry
  BY <1>4, Zenon DEF Deserialize
<1> QED
  BY <1>1, <1>5, Zenon DEF ReadAt

\* A sequence is the part of it that has all its elements.
LEMMA WholeIs ==
  ASSUME NEW S, NEW a \in Seq(S)
  PROVE  SubSeq(a, 1, Len(a)) = a
OBVIOUS

\* What is in the log, and in a part of it that has the first i entries.
LEMMA ContentsAre ==
  ASSUME WalInv, NEW i \in 0 .. Len(written), \A j \in torn : i <= j,
         NEW d \in Data, EndOf(i) <= Len(d), Len(d) <= Len(Log),
         \A j \in 1 .. Len(d) : d[j] = Log[j]
  PROVE  /\ IsPrefix(SubSeq(written, 1, i), Contents(d))
         /\ ReadAt(d, EndOf(i)) = NoEntry => Contents(d) = SubSeq(written, 1, i)
<1>1. Placed(Log, header, written, ends, torn)
  BY DEF WalInv, Layout
<1>2. EndOf(i) = Ending(header, ends, i)
  BY Zenon DEF EndOf, Ending
<1>3. Ending(header, ends, i) <= Len(d)
  BY <1>2, Zenon
<1>4. Contents(d) = Decoded(SubSeq(d, header + 1, Len(d)))
  BY Zenon DEF Contents
<1> QED
  BY <1>1, <1>2, <1>3, <1>4, PlacedRead

\* A log can be read: one entry after the other as it was written, and up to the
\* part that a crash left when there is one (wal.cpp:63-116).
THEOREM LogIsReadable == Spec => []LogDecodes
<1>1. WalInv => LogDecodes
  <2> SUFFICES ASSUME WalInv PROVE LogDecodes
    OBVIOUS
  <2>1. Placed(Log, header, written, ends, torn)
    BY DEF WalInv, Layout
  <2>2. Log \in Data /\ Len(Log) \in Nat /\ Len(written) \in Nat
    BY <2>1, LogIs, EndingIsNat, Zenon
  <2>3. Len(Log) <= Len(Log)
    BY <2>2
  <2>4. ASSUME torn = {} PROVE Contents(Log) = written
    <3>1. Len(written) \in 0 .. Len(written)
      BY <2>2
    <3>2. EndOf(Len(written)) = Len(Log)
      <4>1. Ending(header, ends, Len(written)) = Len(Log)
        BY <2>1, <2>4, Zenon DEF Placed
      <4> QED
        BY <4>1, Zenon DEF EndOf, Ending
    <3>3. ReadAt(Log, EndOf(Len(written))) = NoEntry
      BY <2>2, <3>2, NothingAtTheEnd
    <3>4. \A j \in torn : Len(written) <= j
      BY <2>4, Zenon
    <3>5. EndOf(Len(written)) <= Len(Log)
      BY <2>3, <3>2, Zenon
    <3>6. Contents(Log) = SubSeq(written, 1, Len(written))
      BY <2>2, <2>3, <3>1, <3>3, <3>4, <3>5, ContentsAre
    <3>7. written \in Seq(Entries)
      BY <2>1, Zenon DEF Placed
    <3> QED
      BY <3>6, <3>7, WholeIs
  <2>5. ASSUME NEW i \in torn, \A j \in torn : i <= j
        PROVE  IsPrefix(SubSeq(written, 1, i), Contents(Log))
    <3>1. i \in 0 .. Len(written)
      BY <2>1, Zenon DEF Placed
    <3>2. EndOf(i) <= Len(Log)
      <4>1. Ending(header, ends, i) <= Len(Log)
        BY <2>1, <3>1, EndingIsNat
      <4> QED
        BY <4>1, Zenon DEF EndOf, Ending
    <3> QED
      BY <2>2, <2>3, <2>5, <3>1, <3>2, ContentsAre
  <2> QED
    BY <2>4, <2>5, Zenon DEF LogDecodes
<1> QED
  BY <1>1, WalInvHolds, PTL

\* What a commit has flushed can be read from the file ever after, whatever a
\* crash takes from the buffer (wal.cpp:141-144).
THEOREM CommitsAreKept == Spec => []CommitsSurvive
<1>1. WalInv => CommitsSurvive
  <2> SUFFICES ASSUME WalInv, NEW i \in committed, \A j \in torn : i <= j
               PROVE  IsPrefix(SubSeq(written, 1, i), Contents(file))
    BY Zenon DEF CommitsSurvive
  <2>1. /\ file \in Data /\ Len(file) \in Nat /\ Len(buffer) \in Nat
        /\ Len(Log) = Len(file) + Len(buffer) /\ \A j \in 1 .. Len(file) : Log[j] = file[j]
    BY LogIs, Zenon
  <2>2. Len(file) <= Len(Log)
    BY <2>1
  <2>3. i \in 1 .. Len(written) /\ ends[i] <= Len(file)
    BY DEF WalInv, CommitsFlushed
  <2>4. i \in 0 .. Len(written) /\ i # 0
    BY <2>3
  <2>5. EndOf(i) <= Len(file)
    BY <2>3, <2>4, Zenon DEF EndOf
  <2>6. \A j \in 1 .. Len(file) : file[j] = Log[j]
    BY <2>1, Zenon
  <2> QED
    BY <2>1, <2>2, <2>4, <2>5, <2>6, ContentsAre
<1> QED
  BY <1>1, WalInvHolds, PTL

\* Only a crash leaves a part of an entry.
LEMMA OnlyCrashTears == [Next]_vars /\ torn = {} /\ torn' # {} => Crash
<1> SUFFICES ASSUME [Next]_vars, torn = {}, torn' # {} PROVE Crash
  OBVIOUS
<1>1. /\ \A e : WriteLogEntry(e) => torn' = torn
      /\ Flush => torn' = torn
      /\ ReplayLog => torn' = torn
      /\ TruncateLog => torn' = {}
      /\ Close => torn' = torn
      /\ UNCHANGED vars => torn' = torn
  BY DEF WriteLogEntry, Flush, ReplayLog, TruncateLog, Close, vars
<1>2. LogBeginTxn => torn' = torn
  BY <1>1, Zenon DEF LogBeginTxn
<1>3. \A t, k, v : LogPutRecord(t, k, v) => torn' = torn
  BY <1>1, Zenon DEF LogPutRecord, LogOperation
<1>4. \A t, k : LogDeleteRecord(t, k) => torn' = torn
  BY <1>1, Zenon DEF LogDeleteRecord, LogOperation
<1>5. \A t : LogCommitTxn(t) \/ LogAbortTxn(t) => torn' = torn
  BY <1>1, Zenon DEF LogCommitTxn, LogAbortTxn
<1> QED
  BY <1>1, <1>2, <1>3, <1>4, <1>5, Zenon DEF Next

\* A crash that cuts a log that was whole leaves less than an entry after those
\* it keeps.
LEMMA CutLeavesNoEntry ==
  ASSUME WalInv, torn = {}, NEW kept \in 0 .. Len(written), NEW c \in Nat, c # 0,
         CrashAt(kept, c), NEW d, d = file'
  PROVE  ReadAt(d, EndOf(kept)) = NoEntry
<1>1. /\ d = SubSeq(Log, 1, EndOf(kept) + c) /\ d \in Data /\ Len(d) = EndOf(kept) + c
      /\ EndOf(kept) + c <= Len(Log)
      /\ EndOf(kept) \in Nat /\ EndOf(kept) = Ending(header, ends, kept)
  BY CrashCuts, Zenon
<1>2. Placed(Log, header, written, ends, torn)
  BY DEF WalInv, Layout
<1>3. PICK o, n, l : o = EndOf(kept) /\ n = Len(written) /\ l = Len(Log)
  OBVIOUS
<1>4. o \in Nat /\ n \in Nat /\ l \in Nat /\ o + c <= l /\ kept \in 0 .. n
  <2>1. n \in Nat /\ l \in Nat
    BY <1>2, <1>3, EndingIsNat
  <2>2. o \in Nat /\ o + c <= l
    BY <1>1, <1>3, Zenon
  <2> QED
    BY <1>3, <2>1, <2>2
<1>5. kept < n
  <2> SUFFICES ASSUME ~(kept < n) PROVE FALSE
    OBVIOUS
  <2>1. kept = n
    BY <1>4
  <2>2. o = l
    BY <1>1, <1>2, <1>3, <2>1, Zenon DEF Placed
  <2> QED
    BY <1>4, <2>2
<1>6. PICK i, e, z : i = kept + 1 /\ e = written[i] /\ z = Size(e)
  OBVIOUS
<1>7. i \in 1 .. n /\ i - 1 = kept /\ i # 0
  BY <1>4, <1>5, <1>6
<1>8. e \in Entries
  <2>1. written \in Seq(Entries)
    BY <1>2, Zenon DEF Placed
  <2> QED
    BY <1>3, <1>6, <1>7, <2>1
<1>9. z \in Nat
  BY <1>6, <1>8, LengthsOf
<1>10. /\ o + z = ends[i]
       /\ \A j \in 1 .. z : Log[ends[i] - z + j] = Serialize(e)[j]
  <2>1. i - 1 \notin torn
    BY Zenon
  <2>2. /\ i - 1 \notin torn => Ending(header, ends, i - 1) + Size(written[i]) = ends[i]
        /\ \A j \in 1 .. Size(written[i]) :
             Log[ends[i] - Size(written[i]) + j] = Serialize(written[i])[j]
    BY <1>2, <1>3, <1>7, Zenon DEF Placed
  <2>3. Ending(header, ends, i - 1) = o
    BY <1>1, <1>3, <1>7, Zenon
  <2> QED
    BY <1>6, <2>1, <2>2, <2>3, Zenon
<1>11. c < z
  <2>1. o + c < EndOf(kept + 1)
    BY <1>3, <1>5, Zenon DEF CrashAt
  <2>2. EndOf(kept + 1) = ends[i]
    BY <1>6, <1>7, Zenon DEF EndOf
  <2>3. o + c < o + z
    BY <1>10, <2>1, <2>2, Zenon
  <2> QED
    BY <1>4, <1>9, <2>3
<1>12. \A j \in 1 .. z : Log[o + j] = Serialize(e)[j]
  <2> SUFFICES ASSUME NEW j \in 1 .. z PROVE Log[o + j] = Serialize(e)[j]
    OBVIOUS
  <2>1. (o + z) - z + j = o + j
    BY <1>4, <1>9
  <2> QED
    BY <1>10, <2>1, Zenon
<1>13. \A j \in 1 .. o + c : d[j] = Log[j]
  <2>1. Log \in Data
    BY LogIs
  <2>2. o + c \in Nat
    BY <1>4
  <2>3. o + c <= Len(Log)
    BY <1>1, <1>3, Zenon
  <2> QED
    BY <1>1, <1>3, <2>1, <2>2, <2>3, FirstPartIs DEF Data
<1>14. PICK r : r = SubSeq(d, o + 1, o + c)
  OBVIOUS
<1>15. r \in Data /\ Len(r) = c /\ \A j \in 1 .. c : r[j] = d[o + j]
  <2>1. Len(d) = o + c
    BY <1>1, <1>3, Zenon
  <2>2. o <= o + c /\ o + c <= o + c /\ o + c \in Nat /\ (o + c) - o = c
    BY <1>4
  <2>3. o <= o + c /\ o + c <= Len(d) /\ o + c \in Nat /\ (o + c) - o = c
    BY <2>1, <2>2, Zenon
  <2>4. IsPart(Bytes, d, o, o + c, r)
    BY <1>1, <1>4, <1>14, <2>3, PartIs DEF Data
  <2> QED
    BY <2>3, <2>4, Zenon DEF IsPart, Data
<1>16. \A j \in 1 .. Len(r) : r[j] = Serialize(e)[j]
  <2> SUFFICES ASSUME NEW j \in 1 .. c PROVE r[j] = Serialize(e)[j]
    BY <1>15, Zenon
  <2>1. o + j \in 1 .. o + c /\ j \in 1 .. z
    BY <1>4, <1>9, <1>11
  <2> QED
    BY <1>12, <1>13, <1>15, <2>1, Zenon
<1>17. Deserialize(r) = NoEntry
  BY <1>6, <1>8, <1>11, <1>15, <1>16, DeserializePart, Zenon
<1> QED
  BY <1>1, <1>3, <1>14, <1>17, Zenon DEF ReadAt

\* A part of an entry that a crash left is not taken for one, wherever the crash
\* cut a log that was whole (wal.cpp:86-116).
THEOREM PartsAreNoEntries == Spec => CutIsNoEntry
<1>1. WalInv /\ [Next]_vars /\ torn = {} /\ torn' # {} => Contents(file') = written'
  <2> SUFFICES ASSUME WalInv, torn = {}, torn' # {},
                      NEW kept \in 0 .. Len(written), NEW c \in Nat, CrashAt(kept, c)
               PROVE  Contents(file') = written'
    BY OnlyCrashTears, CrashIsAt, Zenon
  <2>1. c # 0
    BY DEF CrashAt
  <2>2. PICK d : d = file'
    OBVIOUS
  <2>3. /\ d = SubSeq(Log, 1, EndOf(kept) + c) /\ d \in Data /\ Len(d) = EndOf(kept) + c
        /\ EndOf(kept) + c <= Len(Log) /\ EndOf(kept) \in Nat
    BY <2>2, CrashCuts, Zenon
  <2>4. ReadAt(d, EndOf(kept)) = NoEntry
    BY <2>1, <2>2, CutLeavesNoEntry
  <2>5. \A j \in 1 .. Len(d) : d[j] = Log[j]
    <3>1. Log \in Data
      BY LogIs
    <3>2. EndOf(kept) + c \in Nat
      BY <2>3
    <3> QED
      BY <2>3, <3>1, <3>2, FirstPartIs DEF Data
  <2>6. EndOf(kept) <= Len(d)
    BY <2>3
  <2>7. Contents(d) = SubSeq(written, 1, kept)
    <3>1. \A j \in torn : kept <= j
      BY Zenon
    <3>2. Len(d) <= Len(Log)
      BY <2>3, Zenon
    <3> QED
      BY <2>3, <2>4, <2>5, <2>6, <3>1, <3>2, ContentsAre
  <2>8. written' = SubSeq(written, 1, kept)
    BY DEF CrashAt
  <2> QED
    BY <2>2, <2>7, <2>8, Zenon
<1>2. WalInv /\ [Next]_vars => [torn = {} /\ torn' # {} => Contents(file') = written']_vars
  BY <1>1
<1> QED
  BY <1>2, WalInvHolds, PTL DEF Spec, CutIsNoEntry

================================================================================
