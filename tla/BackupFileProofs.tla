--------------------------- MODULE BackupFileProofs ----------------------------
(****************************************************************************)
(* Whatever values a backup holds, restore reads keys and values from it    *)
(* and never takes a part of a value for a key (RestoreReadsRecords): what  *)
(* is behind a "key" is a key, and a value ends where its record ends at    *)
(* the latest.                                                              *)
(*                                                                          *)
(* Texts are of any length.  That the recursive functions of the parser     *)
(* exist, and what they compute, is by induction on the place in the text   *)
(* from its end.                                                            *)
(****************************************************************************)
EXTENDS BackupFile, SequenceInduction

------------------------------------------------------------------------------
(* Past and Find *)

\* They skip the places in S.
Skips(f, n, S) == f = [j \in 1 .. n + 1 |-> IF j <= n /\ j \in S THEN f[j + 1] ELSE j]

\* Where the end of a run of characters is can be said of every place of a text.
LEMMA SkipExists == ASSUME NEW n \in Nat, NEW S PROVE \E f : Skips(f, n, S)
<1> DEFINE Body(f, j) == IF j <= n /\ j \in S THEN f[j + 1] ELSE j
<1> DEFINE G == {i \in 1 .. n + 1 : \E f : f = [j \in i .. n + 1 |-> Body(f, j)]}
<1>1. ASSUME NEW i \in 1 .. n + 1, \A j \in i + 1 .. n + 1 : j \in G PROVE i \in G
  <2>1. CASE i = n + 1
    <3> DEFINE g == [j \in i .. n + 1 |-> j]
    <3>1. \A j \in i .. n + 1 : Body(g, j) = j
      BY <2>1
    <3>2. g = [j \in i .. n + 1 |-> Body(g, j)]
      BY <3>1
    <3> QED
      BY <3>2
  <2>2. CASE i # n + 1
    <3>1. i + 1 \in i + 1 .. n + 1
      BY <2>2
    <3>2. PICK f : f = [j \in i + 1 .. n + 1 |-> Body(f, j)]
      BY <1>1, <3>1
    <3> DEFINE new == Body(f, i)
    <3> DEFINE g == [j \in i .. n + 1 |-> IF j = i THEN new ELSE f[j]]
    <3>3. \A j \in i + 1 .. n + 1 : f[j] = Body(f, j)
      BY <3>2
    <3> HIDE DEF new
    <3>4. g[i] = new /\ \A j \in i + 1 .. n + 1 : g[j] = f[j]
      OBVIOUS
    <3> HIDE DEF g
    <3>5. \A j \in i .. n + 1 : Body(g, j) = Body(f, j)
      <4> SUFFICES ASSUME NEW j \in i .. n + 1, j <= n PROVE g[j + 1] = f[j + 1]
        OBVIOUS
      <4>1. j + 1 \in i + 1 .. n + 1
        OBVIOUS
      <4> QED
        BY <3>4, <4>1
    <3>6. \A j \in i .. n + 1 : (IF j = i THEN new ELSE f[j]) = Body(g, j)
      BY <3>3, <3>5 DEF new
    <3> HIDE DEF Body
    <3>7. g = [j \in i .. n + 1 |-> Body(g, j)]
      BY <3>6 DEF g
    <3> QED
      BY <3>7
  <2> QED
    BY <2>1, <2>2
<1>2. 1 \in G
  <2> HIDE DEF G
  <2>1. 1 .. n + 1 \subseteq G
    BY <1>1, DownInduction
  <2> QED
    BY <2>1
<1> QED
  BY <1>2 DEF Skips

\* Where they get to.
LEMMA SkipStops ==
  ASSUME NEW n \in Nat, NEW S, NEW f, Skips(f, n, S), NEW i \in 1 .. n + 1
  PROVE  /\ f[i] \in i .. n + 1 /\ (f[i] <= n => f[i] \notin S)
         /\ \A m \in i .. f[i] - 1 : m \in S
<1> DEFINE Right(j) == /\ f[j] \in j .. n + 1 /\ (f[j] <= n => f[j] \notin S)
                       /\ \A m \in j .. f[j] - 1 : m \in S
<1> DEFINE G == {j \in 1 .. n + 1 : Right(j)}
<1>1. \A j \in 1 .. n + 1 : f[j] = IF j <= n /\ j \in S THEN f[j + 1] ELSE j
  BY DEF Skips
<1>2. ASSUME NEW j \in 1 .. n + 1, \A m \in j + 1 .. n + 1 : m \in G PROVE j \in G
  <2>1. CASE j <= n /\ j \in S
    <3>1. j + 1 \in j + 1 .. n + 1
      BY <2>1
    <3>2. Right(j + 1) /\ f[j] = f[j + 1]
      BY <1>1, <1>2, <2>1, <3>1
    <3> QED
      BY <2>1, <3>2
  <2>2. CASE ~ (j <= n /\ j \in S)
    <3>1. f[j] = j
      BY <1>1, <2>2
    <3> QED
      BY <2>2, <3>1
  <2> QED
    BY <2>1, <2>2
<1>3. i \in G
  <2> HIDE DEF G
  <2>1. 1 .. n + 1 \subseteq G
    BY <1>2, DownInduction
  <2> QED
    BY <2>1
<1> QED
  BY <1>3

\* Past stops at the first place that has no character to be skipped.
LEMMA PastStops ==
  ASSUME NEW text, Len(text) \in Nat, NEW chars, NEW i \in 1 .. Len(text) + 1
  PROVE  LET at == Past(text, i, chars)
         IN  /\ at \in i .. Len(text) + 1 /\ (at <= Len(text) => text[at] \notin chars)
             /\ \A m \in i .. at - 1 : text[m] \in chars
<1> DEFINE n == Len(text)
<1> DEFINE S == {j \in 1 .. n : text[j] \in chars}
<1> DEFINE Fn(f) == f = [j \in 1 .. n + 1 |-> IF j <= n /\ text[j] \in chars THEN f[j + 1] ELSE j]
<1>1. ASSUME NEW f PROVE Fn(f) <=> Skips(f, n, S)
  <2>1. \A j \in 1 .. n + 1 : (j <= n /\ text[j] \in chars) <=> (j <= n /\ j \in S)
    OBVIOUS
  <2> HIDE DEF S
  <2>2. [j \in 1 .. n + 1 |-> IF j <= n /\ text[j] \in chars THEN f[j + 1] ELSE j]
          = [j \in 1 .. n + 1 |-> IF j <= n /\ j \in S THEN f[j + 1] ELSE j]
    BY <2>1
  <2> QED
    BY <2>2 DEF Skips
<1> DEFINE from == CHOOSE f : Fn(f)
<1>2. Past(text, i, chars) = from[i]
  BY DEF Past
<1> HIDE DEF Fn
<1>3. Fn(from)
  BY <1>1, SkipExists
<1> HIDE DEF from
<1>4. Skips(from, n, S)
  BY <1>1, <1>3
<1>5. /\ from[i] \in i .. n + 1 /\ (from[i] <= n => from[i] \notin S)
      /\ \A m \in i .. from[i] - 1 : m \in S
  <2> HIDE DEF S
  <2> QED
    BY <1>4, SkipStops
<1> QED
  BY <1>2, <1>5

\* Find stops at the first place that has the word.
LEMMA FindStops ==
  ASSUME NEW text, Len(text) \in Nat, NEW char, NEW i \in 1 .. Len(text) + 1
  PROVE  LET at == Find(text, i, char)
         IN  at \in i .. Len(text) + 1 /\ (at <= Len(text) => text[at] = char)
<1> DEFINE n == Len(text)
<1> DEFINE S == {j \in 1 .. n : text[j] # char}
<1> DEFINE Fn(f) == f = [j \in 1 .. n + 1 |-> IF j <= n /\ text[j] # char THEN f[j + 1] ELSE j]
<1>1. ASSUME NEW f PROVE Fn(f) <=> Skips(f, n, S)
  <2>1. \A j \in 1 .. n + 1 : (j <= n /\ text[j] # char) <=> (j <= n /\ j \in S)
    OBVIOUS
  <2> HIDE DEF S
  <2>2. [j \in 1 .. n + 1 |-> IF j <= n /\ text[j] # char THEN f[j + 1] ELSE j]
          = [j \in 1 .. n + 1 |-> IF j <= n /\ j \in S THEN f[j + 1] ELSE j]
    BY <2>1
  <2> QED
    BY <2>2 DEF Skips
<1> DEFINE from == CHOOSE f : Fn(f)
<1>2. Find(text, i, char) = from[i]
  BY DEF Find
<1> HIDE DEF Fn
<1>3. Fn(from)
  BY <1>1, SkipExists
<1> HIDE DEF from
<1>4. Skips(from, n, S)
  BY <1>1, <1>3
<1>5. from[i] \in i .. n + 1 /\ (from[i] <= n => from[i] \notin S)
  <2> HIDE DEF S
  <2> QED
    BY <1>4, SkipStops
<1> QED
  BY <1>2, <1>5

------------------------------------------------------------------------------
(* ValueFrom *)

\* A value ends here.
Closes(text, j) == j <= Len(text) /\ text[j] \in Closers

\* Two characters that stand for one.
Escaped(text, j) ==
  text[j] = Backslash /\ j < Len(text) /\ text[j + 1] \in DOMAIN Unescaped

\* A value that has one more character.
Adding(c, rest) == [rest EXCEPT !.value = <<c>> \o @]

\* The value from place j on, when f has those from the later places on.
ValueBody(text, f, j) ==
  IF j > Len(text) \/ Closes(text, j) THEN [value |-> <<>>, at |-> j]
  ELSE IF Escaped(text, j) THEN Adding(Unescaped[text[j + 1]], f[j + 2])
  ELSE IF text[j] # Quote THEN Adding(text[j], f[j + 1])
  ELSE IF Closes(text, Past(text, j + 1, Blanks))
       THEN [value |-> <<>>, at |-> Past(text, j + 1, Blanks)]
       ELSE Adding(text[j], f[Past(text, j + 1, Blanks)])

\* f says of every place which value is read from there on.
Reads(text, f) == f = [j \in 1 .. Len(text) + 1 |-> ValueBody(text, f, j)]

\* ValueFrom is the value of such a function.
LEMMA ValueFromReads ==
  ASSUME NEW text, NEW i
  PROVE  ValueFrom(text, i) = (CHOOSE f : Reads(text, f))[i]
BY DEF ValueFrom, Reads, ValueBody, Adding, Closes, Escaped

\* The body looks at later places only.
LEMMA ValueBodyLater ==
  ASSUME NEW text, Len(text) \in Nat, NEW f, NEW g, NEW j \in 1 .. Len(text) + 1,
         \A m \in j + 1 .. Len(text) + 1 : f[m] = g[m]
  PROVE  ValueBody(text, f, j) = ValueBody(text, g, j)
<1>1. CASE j > Len(text) \/ Closes(text, j)
  BY <1>1 DEF ValueBody
<1>2. CASE ~ (j > Len(text) \/ Closes(text, j))
  <2>1. Escaped(text, j) => f[j + 2] = g[j + 2]
    BY <1>2 DEF Escaped
  <2>2. f[j + 1] = g[j + 1]
    BY <1>2
  <2>3. f[Past(text, j + 1, Blanks)] = g[Past(text, j + 1, Blanks)]
    <3>1. j + 1 \in 1 .. Len(text) + 1
      BY <1>2
    <3> QED
      BY <3>1, PastStops
  <2> QED
    BY <1>2, <2>1, <2>2, <2>3 DEF ValueBody
<1> QED
  BY <1>1, <1>2

\* There is such a function: it is defined from the end of the text backwards.
LEMMA ReadsExists == ASSUME NEW text, Len(text) \in Nat PROVE \E f : Reads(text, f)
<1> DEFINE n == Len(text)
<1> DEFINE G == {i \in 1 .. n + 1 : \E f : f = [j \in i .. n + 1 |-> ValueBody(text, f, j)]}
<1>1. ASSUME NEW i \in 1 .. n + 1, \A j \in i + 1 .. n + 1 : j \in G PROVE i \in G
  <2>1. PICK f : i # n + 1 => f = [j \in i + 1 .. n + 1 |-> ValueBody(text, f, j)]
    <3>1. i # n + 1 => i + 1 \in i + 1 .. n + 1
      OBVIOUS
    <3> QED
      BY <1>1, <3>1
  <2> DEFINE new == ValueBody(text, f, i)
  <2> DEFINE g == [j \in i .. n + 1 |-> IF j = i THEN new ELSE f[j]]
  <2>2. \A j \in i + 1 .. n + 1 : f[j] = ValueBody(text, f, j)
    BY <2>1
  <2> HIDE DEF new
  <2>3. \A j \in i + 1 .. n + 1 : g[j] = f[j]
    OBVIOUS
  <2> HIDE DEF g
  <2>4. \A j \in i .. n + 1 : ValueBody(text, g, j) = ValueBody(text, f, j)
    <3> SUFFICES ASSUME NEW j \in i .. n + 1
                 PROVE  ValueBody(text, g, j) = ValueBody(text, f, j)
      OBVIOUS
    <3>1. j \in 1 .. n + 1 /\ \A m \in j + 1 .. n + 1 : g[m] = f[m]
      BY <2>3
    <3> QED
      BY <3>1, ValueBodyLater
  <2>5. \A j \in i .. n + 1 : (IF j = i THEN new ELSE f[j]) = ValueBody(text, g, j)
    BY <2>2, <2>4 DEF new
  <2>6. g = [j \in i .. n + 1 |-> ValueBody(text, g, j)]
    BY <2>5 DEF g
  <2> QED
    BY <2>6
<1>2. 1 \in G
  <2> HIDE DEF G
  <2>1. 1 .. n + 1 \subseteq G
    BY <1>1, DownInduction
  <2> QED
    BY <2>1
<1> QED
  BY <1>2 DEF Reads

\* The characters behind a backslash, and what is skipped, close nothing.
LEMMA NotClosers == DOMAIN Unescaped \cap Closers = {} /\ Blanks \cap Closers = {}
<1>1. \A c \in Closers : c # Quote /\ c # Backslash
  <2>1. \A c \in Closers : c = "," \/ c = "}" \/ c = "]"
    BY DEF Closers
  <2>2. Quote # "," /\ Quote # "}" /\ Quote # "]"
    BY Zenon DEF Quote
  <2>3. Backslash # "," /\ Backslash # "}" /\ Backslash # "]"
    BY Zenon DEF Backslash
  <2> QED
    BY <2>1, <2>2, <2>3
<1>2. \A c \in Closers : c # "n" /\ c # "t" /\ c # "r" /\ c \notin Blanks
  BY DEF Closers, Blanks, NewLine, Tab, CarriageReturn
<1>3. DOMAIN Unescaped = {Quote, Backslash, "n", "t", "r"}
  BY DEF Unescaped
<1> QED
  BY <1>1, <1>2, <1>3

\* What the parser makes of an escape is a character.
LEMMA UnescapedCharacters ==
  \A c \in DOMAIN Unescaped : Unescaped[c] \in Characters
<1>1. {NewLine, Tab, CarriageReturn, Quote, Backslash} \subseteq Characters
  BY BackupFileAssumption DEF Blanks
<1>2. DOMAIN Unescaped = {Quote, Backslash, "n", "t", "r"}
  BY DEF Unescaped
<1>3. \A c \in DOMAIN Unescaped :
        Unescaped[c] = CASE c = "n" -> NewLine [] c = "t" -> Tab [] c = "r" -> CarriageReturn
                         [] OTHER -> c
  BY DEF Unescaped
<1> SUFFICES ASSUME NEW c \in DOMAIN Unescaped PROVE Unescaped[c] \in Characters
  OBVIOUS
<1>4. CASE c \in {"n", "t", "r"}
  BY <1>1, <1>3, <1>4
<1>5. CASE c \notin {"n", "t", "r"}
  <2>1. Unescaped[c] = c
    BY <1>3, <1>5
  <2> QED
    BY <1>1, <1>2, <1>5, <2>1
<1> QED
  BY <1>4, <1>5

\* A value is made of the characters up to the first closer, and is read from
\* there on.
LEMMA ValueRead ==
  ASSUME NEW W, Characters \subseteq W, NEW text \in Seq(W), NEW i \in 1 .. Len(text) + 1
  PROVE  LET read == ValueFrom(text, i)
         IN  /\ read.at \in i .. Len(text) + 1
             /\ (\E c \in i .. Len(text) : /\ text[c] \in Closers
                                           /\ \A q \in i .. c : text[q] \in Characters)
                => read.value \in Seq(Characters)
<1> DEFINE n == Len(text)
<1>0. n \in Nat /\ \A j \in 1 .. n : text[j] \in W
  OBVIOUS
<1> DEFINE f == CHOOSE g : Reads(text, g)
<1>1. Reads(text, f) /\ ValueFrom(text, i) = f[i]
  BY <1>0, ReadsExists, ValueFromReads
<1> HIDE DEF f
<1>2. \A j \in 1 .. n + 1 : f[j] = ValueBody(text, f, j)
  BY <1>1 DEF Reads
<1> DEFINE Inside(j) == \E c \in j .. n : /\ text[c] \in Closers
                                          /\ \A q \in j .. c : text[q] \in Characters
<1> DEFINE Right(j) == /\ f[j] \in [value : Seq(W), at : j .. n + 1]
                       /\ Inside(j) => f[j].value \in Seq(Characters)
<1> DEFINE G == {j \in 1 .. n + 1 : Right(j)}
<1>3. ASSUME NEW c, NEW j \in 1 .. n + 1, NEW m \in j + 1 .. n + 1, m \in G,
             c \in W, Inside(j) => c \in Characters /\ Inside(m),
             f[j] = Adding(c, f[m])
      PROVE  Right(j)
  <2>1. f[m] \in [value : Seq(W), at : m .. n + 1]
    BY <1>3
  <2>2. f[j] = [value |-> <<c>> \o f[m].value, at |-> f[m].at]
    BY <1>3, <2>1 DEF Adding
  <2>3. f[j] \in [value : Seq(W), at : j .. n + 1]
    <3>1. <<c>> \o f[m].value \in Seq(W) /\ f[m].at \in j .. n + 1
      BY <1>3, <2>1
    <3> QED
      BY <2>2, <3>1
  <2>4. ASSUME Inside(j) PROVE f[j].value \in Seq(Characters)
    <3>1. c \in Characters /\ f[m].value \in Seq(Characters)
      BY <1>3, <2>4
    <3>2. <<c>> \o f[m].value \in Seq(Characters)
      BY <3>1
    <3> QED
      BY <2>2, <3>2
  <2> QED
    BY <2>3, <2>4
<1>4. ASSUME NEW j \in 1 .. n + 1, \A m \in j + 1 .. n + 1 : m \in G PROVE j \in G
  <2> DEFINE behind == Past(text, j + 1, Blanks)
  <2>0. f[j] = ValueBody(text, f, j)
    BY <1>2
  <2>e. \A m \in j .. n + 1 : f[j] = [value |-> <<>>, at |-> m] => Right(j)
    <3> SUFFICES ASSUME NEW m \in j .. n + 1, f[j] = [value |-> <<>>, at |-> m]
                 PROVE  Right(j)
      OBVIOUS
    <3>1. <<>> \in Seq(W) /\ <<>> \in Seq(Characters)
      OBVIOUS
    <3> QED
      BY <3>1
  <2>1. CASE j > n \/ Closes(text, j)
    <3>1. f[j] = [value |-> <<>>, at |-> j]
      BY <2>0, <2>1 DEF ValueBody
    <3> HIDE DEF Right
    <3>2. j \in j .. n + 1
      OBVIOUS
    <3>3. Right(j)
      BY <2>e, <3>1, <3>2
    <3> QED
      BY <3>3
  <2>2. CASE ~ (j > n \/ Closes(text, j)) /\ Escaped(text, j)
    <3>1. j + 2 \in j + 1 .. n + 1 /\ Unescaped[text[j + 1]] \in Characters
      BY <2>2, UnescapedCharacters DEF Escaped
    <3>2. f[j] = Adding(Unescaped[text[j + 1]], f[j + 2])
      BY <2>0, <2>2 DEF ValueBody
    <3>3. Inside(j) => Inside(j + 2)
      <4> SUFFICES ASSUME NEW c \in j .. n, text[c] \in Closers,
                          \A q \in j .. c : text[q] \in Characters
                   PROVE  Inside(j + 2)
        OBVIOUS
      <4>1. c # j
        BY <2>2 DEF Closes
      <4>2. c # j + 1
        <5>1. DOMAIN Unescaped \cap Closers = {}
          BY NotClosers
        <5> QED
          BY <2>2, <5>1 DEF Escaped
      <4> QED
        BY <4>1, <4>2
    <3> QED
      BY <1>3, <1>4, <3>1, <3>2, <3>3
  <2>3. CASE ~ (j > n \/ Closes(text, j)) /\ ~Escaped(text, j) /\ text[j] # Quote
    <3>1. f[j] = Adding(text[j], f[j + 1])
      BY <2>0, <2>3 DEF ValueBody
    <3>2. j + 1 \in j + 1 .. n + 1 /\ text[j] \in W
      BY <1>0, <2>3
    <3>3. Inside(j) => text[j] \in Characters /\ Inside(j + 1)
      <4> SUFFICES ASSUME NEW c \in j .. n, text[c] \in Closers,
                          \A q \in j .. c : text[q] \in Characters
                   PROVE  text[j] \in Characters /\ Inside(j + 1)
        OBVIOUS
      <4>1. c # j
        BY <2>3 DEF Closes
      <4> QED
        BY <4>1
    <3> QED
      BY <1>3, <1>4, <3>1, <3>2, <3>3
  <2>4. CASE ~ (j > n \/ Closes(text, j)) /\ ~Escaped(text, j) /\ text[j] = Quote
    <3>0. j + 1 \in 1 .. n + 1
      BY <1>0, <2>4
    <3>1. /\ behind \in j + 1 .. n + 1
          /\ \A m \in j + 1 .. behind - 1 : text[m] \in Blanks
      BY <1>0, <3>0, PastStops
    <3>2. CASE Closes(text, behind)
      <4>1. f[j] = [value |-> <<>>, at |-> behind]
        BY <2>0, <2>4, <3>2 DEF ValueBody
      <4> HIDE DEF Right, behind
      <4>2. behind \in j .. n + 1
        BY <1>0, <3>1
      <4>3. Right(j)
        BY <2>e, <4>1, <4>2
      <4> QED
        BY <4>3
    <3>3. CASE ~Closes(text, behind)
      <4>1. f[j] = Adding(text[j], f[behind])
        BY <2>0, <2>4, <3>3 DEF ValueBody
      <4>2. Inside(j) => Inside(behind)
        <5> SUFFICES ASSUME NEW c \in j .. n, text[c] \in Closers,
                            \A q \in j .. c : text[q] \in Characters
                     PROVE  Inside(behind)
          OBVIOUS
        <5>1. c # j
          BY <2>4 DEF Closes
        <5>2. c \notin j + 1 .. behind - 1
          BY <3>1, NotClosers
        <5> QED
          BY <3>1, <5>1, <5>2
      <4>3. text[j] \in Characters
        BY <2>4, BackupFileAssumption
      <4> QED
        BY <1>3, <1>4, <3>1, <4>1, <4>2, <4>3
    <3> QED
      BY <3>2, <3>3
  <2> QED
    BY <2>1, <2>2, <2>3, <2>4
<1>5. i \in G
  <2> HIDE DEF G
  <2>1. 1 .. n + 1 \subseteq G
    BY <1>0, <1>4, DownInduction
  <2> QED
    BY <2>1
<1> QED
  BY <1>1, <1>5

------------------------------------------------------------------------------
(* What backup writes *)

\* Names for characters that the provers cannot read.
Space       == " "
OpenBrace   == "{"
OpenBracket == "["

\* What the characters of a backup are.
Written(K) == Characters \cup Names \cup K \cup {OpenBrace, OpenBracket}

\* Behind a "key" is a key, and behind a "value" are characters up to a closer.
Laid(K, text) ==
  /\ \A p \in 1 .. Len(text) : text[p] = "key" =>
       /\ p + 3 <= Len(text)
       /\ text[p + 1] = Space /\ text[p + 2] = Quote /\ text[p + 3] \in K
  /\ \A p \in 1 .. Len(text) : text[p] = "value" =>
       \E c \in p + 1 .. Len(text) : /\ text[c] \in Closers
                                     /\ \A q \in p + 1 .. c : text[q] \in Characters

\* The texts of which that is true.
LaidTexts(K) == {text \in Seq(Written(K)) : Laid(K, text)}

\* Two of them make another.
LEMMA LaidJoined ==
  ASSUME NEW K, NEW a \in LaidTexts(K), NEW b \in LaidTexts(K)
  PROVE  a \o b \in LaidTexts(K)
<1> DEFINE t == a \o b
<1>1. /\ a \in Seq(Written(K)) /\ b \in Seq(Written(K)) /\ t \in Seq(Written(K))
      /\ Laid(K, a) /\ Laid(K, b)
  BY DEF LaidTexts
<1>2. /\ Len(a) \in Nat /\ Len(b) \in Nat /\ Len(t) = Len(a) + Len(b)
      /\ \A p \in 1 .. Len(a) : t[p] = a[p]
      /\ \A p \in Len(a) + 1 .. Len(t) : p - Len(a) \in 1 .. Len(b) /\ t[p] = b[p - Len(a)]
      /\ \A p \in 1 .. Len(b) : t[Len(a) + p] = b[p]
  BY <1>1
<1> HIDE DEF t
<1>3. ASSUME NEW p \in 1 .. Len(t), t[p] = "key"
      PROVE  /\ p + 3 <= Len(t)
             /\ t[p + 1] = Space /\ t[p + 2] = Quote /\ t[p + 3] \in K
  <2>1. CASE p \in 1 .. Len(a)
    <3>1. p + 3 <= Len(a) /\ a[p + 1] = Space /\ a[p + 2] = Quote /\ a[p + 3] \in K
      BY <1>1, <1>2, <1>3, <2>1 DEF Laid
    <3> QED
      BY <1>2, <2>1, <3>1
  <2>2. CASE p \in Len(a) + 1 .. Len(t)
    <3> DEFINE m == p - Len(a)
    <3>1. m \in 1 .. Len(b) /\ b[m] = "key"
      BY <1>2, <1>3, <2>2
    <3> HIDE DEF m
    <3>2. m + 3 <= Len(b) /\ b[m + 1] = Space /\ b[m + 2] = Quote /\ b[m + 3] \in K
      BY <1>1, <3>1 DEF Laid
    <3>3. m + 1 \in 1 .. Len(b) /\ m + 2 \in 1 .. Len(b) /\ m + 3 \in 1 .. Len(b)
      BY <1>2, <3>1, <3>2
    <3>4. t[Len(a) + (m + 1)] = Space /\ t[Len(a) + (m + 2)] = Quote /\ t[Len(a) + (m + 3)] \in K
      BY <1>2, <3>2, <3>3
    <3>5. /\ Len(a) + (m + 1) = p + 1 /\ Len(a) + (m + 2) = p + 2 /\ Len(a) + (m + 3) = p + 3
          /\ p + 3 <= Len(t)
      BY <1>2, <3>2 DEF m
    <3> QED
      BY <3>4, <3>5
  <2> QED
    BY <1>2, <2>1, <2>2
<1>4. ASSUME NEW p \in 1 .. Len(t), t[p] = "value"
      PROVE  \E c \in p + 1 .. Len(t) : /\ t[c] \in Closers
                                        /\ \A q \in p + 1 .. c : t[q] \in Characters
  <2>1. CASE p \in 1 .. Len(a)
    <3>1. PICK c \in p + 1 .. Len(a) : /\ a[c] \in Closers
                                       /\ \A q \in p + 1 .. c : a[q] \in Characters
      BY <1>1, <1>2, <1>4, <2>1 DEF Laid
    <3>2. c \in p + 1 .. Len(t) /\ t[c] = a[c] /\ \A q \in p + 1 .. c : t[q] = a[q]
      BY <1>2, <2>1
    <3> QED
      BY <3>1, <3>2
  <2>2. CASE p \in Len(a) + 1 .. Len(t)
    <3> DEFINE m == p - Len(a)
    <3>1. m \in 1 .. Len(b) /\ b[m] = "value" /\ m + Len(a) = p
      BY <1>2, <1>4, <2>2
    <3> HIDE DEF m
    <3>2. PICK c \in m + 1 .. Len(b) : /\ b[c] \in Closers
                                       /\ \A q \in m + 1 .. c : b[q] \in Characters
      BY <1>1, <3>1 DEF Laid
    <3>3. Len(a) + c \in p + 1 .. Len(t) /\ t[Len(a) + c] = b[c]
      BY <1>2, <3>1
    <3>4. ASSUME NEW q \in p + 1 .. Len(a) + c PROVE t[q] \in Characters
      <4>1. q - Len(a) \in m + 1 .. c /\ q \in Len(a) + 1 .. Len(t)
        BY <1>2, <3>1
      <4> QED
        BY <1>2, <3>2, <4>1
    <3> QED
      BY <3>2, <3>3, <3>4
  <2> QED
    BY <1>2, <2>1, <2>2
<1>5. Laid(K, t)
  BY <1>3, <1>4 DEF Laid
<1> QED
  BY <1>1, <1>5 DEF LaidTexts, t

\* A text without names is laid out, whatever it is.
LEMMA NamelessLaid ==
  ASSUME NEW K, NEW text \in Seq(Written(K) \ Names)
  PROVE  text \in LaidTexts(K)
<1>1. Len(text) \in Nat /\ \A p \in 1 .. Len(text) : text[p] \in Written(K) \ Names
  OBVIOUS
<1>2. \A p \in 1 .. Len(text) : text[p] # "key" /\ text[p] # "value"
  BY <1>1 DEF Names
<1>3. text \in Seq(Written(K))
  OBVIOUS
<1> QED
  BY <1>2, <1>3 DEF LaidTexts, Laid

\* So is a value that characters follow up to a closer.
LEMMA ValueLaid ==
  ASSUME NEW K, NEW text \in Seq(Characters), Len(text) # 0, text[Len(text)] \in Closers
  PROVE  <<Space, "value", Space>> \o text \in LaidTexts(K)
<1> DEFINE t == <<Space, "value", Space>> \o text
<1>1. /\ Len(text) \in Nat /\ Len(t) = Len(text) + 3
      /\ t[1] = Space /\ t[2] = "value" /\ t[3] = Space
      /\ \A p \in 1 .. Len(text) : text[p] \in Characters
      /\ \A p \in 4 .. Len(t) : t[p] = text[p - 3]
  OBVIOUS
<1>2. Space \in Characters /\ "key" \notin Characters /\ "value" \notin Characters
  BY BackupFileAssumption DEF Blanks, Names, Space
<1>3. t \in Seq(Written(K))
  <2>1. {Space, "value"} \subseteq Written(K) /\ Characters \subseteq Written(K)
    BY <1>2 DEF Written, Names
  <2>2. <<Space, "value", Space>> \in Seq(Written(K)) /\ text \in Seq(Written(K))
    BY <2>1
  <2> QED
    BY <2>2
<1> HIDE DEF t
<1>4. \A p \in 1 .. Len(t) : p # 2 => t[p] \in Characters
  <2> SUFFICES ASSUME NEW p \in 1 .. Len(t), p # 2 PROVE t[p] \in Characters
    OBVIOUS
  <2>1. CASE p \in {1, 3}
    BY <1>1, <1>2, <2>1
  <2>2. CASE p \in 4 .. Len(t)
    <3>1. p - 3 \in 1 .. Len(text)
      BY <1>1, <2>2
    <3> QED
      BY <1>1, <2>2, <3>1
  <2> QED
    BY <1>1, <2>1, <2>2
<1>5. t[Len(t)] \in Closers /\ Len(t) \in 3 .. Len(t)
  <2>1. Len(t) \in 4 .. Len(t) /\ Len(t) - 3 = Len(text)
    BY <1>1
  <2> QED
    BY <1>1, <2>1
<1>6. ASSUME NEW p \in 1 .. Len(t), t[p] = "value"
      PROVE  \E c \in p + 1 .. Len(t) : /\ t[c] \in Closers
                                        /\ \A q \in p + 1 .. c : t[q] \in Characters
  <2>1. p = 2
    BY <1>2, <1>4, <1>6
  <2>2. \A q \in 3 .. Len(t) : t[q] \in Characters
    BY <1>4
  <2> QED
    BY <1>5, <2>1, <2>2
<1>7. \A p \in 1 .. Len(t) : t[p] # "key"
  BY <1>1, <1>2, <1>4
<1>8. Laid(K, t)
  BY <1>6, <1>7 DEF Laid
<1> QED
  BY <1>3, <1>8 DEF LaidTexts, t

\* The parts of a record as backup writes it.
CommaText == ","
CloseBrace == "}"
CloseBracket == "]"

\* A value with every character escaped that has to be.
Escapes(value) == FlattenSeq([i \in DOMAIN value |-> Escape(value[i])])

\* A record is written as these parts.
LEMMA RecordTextParts ==
  ASSUME NEW r, NEW last
  PROVE  RecordText(r, last) =
              <<Space, OpenBrace, NewLine, Space, "key", Space>> \o (<<Quote>> \o <<r.key>> \o <<Quote>>)
           \o <<CommaText, NewLine>>
           \o <<Space, "value", Space>> \o (<<Quote>> \o Escapes(r.value) \o <<Quote>>)
           \o <<NewLine, Space, CloseBrace>> \o (IF last THEN <<>> ELSE <<CommaText>>) \o <<NewLine>>
BY Zenon DEF RecordText, Quoted, Escapes, Space, OpenBrace, CommaText, CloseBrace

\* And a backup as these.
LEMMA BackupTextParts ==
  ASSUME NEW records
  PROVE  BackupText(records) =
              <<Space, OpenBracket, NewLine>>
           \o FlattenSeq([i \in DOMAIN records |-> RecordText(records[i], i = Len(records))])
           \o <<Space, CloseBracket, NewLine, CloseBrace, NewLine>>
BY Zenon DEF BackupText, Space, OpenBracket, CloseBracket, CloseBrace

\* The characters that backup adds.
LEMMA AddedCharacters ==
  /\ {Space, NewLine, Tab, CarriageReturn, CommaText, CloseBrace, CloseBracket, Quote, Backslash,
      "n", "r", "t", "u"} \subseteq Characters
  /\ CloseBrace \in Closers
  /\ Names \cap {OpenBrace, OpenBracket} = {} /\ Names \cap Characters = {}
<1>1. Space \in Blanks /\ NewLine \in Blanks /\ Tab \in Blanks /\ CarriageReturn \in Blanks
  BY Zenon DEF Space, Blanks
<1>2. CommaText \in Closers /\ CloseBrace \in Closers /\ CloseBracket \in Closers
  BY Zenon DEF CommaText, CloseBrace, CloseBracket, Closers
<1>3. OpenBrace # "key" /\ OpenBrace # "value" /\ OpenBracket # "key" /\ OpenBracket # "value"
  BY Zenon DEF OpenBrace, OpenBracket
<1>4. {"n", "r", "t", "u"} \subseteq Characters /\ {Quote, Backslash} \subseteq Characters
  BY BackupFileAssumption DEF Letters
<1>5. Blanks \subseteq Characters /\ Closers \subseteq Characters /\ Names \cap Characters = {}
  BY BackupFileAssumption
<1>6. Names \cap {OpenBrace, OpenBracket} = {}
  BY <1>3 DEF Names
<1> HIDE DEF NewLine, Tab, CarriageReturn
<1> QED
  BY <1>1, <1>2, <1>4, <1>5, <1>6

\* An escaped value is made of characters.
LEMMA EscapesCharacters ==
  ASSUME NEW value \in Seq(Characters)
  PROVE  Escapes(value) \in Seq(Characters)
<1>1. ASSUME NEW c \in Characters PROVE Escape(c) \in Seq(Characters)
  <2>1. \/ Escape(c) = <<Backslash, c>> \/ Escape(c) = <<Backslash, "n">>
        \/ Escape(c) = <<Backslash, "r">> \/ Escape(c) = <<Backslash, "t">>
        \/ Escape(c) = <<Backslash, "u">> \/ Escape(c) = <<c>>
    BY DEF Escape
  <2>2. c \in Characters /\ Backslash \in Characters /\ {"n", "r", "t", "u"} \subseteq Characters
    BY AddedCharacters
  <2>3. \A a, b \in Characters : <<a, b>> \in Seq(Characters) /\ <<a>> \in Seq(Characters)
    OBVIOUS
  <2> QED
    BY <2>1, <2>2, <2>3
<1> DEFINE parts == [i \in DOMAIN value |-> Escape(value[i])]
<1>2. parts \in Seq(Seq(Characters))
  <2>1. Len(value) \in Nat /\ DOMAIN value = 1 .. Len(value)
    OBVIOUS
  <2>2. \A i \in 1 .. Len(value) : Escape(value[i]) \in Seq(Characters)
    BY <1>1
  <2>3. parts \in [1 .. Len(value) -> Seq(Characters)]
    BY <2>1, <2>2
  <2> QED
    BY <2>1, <2>3, SeqOfElements
<1> HIDE DEF parts
<1>3. FlattenSeq(parts) \in Seq(Characters)
  <2>1. \A a, b \in Seq(Characters) : a \o b \in Seq(Characters)
    OBVIOUS
  <2>2. <<>> \in Seq(Characters)
    OBVIOUS
  <2> QED
    BY <1>2, <2>1, <2>2, FlattenClosed
<1> QED
  BY <1>3 DEF Escapes, parts

\* Four texts can be joined from either end.
AnyGrouping(a, b, c, d) == ((a \o b) \o c) \o d = a \o (b \o (c \o d))

\* They can.
LEMMA Regrouped ==
  ASSUME NEW S, NEW a \in Seq(S), NEW b \in Seq(S), NEW c \in Seq(S), NEW d \in Seq(S)
  PROVE  AnyGrouping(a, b, c, d)
<1>1. a \o b \in Seq(S) /\ c \o d \in Seq(S)
  OBVIOUS
<1>2. ((a \o b) \o c) \o d = (a \o b) \o (c \o d)
  BY <1>1, SMTT(30)
<1>3. (a \o b) \o (c \o d) = a \o (b \o (c \o d))
  BY <1>1, SMTT(30)
<1> QED
  BY <1>2, <1>3 DEF AnyGrouping

\* The text of a record is laid out so.
LEMMA RecordLaid ==
  ASSUME NEW K, K \cap Names = {}, NEW key \in K, NEW value \in Seq(Characters), NEW last,
         NEW r, r.key = key, r.value = value
  PROVE  RecordText(r, last) \in LaidTexts(K)
<1> DEFINE head == <<Space, OpenBrace, NewLine, Space, "key", Space>>
                     \o (<<Quote>> \o <<key>> \o <<Quote>>) \o <<CommaText, NewLine>>
<1> DEFINE name == <<Space, "value", Space>>
<1> DEFINE quoted == <<Quote>> \o Escapes(value) \o <<Quote>>
<1> DEFINE end == <<NewLine, Space, CloseBrace>>
<1> DEFINE comma == IF last THEN <<>> ELSE <<CommaText>>
<1> DEFINE W == Written(K)
<1>1. head \in LaidTexts(K)
  <2>1. /\ Len(head) = 11 /\ head \in Seq({Space, OpenBrace, NewLine, "key", Quote, key, CommaText})
        /\ head[1] = Space /\ head[2] = OpenBrace /\ head[3] = NewLine /\ head[4] = Space
        /\ head[5] = "key" /\ head[6] = Space /\ head[7] = Quote /\ head[8] = key
        /\ head[9] = Quote /\ head[10] = CommaText /\ head[11] = NewLine
    <3> HIDE DEF NewLine
    <3> QED
      OBVIOUS
  <2>2. {Space, OpenBrace, NewLine, "key", Quote, key, CommaText} \subseteq W
    BY AddedCharacters DEF Written, Names
  <2>3. head \in Seq(W)
    <3> HIDE DEF head, W
    <3> QED
      BY <2>1, <2>2
  <2>4. {Space, OpenBrace, NewLine, Quote, key, CommaText} \cap Names = {}
    BY AddedCharacters
  <2> HIDE DEF head, W
  <2>5. \A p \in 1 .. 11 : p # 5 => head[p] \notin Names
    <3> SUFFICES ASSUME NEW p \in 1 .. 11, p # 5 PROVE head[p] \notin Names
      OBVIOUS
    <3>1. \/ p = 1 \/ p = 2 \/ p = 3 \/ p = 4 \/ p = 6 \/ p = 7 \/ p = 8 \/ p = 9
          \/ p = 10 \/ p = 11
      OBVIOUS
    <3> HIDE DEF NewLine
    <3> QED
      BY <2>1, <2>4, <3>1
  <2>6. \A p \in 1 .. 11 : head[p] # "value" /\ (head[p] = "key" => p = 5)
    BY <2>1, <2>5 DEF Names
  <2>7. Laid(K, head)
    BY <2>1, <2>6 DEF Laid
  <2> QED
    BY <2>3, <2>7 DEF LaidTexts, W
<1>2. name \o (quoted \o end) \in LaidTexts(K)
  <2>1. quoted \in Seq(Characters) /\ end \in Seq(Characters) /\ Len(end) = 3
        /\ end[3] = CloseBrace
    <3>1. Escapes(value) \in Seq(Characters)
      BY EscapesCharacters
    <3> HIDE DEF NewLine
    <3> QED
      BY <3>1, AddedCharacters
  <2> HIDE DEF quoted, end
  <2> DEFINE t == quoted \o end
  <2>2. t \in Seq(Characters) /\ Len(t) # 0 /\ t[Len(t)] = CloseBrace
    <3>1. Joined(quoted, end) /\ t \in Seq(Characters)
      BY <2>1, JoinedSequences
    <3>2. Len(t) = Len(quoted) + 3 /\ Len(quoted) \in Nat /\ t[Len(quoted) + 3] = end[3]
      BY <2>1, <3>1 DEF Joined
    <3> QED
      BY <2>1, <3>1, <3>2
  <2> HIDE DEF t
  <2>3. <<Space, "value", Space>> \o t \in LaidTexts(K)
    BY <2>2, AddedCharacters, ValueLaid
  <2> QED
    BY <2>3 DEF t
<1>3. comma \in LaidTexts(K) /\ <<NewLine>> \in LaidTexts(K)
  <2>1. CommaText \in Written(K) \ Names /\ NewLine \in Written(K) \ Names
    BY AddedCharacters DEF Written
  <2>2. comma \in Seq(Written(K) \ Names) /\ <<NewLine>> \in Seq(Written(K) \ Names)
    <3> DEFINE S == Written(K) \ Names
    <3> HIDE DEF NewLine, S
    <3>1. <<>> \in Seq(S) /\ \A c \in S : <<c>> \in Seq(S)
      OBVIOUS
    <3>2. CommaText \in S /\ NewLine \in S
      BY <2>1 DEF S
    <3>3. comma \in Seq(S) /\ <<NewLine>> \in Seq(S)
      BY <3>1, <3>2
    <3> QED
      BY <3>3 DEF S
  <2> HIDE DEF comma
  <2> QED
    BY <2>2, NamelessLaid
<1>4. ((head \o name) \o quoted) \o end = head \o (name \o (quoted \o end))
  <2>1. head \in Seq(W)
    BY <1>1 DEF LaidTexts
  <2>2. name \in Seq(W) /\ quoted \in Seq(W) /\ end \in Seq(W)
    <3>1. Escapes(value) \in Seq(Characters)
      BY EscapesCharacters
    <3>2. Characters \subseteq W /\ "value" \in W
      BY DEF Written, Names
    <3>3. Escapes(value) \in Seq(W) /\ {Space, "value", Quote, NewLine, CloseBrace} \subseteq W
      BY <3>1, <3>2, AddedCharacters
    <3> HIDE DEF W, NewLine
    <3> QED
      BY <3>3
  <2> HIDE DEF head, name, quoted, end, W
  <2>3. AnyGrouping(head, name, quoted, end)
    BY <2>1, <2>2, Regrouped
  <2> QED
    BY <2>3 DEF AnyGrouping
<1>5. RecordText(r, last) = (((head \o name) \o quoted) \o end) \o comma \o <<NewLine>>
  BY Zenon, RecordTextParts
<1> HIDE DEF head, name, quoted, end, comma, W
<1>6. head \o (name \o (quoted \o end)) \in LaidTexts(K)
  BY <1>1, <1>2, LaidJoined
<1> HIDE DEF NewLine
<1> QED
  BY <1>3, <1>4, <1>5, <1>6, LaidJoined

\* And so is that of a backup, record by record.
LEMMA BackupLaid ==
  ASSUME NEW K, K \cap Names = {}, NEW records \in Seq([key : K, value : Seq(Characters)])
  PROVE  BackupText(records) \in LaidTexts(K)
<1> DEFINE parts == [i \in DOMAIN records |-> RecordText(records[i], i = Len(records))]
<1> DEFINE start == <<Space, OpenBracket, NewLine>>
<1> DEFINE end == <<Space, CloseBracket, NewLine, CloseBrace, NewLine>>
<1>1. parts \in Seq(LaidTexts(K))
  <2>1. /\ Len(records) \in Nat /\ DOMAIN records = 1 .. Len(records)
        /\ \A i \in DOMAIN records : records[i] \in [key : K, value : Seq(Characters)]
    BY SeqElements
  <2>2. ASSUME NEW i \in 1 .. Len(records)
        PROVE  RecordText(records[i], i = Len(records)) \in LaidTexts(K)
    <3>1. records[i].key \in K /\ records[i].value \in Seq(Characters)
      BY <2>1
    <3> QED
      BY <3>1, RecordLaid
  <2>3. parts \in [1 .. Len(records) -> LaidTexts(K)]
    BY <2>1, <2>2
  <2> QED
    BY <2>1, <2>3, SeqOfElements
<1>2. start \in LaidTexts(K) /\ end \in LaidTexts(K) /\ <<>> \in LaidTexts(K)
  <2>1. {Space, OpenBracket, NewLine, CloseBracket, CloseBrace} \subseteq Written(K) \ Names
    BY AddedCharacters DEF Written
  <2>2. /\ start \in Seq(Written(K) \ Names) /\ end \in Seq(Written(K) \ Names)
        /\ <<>> \in Seq(Written(K) \ Names)
    <3> HIDE DEF NewLine
    <3> QED
      BY <2>1
  <2> HIDE DEF start, end
  <2> QED
    BY <2>2, NamelessLaid
<1>3. BackupText(records) = start \o FlattenSeq(parts) \o end
  BY Zenon, BackupTextParts
<1> HIDE DEF start, end, parts
<1>4. FlattenSeq(parts) \in LaidTexts(K)
  BY <1>1, <1>2, LaidJoined, FlattenClosed
<1> QED
  BY <1>2, <1>3, <1>4, LaidJoined

------------------------------------------------------------------------------
(* Restored *)

\* What the parser skips before a key or a value.
Skipped == {Space, Quote}

KeyAt(text, i)    == Past(text, Find(text, i, "key") + 1, Skipped)
\* Where the next "value" is.
NextValue(text, i) == Find(text, KeyAt(text, i), "value")
ReadAt(text, i)   == ValueFrom(text, Past(text, NextValue(text, i) + 1, Skipped))

\* Is there no record any more?
NoRecord(text, i) == Find(text, i, "key") > Len(text) \/ NextValue(text, i) > Len(text)

\* The records from place i on, when f has those from the later places on.
RestoredBody(text, f, i) ==
  IF NoRecord(text, i) THEN <<>>
  ELSE <<[key |-> text[KeyAt(text, i)], value |-> ReadAt(text, i).value]>> \o f[ReadAt(text, i).at]

\* f says of every place which records are found from there on.
Restores(text, f) == f = [i \in 1 .. Len(text) + 1 |-> RestoredBody(text, f, i)]

\* Restored is the value at the first place of such a function.
LEMMA RestoredRestores == ASSUME NEW text PROVE Restored(text) = (CHOOSE f : Restores(text, f))[1]
BY Zenon DEF Restored, Restores, RestoredBody, NoRecord, ReadAt, NextValue, KeyAt, Skipped, Space

\* Where the parser is when it has found a record.
LEMMA RecordFound ==
  ASSUME NEW W, Characters \subseteq W, NEW text \in Seq(W), NEW i \in 1 .. Len(text) + 1,
         ~NoRecord(text, i)
  PROVE  /\ Find(text, i, "key") \in i .. Len(text) /\ text[Find(text, i, "key")] = "key"
         /\ KeyAt(text, i) \in Find(text, i, "key") + 1 .. Len(text)
         /\ NextValue(text, i) \in KeyAt(text, i) .. Len(text)
         /\ text[NextValue(text, i)] = "value"
         /\ Past(text, NextValue(text, i) + 1, Skipped) \in NextValue(text, i) + 1 .. Len(text) + 1
         /\ ReadAt(text, i).at \in i + 1 .. Len(text) + 1
<1> DEFINE n == Len(text)
<1> DEFINE at == Find(text, i, "key")
<1> DEFINE key == KeyAt(text, i)
<1> DEFINE value == NextValue(text, i)
<1> DEFINE start == Past(text, value + 1, Skipped)
<1>0. n \in Nat
  OBVIOUS
<1>1. at \in i .. n /\ text[at] = "key"
  BY <1>0, FindStops DEF NoRecord
<1>2. key \in at + 1 .. n + 1
  <2>1. at + 1 \in 1 .. n + 1
    BY <1>0, <1>1
  <2> HIDE DEF at
  <2>2. Past(text, at + 1, Skipped) \in at + 1 .. n + 1
    BY <1>0, <2>1, PastStops
  <2> QED
    BY <2>2 DEF KeyAt, at
<1>3. value \in key .. n /\ text[value] = "value"
  <2>1. key \in 1 .. n + 1
    BY <1>0, <1>1, <1>2
  <2> HIDE DEF key
  <2>2. Find(text, key, "value") \in key .. n + 1
        /\ (Find(text, key, "value") <= n => text[Find(text, key, "value")] = "value")
    BY <1>0, <2>1, FindStops
  <2>3. value = Find(text, key, "value")
    BY DEF NextValue, key
  <2> HIDE DEF value
  <2>4. ~ (value > n)
    BY DEF NoRecord, value
  <2> QED
    BY <1>0, <2>1, <2>2, <2>3, <2>4
<1> HIDE DEF at, key, value
<1>4. start \in value + 1 .. n + 1
  <2>1. value + 1 \in 1 .. n + 1
    BY <1>0, <1>1, <1>2, <1>3
  <2> QED
    BY <1>0, <2>1, PastStops
<1>5. ReadAt(text, i).at \in start .. n + 1
  <2>1. start \in 1 .. n + 1
    BY <1>0, <1>1, <1>2, <1>3, <1>4
  <2> HIDE DEF start
  <2>2. ValueFrom(text, start).at \in start .. n + 1
    BY <2>1, ValueRead
  <2> QED
    BY <2>2 DEF ReadAt, start, value
<1>6. ReadAt(text, i).at \in i + 1 .. n + 1
  BY <1>0, <1>1, <1>2, <1>3, <1>4, <1>5
<1> QED
  BY <1>0, <1>1, <1>2, <1>3, <1>4, <1>6 DEF at, key, value

\* What is found from a place on depends on later places only.
LEMMA RestoredBodyLater ==
  ASSUME NEW W, Characters \subseteq W, NEW text \in Seq(W), NEW f, NEW g,
         NEW i \in 1 .. Len(text) + 1, \A m \in i + 1 .. Len(text) + 1 : f[m] = g[m]
  PROVE  RestoredBody(text, f, i) = RestoredBody(text, g, i)
<1>1. CASE NoRecord(text, i)
  BY <1>1 DEF RestoredBody
<1>2. CASE ~NoRecord(text, i)
  <2>1. f[ReadAt(text, i).at] = g[ReadAt(text, i).at]
    BY <1>2, RecordFound
  <2> QED
    BY <1>2, <2>1 DEF RestoredBody
<1> QED
  BY <1>1, <1>2

\* There is such a function.
LEMMA RestoresExists ==
  ASSUME NEW W, Characters \subseteq W, NEW text \in Seq(W)
  PROVE  \E f : Restores(text, f)
<1> DEFINE n == Len(text)
<1>0. n \in Nat
  OBVIOUS
<1> DEFINE G == {i \in 1 .. n + 1 : \E f : f = [j \in i .. n + 1 |-> RestoredBody(text, f, j)]}
<1>1. ASSUME NEW i \in 1 .. n + 1, \A j \in i + 1 .. n + 1 : j \in G PROVE i \in G
  <2>1. PICK f : i # n + 1 => f = [j \in i + 1 .. n + 1 |-> RestoredBody(text, f, j)]
    <3>1. i # n + 1 => i + 1 \in i + 1 .. n + 1
      BY <1>0
    <3> QED
      BY <1>1, <3>1
  <2> DEFINE new == RestoredBody(text, f, i)
  <2> DEFINE g == [j \in i .. n + 1 |-> IF j = i THEN new ELSE f[j]]
  <2>2. \A j \in i + 1 .. n + 1 : f[j] = RestoredBody(text, f, j)
    BY <1>0, <2>1
  <2> HIDE DEF new
  <2>3. \A j \in i + 1 .. n + 1 : g[j] = f[j]
    BY <1>0
  <2> HIDE DEF g
  <2>4. \A j \in i .. n + 1 : RestoredBody(text, g, j) = RestoredBody(text, f, j)
    <3> SUFFICES ASSUME NEW j \in i .. n + 1
                 PROVE  RestoredBody(text, g, j) = RestoredBody(text, f, j)
      OBVIOUS
    <3>1. j \in 1 .. n + 1 /\ \A m \in j + 1 .. n + 1 : g[m] = f[m]
      BY <1>0, <2>3
    <3> QED
      BY <3>1, RestoredBodyLater
  <2>5. \A j \in i .. n + 1 : (IF j = i THEN new ELSE f[j]) = RestoredBody(text, g, j)
    BY <1>0, <2>2, <2>4 DEF new
  <2>6. g = [j \in i .. n + 1 |-> RestoredBody(text, g, j)]
    BY <2>5 DEF g
  <2> QED
    BY <2>6
<1>2. 1 \in G
  <2> HIDE DEF G
  <2>1. 1 .. n + 1 \subseteq G
    BY <1>0, <1>1, DownInduction
  <2> QED
    BY <1>0, <2>1
<1> QED
  BY <1>2 DEF Restores

\* What is read from a text that is laid out is a key and a value.
LEMMA RecordRead ==
  ASSUME NEW K, K \cap (Names \cup Blanks \cup Closers \cup {Quote, Backslash}) = {},
         NEW text \in LaidTexts(K), NEW i \in 1 .. Len(text) + 1, ~NoRecord(text, i)
  PROVE  text[KeyAt(text, i)] \in K /\ ReadAt(text, i).value \in Seq(Characters)
<1> DEFINE n == Len(text)
<1> DEFINE at == Find(text, i, "key")
<1> DEFINE key == KeyAt(text, i)
<1> DEFINE value == NextValue(text, i)
<1> DEFINE start == Past(text, value + 1, Skipped)
<1>0. /\ text \in Seq(Written(K)) /\ Laid(K, text) /\ n \in Nat
      /\ Characters \subseteq Written(K)
  BY DEF LaidTexts, Written
<1>1. /\ at \in i .. n /\ text[at] = "key"
      /\ key \in at + 1 .. n
      /\ value \in key .. n /\ text[value] = "value"
      /\ start \in value + 1 .. n + 1
  BY <1>0, RecordFound
<1>2. Space \notin K /\ Quote \notin K /\ Skipped \cap Closers = {}
  <2>1. Space \in Blanks
    BY Zenon DEF Blanks, Space
  <2>2. Quote \in DOMAIN Unescaped
    BY DEF Unescaped
  <2> QED
    BY <2>1, <2>2, NotClosers DEF Skipped
<1>3. /\ \A m \in at + 1 .. key - 1 : text[m] \in Skipped
      /\ text[key] \notin Skipped
  <2>1. at + 1 \in 1 .. n + 1 /\ key = Past(text, at + 1, Skipped)
    BY <1>0, <1>1 DEF KeyAt
  <2> HIDE DEF key, at
  <2>2. LET p == Past(text, at + 1, Skipped)
        IN  (p <= n => text[p] \notin Skipped) /\ \A m \in at + 1 .. p - 1 : text[m] \in Skipped
    BY <1>0, <2>1, PastStops
  <2> QED
    BY <1>0, <1>1, <2>1, <2>2
<1>4. \A m \in value + 1 .. start - 1 : text[m] \in Skipped
  <2> HIDE DEF value
  <2>1. value + 1 \in 1 .. n + 1
    BY <1>0, <1>1
  <2> QED
    BY <1>0, <2>1, PastStops
<1>5. ReadAt(text, i).value = ValueFrom(text, start).value
  BY DEF ReadAt
<1> HIDE DEF at, key, value, start
<1>6. text[key] \in K
  <2>1. at + 3 <= n /\ text[at + 1] = Space /\ text[at + 2] = Quote /\ text[at + 3] \in K
    <3>1. at \in 1 .. Len(text)
      BY <1>0, <1>1
    <3> QED
      BY <1>0, <1>1, <3>1 DEF Laid
  <2>2. key # at + 1 /\ key # at + 2
    BY <1>3, <2>1 DEF Skipped
  <2>3. text[at + 3] \notin Skipped
    BY <1>2, <2>1 DEF Skipped
  <2>4. ~ (at + 3 \in at + 1 .. key - 1)
    BY <1>3, <2>3
  <2>5. key = at + 3
    BY <1>0, <1>1, <2>2, <2>4
  <2> QED
    BY <2>1, <2>5
<1>7. ValueFrom(text, start).value \in Seq(Characters)
  <2>1. PICK c \in value + 1 .. n : /\ text[c] \in Closers
                                    /\ \A q \in value + 1 .. c : text[q] \in Characters
    <3>1. value \in 1 .. Len(text)
      BY <1>0, <1>1
    <3> QED
      BY <1>0, <1>1, <3>1 DEF Laid
  <2>2. ~ (c \in value + 1 .. start - 1)
    BY <1>2, <1>4, <2>1
  <2>3. c \in start .. n /\ \A q \in start .. c : text[q] \in Characters
    BY <1>0, <1>1, <2>1, <2>2
  <2>4. start \in 1 .. Len(text) + 1
    BY <1>0, <1>1
  <2> QED
    BY <1>0, <2>1, <2>3, <2>4, ValueRead
<1> QED
  BY <1>5, <1>6, <1>7 DEF key

\* Whatever values the records of a backup have, restore reads from its text records
\* whose keys are among those that were backed up, each with a value: a part of a
\* value never passes for a key, nor is a record read without one (main.cpp:281-367,
\* 394-486).
THEOREM RestoreReadsRecords ==
  ASSUME NEW K, K \cap (Names \cup Blanks \cup Closers \cup {Quote, Backslash}) = {},
         NEW records \in Seq([key : K, value : Seq(Characters)])
  PROVE  Restored(BackupText(records)) \in Seq([key : K, value : Seq(Characters)])
<1> DEFINE R == [key : K, value : Seq(Characters)]
<1> DEFINE text == BackupText(records)
<1>1. text \in LaidTexts(K)
  BY BackupLaid
<1> HIDE DEF text
<1> DEFINE n == Len(text)
<1>2. text \in Seq(Written(K)) /\ n \in Nat /\ Characters \subseteq Written(K)
  BY <1>1 DEF LaidTexts, Written
<1> DEFINE f == CHOOSE g : Restores(text, g)
<1>3. Restores(text, f) /\ Restored(text) = f[1]
  BY <1>2, RestoresExists, RestoredRestores
<1> HIDE DEF f
<1>4. \A i \in 1 .. n + 1 : f[i] = RestoredBody(text, f, i)
  BY <1>3 DEF Restores
<1> DEFINE G == {i \in 1 .. n + 1 : f[i] \in Seq(R)}
<1>5. ASSUME NEW i \in 1 .. n + 1, \A j \in i + 1 .. n + 1 : j \in G PROVE i \in G
  <2>1. CASE NoRecord(text, i)
    <3>1. f[i] = <<>>
      BY <1>4, <2>1 DEF RestoredBody
    <3> HIDE DEF R
    <3>2. <<>> \in Seq(R)
      OBVIOUS
    <3> QED
      BY <3>1, <3>2
  <2>2. CASE ~NoRecord(text, i)
    <3> DEFINE r == [key |-> text[KeyAt(text, i)], value |-> ReadAt(text, i).value]
    <3>1. r \in R
      BY <1>1, <2>2, RecordRead
    <3>2. ReadAt(text, i).at \in i + 1 .. n + 1
      BY <1>2, <2>2, RecordFound
    <3>3. f[ReadAt(text, i).at] \in Seq(R)
      BY <1>5, <3>2
    <3>4. f[i] = <<r>> \o f[ReadAt(text, i).at]
      BY <1>4, <2>2 DEF RestoredBody
    <3> HIDE DEF R, r
    <3>5. \A a, b \in Seq(R) : a \o b \in Seq(R)
      OBVIOUS
    <3>6. <<r>> \in Seq(R)
      BY <3>1
    <3>7. f[i] \in Seq(R)
      BY <3>3, <3>4, <3>5, <3>6
    <3> QED
      BY <3>7
  <2> QED
    BY <2>1, <2>2
<1>6. 1 \in G
  <2> HIDE DEF G
  <2>1. 1 .. n + 1 \subseteq G
    BY <1>2, <1>5, DownInduction
  <2> QED
    BY <1>2, <2>1
<1> QED
  BY <1>3, <1>6 DEF text

================================================================================
