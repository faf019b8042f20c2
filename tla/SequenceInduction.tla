--------------------------- MODULE SequenceInduction ---------------------------
(****************************************************************************)
(* Induction, for the proofs about texts and logs of any length.  The       *)
(* library's induction theorems take the formula to be proved as an         *)
(* operator; here it is a set, the numbers of which the formula is true.    *)
(****************************************************************************)
EXTENDS Naturals, SequencesExt, WellFoundedInduction, TLAPS

\* A sequence by its elements.
LEMMA SeqElements ==
  ASSUME NEW S, NEW s \in Seq(S)
  PROVE  Len(s) \in Nat /\ DOMAIN s = 1 .. Len(s) /\ \A i \in DOMAIN s : s[i] \in S
OBVIOUS

\* A function on the first n numbers is a sequence.
LEMMA SeqOfElements ==
  ASSUME NEW S, NEW n \in Nat, NEW f \in [1 .. n -> S]
  PROVE  f \in Seq(S)
OBVIOUS

\* Where the elements of two sequences are in the one they make.
Joined(a, b) ==
  /\ Len(a \o b) = Len(a) + Len(b) /\ Len(a) \in Nat /\ Len(b) \in Nat
  /\ \A i \in 1 .. Len(a) : (a \o b)[i] = a[i]
  /\ \A i \in 1 .. Len(b) : (a \o b)[Len(a) + i] = b[i]

\* They are there.
LEMMA JoinedSequences ==
  ASSUME NEW S, NEW a \in Seq(S), NEW b \in Seq(S)
  PROVE  Joined(a, b)
BY DEF Joined

\* A set that has 0 and, with a number, the next one, has them all.
LEMMA SetInduction ==
  ASSUME NEW G, 0 \in G, \A n \in Nat : n \in G => n + 1 \in G
  PROVE  Nat \subseteq G
<1> DEFINE T == Nat \ G
<1> SUFFICES ASSUME T # {} PROVE FALSE
  OBVIOUS
<1>1. PICK m \in T : \A n \in T : ~ <<n, m>> \in OpToRel(<, Nat)
  <2>1. T \subseteq Nat
    OBVIOUS
  <2> HIDE DEF T
  <2> QED
    BY <2>1, NatLessThanWellFounded, WFMin
<1>2. m - 1 \in Nat /\ m - 1 < m /\ m - 1 + 1 = m
  OBVIOUS
<1>3. m - 1 \notin T
  BY <1>1, <1>2 DEF OpToRel
<1> QED
  BY <1>2, <1>3

\* The same from n + 1 down to 1: a set that has a number, if it has all above it.
LEMMA DownInduction ==
  ASSUME NEW G, NEW n \in Nat,
         \A i \in 1 .. n + 1 : (\A j \in i + 1 .. n + 1 : j \in G) => i \in G
  PROVE  1 .. n + 1 \subseteq G
<1> DEFINE H == {m \in Nat : \A j \in 1 .. n + 1 : n + 1 - m <= j => j \in G}
<1>1. 0 \in H
  <2>1. n + 1 \in 1 .. n + 1 /\ \A j \in n + 1 + 1 .. n + 1 : j \in G
    OBVIOUS
  <2>2. n + 1 \in G
    BY <2>1
  <2> QED
    BY <2>2
<1>2. ASSUME NEW m \in Nat, m \in H PROVE m + 1 \in H
  <2> SUFFICES ASSUME NEW j \in 1 .. n + 1, n + 1 - (m + 1) <= j PROVE j \in G
    OBVIOUS
  <2>1. \A l \in j + 1 .. n + 1 : l \in G
    BY <1>2
  <2> QED
    BY <2>1
<1>3. n + 1 \in H
  <2> HIDE DEF H
  <2> QED
    BY <1>1, <1>2, SetInduction
<1> QED
  BY <1>3

\* What FlattenSeq makes of the first n texts, in turn.
Flattening(s, n, f) ==
  f = [i \in 1 .. n |-> IF i = 1 THEN s[i] ELSE f[i - 1] \o s[i]]

\* Sequences can be joined one after the other.
LEMMA FlatteningExists == ASSUME NEW s, NEW m \in Nat PROVE \E f : Flattening(s, m, f)
<1> DEFINE G == {n \in Nat : \E f : Flattening(s, n, f)}
<1>1. 0 \in G
  <2>1. Flattening(s, 0, [i \in 1 .. 0 |-> s[i]])
    BY DEF Flattening
  <2> QED
    BY <2>1
<1>2. ASSUME NEW n \in Nat, n \in G PROVE n + 1 \in G
  <2>1. PICK f : Flattening(s, n, f)
    BY <1>2
  <2>2. /\ DOMAIN f = 1 .. n
        /\ \A i \in 1 .. n : f[i] = IF i = 1 THEN s[i] ELSE f[i - 1] \o s[i]
    BY <2>1 DEF Flattening
  <2> DEFINE last == IF n + 1 = 1 THEN s[n + 1] ELSE f[n] \o s[n + 1]
  <2> DEFINE g == [i \in 1 .. n + 1 |-> IF i = n + 1 THEN last ELSE f[i]]
  <2> HIDE DEF last
  <2>3. DOMAIN g = 1 .. n + 1 /\ g[n + 1] = last /\ \A i \in 1 .. n : g[i] = f[i]
    OBVIOUS
  <2> HIDE DEF g
  <2>4. ASSUME NEW i \in 1 .. n + 1
        PROVE  g[i] = IF i = 1 THEN s[i] ELSE g[i - 1] \o s[i]
    <3>1. CASE i = n + 1
      <4>1. i # 1 => i - 1 \in 1 .. n /\ i - 1 = n
        BY <3>1
      <4> QED
        BY <2>3, <3>1, <4>1 DEF last
    <3>2. CASE i \in 1 .. n
      <4>1. i # 1 => i - 1 \in 1 .. n
        BY <3>2
      <4> QED
        BY <2>2, <2>3, <3>2, <4>1
    <3> QED
      BY <3>1, <3>2
  <2>5. g = [i \in 1 .. n + 1 |-> IF i = 1 THEN s[i] ELSE g[i - 1] \o s[i]]
    BY <2>4 DEF g
  <2>6. Flattening(s, n + 1, g)
    BY <2>5 DEF Flattening
  <2> QED
    BY <2>6
<1> HIDE DEF G
<1>3. m \in G
  BY <1>1, <1>2, SetInduction
<1> QED
  BY <1>3 DEF G

\* FlattenSeq does that.
LEMMA FlattenedBy ==
  ASSUME NEW s, Len(s) \in Nat \ {0}
  PROVE  \E f : Flattening(s, Len(s), f) /\ FlattenSeq(s) = f[Len(s)]
<1> DEFINE flatten == CHOOSE f : Flattening(s, Len(s), f)
<1>1. Flattening(s, Len(s), flatten)
  BY FlatteningExists
<1>2. FlattenSeq(s) = flatten[Len(s)]
  BY DEF FlattenSeq, Flattening
<1> QED
  BY <1>1, <1>2

\* What is true of the parts and of what is put together from two texts of which
\* it is true is true of the whole.
LEMMA FlattenClosed ==
  ASSUME NEW C, <<>> \in C, \A a, b \in C : a \o b \in C,
         NEW s \in Seq(C)
  PROVE  FlattenSeq(s) \in C
<1>0. Len(s) \in Nat /\ \A i \in 1 .. Len(s) : s[i] \in C
  OBVIOUS
<1>1. CASE Len(s) = 0
  BY <1>1 DEF FlattenSeq
<1>2. CASE Len(s) # 0
  <2>1. PICK f : Flattening(s, Len(s), f) /\ FlattenSeq(s) = f[Len(s)]
    BY <1>0, <1>2, FlattenedBy
  <2>2. \A i \in 1 .. Len(s) : f[i] = IF i = 1 THEN s[i] ELSE f[i - 1] \o s[i]
    BY <2>1 DEF Flattening
  <2> DEFINE H == {n \in Nat : n + 1 <= Len(s) => f[n + 1] \in C}
  <2>3. 0 \in H
    BY <1>0, <1>2, <2>2
  <2>4. ASSUME NEW n \in Nat, n \in H PROVE n + 1 \in H
    <3>1. CASE n + 2 <= Len(s)
      <4>1. n + 2 \in 1 .. Len(s) /\ n + 2 # 1 /\ n + 2 - 1 = n + 1
        BY <1>0, <3>1
      <4>2. f[n + 2] = f[n + 1] \o s[n + 2]
        <5>1. \A i \in 1 .. Len(s) : i # 1 => f[i] = f[i - 1] \o s[i]
          BY <2>2
        <5>2. PICK i \in 1 .. Len(s) : i = n + 2 /\ i # 1 /\ i - 1 = n + 1
          BY <4>1
        <5> QED
          BY <5>1, <5>2
      <4>3. f[n + 1] \in C /\ s[n + 2] \in C
        <5>1. n + 1 <= Len(s)
          BY <1>0, <3>1
        <5>2. f[n + 1] \in C
          BY <2>4, <5>1
        <5> QED
          BY <1>0, <4>1, <5>2
      <4>4. f[n + 2] \in C
        BY <4>2, <4>3
      <4> QED
        BY <4>4
    <3>2. CASE ~ (n + 2 <= Len(s))
      BY <1>0, <3>2
    <3> QED
      BY <3>1, <3>2
  <2>5. Len(s) - 1 \in Nat /\ Len(s) - 1 + 1 = Len(s)
    BY <1>0, <1>2
  <2>6. Len(s) - 1 \in H
    <3> HIDE DEF H
    <3> QED
      BY <2>3, <2>4, <2>5, SetInduction
  <2> QED
    BY <1>0, <2>1, <2>5, <2>6
<1> QED
  BY <1>1, <1>2

================================================================================
