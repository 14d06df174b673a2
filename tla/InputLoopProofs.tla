--------------------------- MODULE InputLoopProofs ---------------------------
(* What the steps of InputLoop do to the events on their way, for any      *)
(* buttons and queue: cited by the proofs about the apps.                  *)
EXTENDS InputLoop, SequencesExt, SequenceTheorems, WellFoundedInduction, TLAPS

USE InputAssumption

LEMMA EventType ==
    ASSUME NEW b \in Buttons, NEW t \in Types
    PROVE  Event(b, t) \in InputEvent
  BY DEF Event, InputEvent

LEMMA StreamType == ASSUME InputTypeOK PROVE Stream \in Seq(InputEvent)
  BY DEF InputTypeOK, Stream

LEMMA UnderwayIs ==
    ASSUME InputTypeOK, NEW e
    PROVE  e \in Underway <=> \E i \in 1..Len(Stream) : Stream[i] = e
  BY StreamType, LenProperties DEF Underway

LEMMA InitInput == InputInit => InputTypeOK /\ Stream = <<>>
  BY DEF InputInit, InputTypeOK, Stream
-----------------------------------------------------------------------------
(* Sequences put one after the other.                                      *)

LEMMA Regroup ==
    ASSUME NEW S, NEW a \in Seq(S), NEW b \in Seq(S), NEW c \in Seq(S)
    PROVE  a \o (b \o c) = (a \o b) \o c
  BY ONLY ConcatAssociative, SMTT(60)

\* Induction over a set of numbers, from the least number outside of it.
LEMMA Induction ==
    ASSUME NEW S, 0 \in S, \A n \in Nat : n \in S => n + 1 \in S
    PROVE  \A n \in Nat : n \in S
<1> SUFFICES ASSUME Nat \ S # {} PROVE FALSE
  OBVIOUS
<1> DEFINE T == Nat \ S
           R == OpToRel(<, Nat)
<1>1. IsWellFoundedOn(R, Nat)
  BY NatLessThanWellFounded
<1>2. \A m, n \in Nat : m < n => <<m, n>> \in R
  BY DEF OpToRel
<1>3. T \subseteq Nat /\ T # {}
  OBVIOUS
<1> HIDE DEF R, T
<1>4. PICK n \in T : \A m \in T : <<m, n>> \notin R
  BY <1>1, <1>3, WFMin, Zenon
<1>5. n # 0 /\ n - 1 \in Nat /\ n - 1 < n /\ n - 1 + 1 = n
  BY <1>4 DEF T
<1>6. n - 1 \notin T
  BY <1>2, <1>3, <1>4, <1>5
<1> QED
  BY <1>4, <1>5, <1>6 DEF T

\* The partial concatenations of a sequence of sequences.
Joins(ss, f) ==
    /\ ss # <<>> => f[1] = ss[1]
    /\ \A i \in 1..Len(ss) : i + 1 \in 1..Len(ss) => f[i + 1] = f[i] \o ss[i + 1]

LEMMA JoinsType ==
    ASSUME NEW S, NEW ss \in Seq(Seq(S)), NEW f, Joins(ss, f)
    PROVE  \A i \in 1..Len(ss) : f[i] \in Seq(S)
<1> DEFINE P == {n \in Nat : n \in 1..Len(ss) => f[n] \in Seq(S)}
<1>1. \A i \in 1..Len(ss) : ss[i] \in Seq(S)
  OBVIOUS
<1>2. ASSUME NEW n \in Nat, n \in P, n + 1 \in 1..Len(ss) PROVE f[n + 1] \in Seq(S)
  <2>1. CASE n = 0
    <3>1. ss # <<>> /\ n + 1 = 1
      BY <1>2, <2>1
    <3> QED
      BY <1>1, <1>2, <3>1 DEF Joins
  <2>2. CASE n # 0
    <3>1. n \in 1..Len(ss)
      BY <1>2, <2>2
    <3>2. f[n + 1] = f[n] \o ss[n + 1]
      BY <1>2, <3>1 DEF Joins
    <3>3. f[n] \in Seq(S) /\ ss[n + 1] \in Seq(S)
      BY <1>1, <1>2, <3>1
    <3> QED
      BY <3>2, <3>3, ConcatProperties
  <2> QED
    BY <2>1, <2>2
<1>3. 0 \in P
  OBVIOUS
<1>4. ASSUME NEW n \in Nat, n \in P PROVE n + 1 \in P
  <2>1. n + 1 \in Nat
    OBVIOUS
  <2> QED
    BY <1>2, <1>4, <2>1, Zenon
<1> HIDE DEF P
<1>5. \A n \in Nat : n \in P
  BY <1>3, <1>4, Induction
<1>6. \A n \in P : n \in 1..Len(ss) => f[n] \in Seq(S)
  BY DEF P
<1>7. \A i \in 1..Len(ss) : i \in Nat
  OBVIOUS
<1> QED
  BY <1>5, <1>6, <1>7, Zenon

LEMMA JoinsExist ==
    ASSUME NEW ss, Len(ss) \in Nat
    PROVE  \E f : f = [i \in 1..Len(ss) |-> IF i = 1 THEN ss[i] ELSE f[i - 1] \o ss[i]]
<1> DEFINE Part(f, n) == f = [i \in 1..n |-> IF i = 1 THEN ss[i] ELSE f[i - 1] \o ss[i]]
           P == {n \in Nat : \E f : Part(f, n)}
<1>1. 0 \in P
  <2> DEFINE f == [i \in 1..0 |-> ss[i]]
  <2>1. Part(f, 0)
    OBVIOUS
  <2> QED
    BY <2>1
<1>2. ASSUME NEW n \in Nat, n \in P PROVE n + 1 \in P
  <2>1. PICK f : Part(f, n)
    BY <1>2
  <2> DEFINE g == [i \in 1..n+1 |-> IF i = 1 THEN ss[i] ELSE f[i - 1] \o ss[i]]
  <2>2. \A i \in 1..n : f[i] = IF i = 1 THEN ss[i] ELSE f[i - 1] \o ss[i]
    BY <2>1, Zenon
  <2>3. \A i \in 1..n : i \in 1..n+1
    OBVIOUS
  <2>4. \A i \in 1..n : g[i] = f[i]
    BY <2>2, <2>3, Zenon
  <2>5. \A i \in 1..n+1 : i # 1 => i - 1 \in 1..n
    OBVIOUS
  <2>6. g = [i \in 1..n+1 |-> IF i = 1 THEN ss[i] ELSE g[i - 1] \o ss[i]]
    <3>1. \A i \in 1..n+1 : (IF i = 1 THEN ss[i] ELSE f[i - 1] \o ss[i])
                          = (IF i = 1 THEN ss[i] ELSE g[i - 1] \o ss[i])
      BY <2>4, <2>5, Zenon
    <3> QED
      BY <3>1, Zenon
  <2>7. Part(g, n + 1)
    BY <2>6, Zenon
  <2>8. n + 1 \in Nat
    OBVIOUS
  <2> HIDE DEF g, Part
  <2> QED
    BY <2>7, <2>8, Zenon
<1>3. \A n \in Nat : n \in P
  <2> HIDE DEF P
  <2> QED
    BY <1>1, <1>2, Induction
<1> QED
  BY <1>3, Zenon

LEMMA JoinsOf ==
    ASSUME NEW ss, Len(ss) \in Nat, NEW f,
           f = [i \in 1..Len(ss) |-> IF i = 1 THEN ss[i] ELSE f[i - 1] \o ss[i]]
    PROVE  /\ 1 \in 1..Len(ss) => f[1] = ss[1]
           /\ \A i \in 1..Len(ss) : i + 1 \in 1..Len(ss) => f[i + 1] = f[i] \o ss[i + 1]
<1>1. \A i \in 1..Len(ss) : f[i] = IF i = 1 THEN ss[i] ELSE f[i - 1] \o ss[i]
  BY Zenon
<1>2. ASSUME NEW i \in 1..Len(ss), NEW j \in 1..Len(ss), j - 1 = i, j # 1
      PROVE  f[j] = f[i] \o ss[j]
  BY <1>1, <1>2, Zenon
<1>3. \A i \in 1..Len(ss) : i + 1 - 1 = i /\ i + 1 # 1
  OBVIOUS
<1>4. 1 \in 1..Len(ss) => f[1] = ss[1]
  BY <1>1, Zenon
<1>5. ASSUME NEW i \in 1..Len(ss), NEW j \in 1..Len(ss), j = i + 1
      PROVE  f[j] = f[i] \o ss[j]
  <2>1. j - 1 = i /\ j # 1
    BY <1>3, <1>5
  <2> QED
    BY <1>2, <2>1
<1>6. \A i, j \in 1..Len(ss) : j = i + 1 => f[j] = f[i] \o ss[j]
  BY <1>5
<1>7. ASSUME NEW i \in 1..Len(ss), i + 1 \in 1..Len(ss)
      PROVE  f[i + 1] = f[i] \o ss[i + 1]
  BY <1>6, <1>7, Zenon
<1> QED
  BY <1>4, <1>7

\* FlattenSeq by its partial concatenations.
LEMMA FlattenJoins ==
    ASSUME NEW S, NEW ss \in Seq(Seq(S))
    PROVE  \E f : Joins(ss, f) /\ FlattenSeq(ss) = IF ss = <<>> THEN <<>> ELSE f[Len(ss)]
<1> DEFINE f == CHOOSE f : f = [i \in 1..Len(ss) |-> IF i = 1 THEN ss[i] ELSE f[i - 1] \o ss[i]]
<1>1. Len(ss) \in Nat /\ (Len(ss) = 0 <=> ss = <<>>)
  BY EmptySeq
<1>2. f = [i \in 1..Len(ss) |-> IF i = 1 THEN ss[i] ELSE f[i - 1] \o ss[i]]
  BY <1>1, JoinsExist
<1>3. FlattenSeq(ss) = IF ss = <<>> THEN <<>> ELSE f[Len(ss)]
  BY <1>1 DEF FlattenSeq
<1> HIDE DEF f
<1>4. ss # <<>> => 1 \in 1..Len(ss)
  BY <1>1
<1>5. /\ 1 \in 1..Len(ss) => f[1] = ss[1]
      /\ \A i \in 1..Len(ss) : i + 1 \in 1..Len(ss) => f[i + 1] = f[i] \o ss[i + 1]
  BY <1>1, <1>2, JoinsOf
<1>6. Joins(ss, f)
  BY <1>4, <1>5, Zenon DEF Joins
<1> QED
  BY <1>3, <1>6

LEMMA FlattenType ==
    ASSUME NEW S, NEW ss \in Seq(Seq(S))
    PROVE  FlattenSeq(ss) \in Seq(S)
<1>1. PICK f : Joins(ss, f) /\ FlattenSeq(ss) = IF ss = <<>> THEN <<>> ELSE f[Len(ss)]
  BY FlattenJoins
<1>2. ss # <<>> => Len(ss) \in 1..Len(ss)
  BY EmptySeq
<1> QED
  BY <1>1, <1>2, JoinsType

\* What a sequence more, or one less, does to it.
LEMMA FlattenAppend ==
    ASSUME NEW S, NEW ss \in Seq(Seq(S)), NEW s \in Seq(S)
    PROVE  FlattenSeq(Append(ss, s)) = FlattenSeq(ss) \o s
<1> DEFINE n == Len(ss)
           tt == Append(ss, s)
<1>1. PICK f : Joins(ss, f) /\ FlattenSeq(ss) = IF ss = <<>> THEN <<>> ELSE f[n]
  BY FlattenJoins
<1>2. /\ tt \in Seq(Seq(S)) /\ tt # <<>> /\ Len(tt) = n + 1 /\ tt[n + 1] = s
      /\ n \in Nat /\ \A i \in 1..n : tt[i] = ss[i]
  BY AppendProperties
<1>3. PICK g : Joins(tt, g) /\ FlattenSeq(tt) = g[n + 1]
  BY <1>2, FlattenJoins
<1> HIDE DEF tt
<1> DEFINE P == {i \in Nat : i \in 1..n => g[i] = f[i]}
<1>4. 0 \in P
  OBVIOUS
<1>5. ASSUME NEW i \in Nat, i \in P PROVE i + 1 \in P
  <2> SUFFICES ASSUME i + 1 \in 1..n PROVE g[i + 1] = f[i + 1]
    OBVIOUS
  <2>1. CASE i = 0
    <3>1. ss # <<>> /\ 1 \in 1..n /\ i + 1 = 1
      BY <2>1
    <3>2. f[1] = ss[1] /\ g[1] = tt[1]
      BY <1>1, <1>2, <1>3, <3>1 DEF Joins
    <3> QED
      BY <1>2, <3>1, <3>2
  <2>2. CASE i # 0
    <3>1. i \in 1..n /\ i \in 1..n+1 /\ i + 1 \in 1..n+1
      BY <1>2, <2>2
    <3>2. f[i + 1] = f[i] \o ss[i + 1] /\ g[i + 1] = g[i] \o tt[i + 1]
      BY <1>1, <1>2, <1>3, <3>1 DEF Joins
    <3>3. g[i] = f[i] /\ tt[i + 1] = ss[i + 1]
      BY <1>2, <1>5, <3>1
    <3> QED
      BY <3>2, <3>3
  <2> QED
    BY <2>1, <2>2
<1> HIDE DEF P
<1>6. \A i \in Nat : i \in P
  BY <1>4, <1>5, Induction
<1>7. CASE ss = <<>>
  <2>1. n = 0 /\ n + 1 = 1
    BY <1>7
  <2>2. g[1] = s
    BY <1>2, <1>3, <2>1 DEF Joins
  <2>3. <<>> \o s = s
    BY ConcatEmptySeq
  <2> QED
    BY <1>1, <1>3, <1>7, <2>1, <2>2, <2>3 DEF tt
<1>8. CASE ss # <<>>
  <2>1. n \in 1..n /\ n \in 1..n+1 /\ n + 1 \in 1..n+1
    BY <1>2, <1>8, EmptySeq
  <2>2. g[n + 1] = g[n] \o tt[n + 1]
    BY <1>2, <1>3, <2>1 DEF Joins
  <2>3. g[n] = f[n]
    BY <1>2, <1>6, <2>1 DEF P
  <2> QED
    BY <1>1, <1>2, <1>3, <1>8, <2>2, <2>3 DEF tt
<1> QED
  BY <1>7, <1>8

LEMMA FlattenHead ==
    ASSUME NEW S, NEW ss \in Seq(Seq(S)), ss # <<>>
    PROVE  FlattenSeq(ss) = Head(ss) \o FlattenSeq(Tail(ss))
<1> DEFINE n == Len(ss)
           tt == Tail(ss)
<1>1. PICK f : Joins(ss, f) /\ FlattenSeq(ss) = f[n]
  BY FlattenJoins
<1>2. /\ tt \in Seq(Seq(S)) /\ Len(tt) = n - 1 /\ n \in Nat \ {0}
      /\ \A i \in 1..n-1 : tt[i] = ss[i + 1]
      /\ Head(ss) = ss[1] /\ ss[1] \in Seq(S)
      /\ tt = <<>> <=> n = 1
  <2>1. n \in Nat \ {0}
    BY EmptySeq
  <2>2. ss[1] \in Seq(S) /\ Head(ss) = ss[1]
    BY <2>1, HeadTailProperties
  <2>3. tt \in Seq(Seq(S)) /\ Len(tt) = n - 1 /\ \A i \in 1..n-1 : tt[i] = ss[i + 1]
    BY HeadTailProperties
  <2>4. tt = <<>> <=> n = 1
    <3> HIDE DEF tt
    <3>1. tt = <<>> <=> Len(tt) = 0
      BY <2>3, EmptySeq, Zenon
    <3> QED
      BY <2>1, <2>3, <3>1
  <2> QED
    BY <2>1, <2>2, <2>3, <2>4
<1>3. PICK g : Joins(tt, g) /\ FlattenSeq(tt) = IF tt = <<>> THEN <<>> ELSE g[n - 1]
  BY <1>2, FlattenJoins
<1>4. \A i \in 1..n-1 : g[i] \in Seq(S)
  BY <1>2, <1>3, JoinsType
<1>a. \A i \in 1..n-1 : tt[i] \in Seq(S)
  BY <1>2
<1> HIDE DEF tt
<1> DEFINE P == {i \in Nat : i \in 1..n-1 => f[i + 1] = ss[1] \o g[i]}
<1>5. 0 \in P
  OBVIOUS
<1>6. ASSUME NEW i \in Nat, i \in P, i + 1 \in 1..n-1
      PROVE  f[i + 1 + 1] = ss[1] \o g[i + 1]
  <2>a. i + 1 \in 1..n-1
    BY <1>6, Zenon
  <2>1. i + 1 \in 1..n /\ i + 1 + 1 \in 1..n
    BY <1>2, <2>a
  <2>2. f[i + 1 + 1] = f[i + 1] \o tt[i + 1]
    BY <1>1, <1>2, <2>a, <2>1 DEF Joins
  <2>3. CASE i = 0
    <3>1. tt # <<>> /\ i + 1 = 1
      BY <1>2, <2>a, <2>3
    <3>2. f[1] = ss[1] /\ g[1] = tt[1]
      BY <1>1, <1>3, <3>1 DEF Joins
    <3> QED
      BY <2>2, <3>1, <3>2
  <2>4. CASE i # 0
    <3>1. i \in 1..n-1
      BY <1>2, <2>a, <2>4
    <3>2. g[i + 1] = g[i] \o tt[i + 1] /\ f[i + 1] = ss[1] \o g[i]
      BY <1>2, <1>3, <1>6, <2>a, <3>1 DEF Joins
    <3>3. (ss[1] \o g[i]) \o tt[i + 1] = ss[1] \o (g[i] \o tt[i + 1])
      <4>1. g[i] \in Seq(S) /\ tt[i + 1] \in Seq(S)
        BY <1>4, <1>a, <2>a, <3>1
      <4>2. ss[1] \in Seq(S)
        BY <1>2
      <4> QED
        <5>1. ASSUME NEW a \in Seq(S), NEW b \in Seq(S), NEW c \in Seq(S)
              PROVE  a \o (b \o c) = (a \o b) \o c
          BY Regroup
        <5> QED
          BY <4>1, <4>2, <5>1, Zenon
    <3> QED
      BY <2>2, <3>2, <3>3
  <2> QED
    BY <2>3, <2>4
<1>b. ASSUME NEW i \in Nat, i \in P PROVE i + 1 \in P
  <2>1. i + 1 \in Nat
    OBVIOUS
  <2> QED
    BY <1>6, <1>b, <2>1, Zenon
<1> HIDE DEF P
<1>7. \A i \in Nat : i \in P
  BY <1>5, <1>b, Induction
<1>8. CASE n = 1
  <2>1. f[1] = ss[1]
    BY <1>1 DEF Joins
  <2>2. ss[1] \o <<>> = ss[1]
    BY <1>2, ConcatEmptySeq
  <2> QED
    BY <1>1, <1>2, <1>3, <1>8, <2>1, <2>2 DEF tt
<1>9. CASE n # 1
  <2>1. n - 1 \in 1..n-1 /\ n - 1 + 1 = n
    BY <1>2, <1>9
  <2>2. f[n - 1 + 1] = ss[1] \o g[n - 1]
    <3>1. \A i \in P : i \in 1..n-1 => f[i + 1] = ss[1] \o g[i]
      BY DEF P
    <3>2. n - 1 \in Nat
      BY <1>2
    <3> QED
      BY <1>7, <2>1, <3>1, <3>2, Zenon
  <2> QED
    BY <1>1, <1>2, <1>3, <1>9, <2>1, <2>2 DEF tt
<1> QED
  BY <1>8, <1>9

\* The words of the items of a sequence, W having the word of each item.
Words(W, s) == FlattenSeq([i \in 1..Len(s) |-> W[s[i]]])

LEMMA WordsType ==
    ASSUME NEW T, NEW S, NEW W \in [T -> Seq(S)], NEW s \in Seq(T)
    PROVE  Words(W, s) \in Seq(S)
<1>1. [i \in 1..Len(s) |-> W[s[i]]] \in Seq(Seq(S))
  OBVIOUS
<1> QED
  BY <1>1, FlattenType DEF Words

LEMMA WordsAppend ==
    ASSUME NEW T, NEW S, NEW W \in [T -> Seq(S)], NEW s \in Seq(T), NEW e \in T
    PROVE  Words(W, Append(s, e)) = Words(W, s) \o W[e]
<1> DEFINE n == Len(s)
           ss == [i \in 1..n |-> W[s[i]]]
           tt == [i \in 1..n+1 |-> W[Append(s, e)[i]]]
<1>1. ss \in Seq(Seq(S)) /\ Len(ss) = n /\ n \in Nat /\ W[e] \in Seq(S)
  OBVIOUS
<1>2. /\ Append(s, e) \in Seq(T) /\ Len(Append(s, e)) = n + 1
      /\ Append(s, e)[n + 1] = e /\ \A i \in 1..n : Append(s, e)[i] = s[i]
  BY AppendProperties
<1>3. /\ Append(ss, W[e]) \in Seq(Seq(S)) /\ Len(Append(ss, W[e])) = n + 1
      /\ Append(ss, W[e])[n + 1] = W[e]
      /\ \A i \in 1..n : Append(ss, W[e])[i] = ss[i]
  BY <1>1, AppendProperties
<1>4. tt \in Seq(Seq(S)) /\ Len(tt) = n + 1
  BY <1>1, <1>2
<1>5. \A i \in 1..n+1 : tt[i] = Append(ss, W[e])[i]
  BY <1>1, <1>2, <1>3
<1>6. tt = Append(ss, W[e])
  <2> HIDE DEF ss, tt
  <2> QED
    BY <1>1, <1>3, <1>4, <1>5, SeqEqual
<1>7. FlattenSeq(Append(ss, W[e])) = FlattenSeq(ss) \o W[e]
  <2> HIDE DEF ss
  <2> QED
    BY <1>1, FlattenAppend
<1> QED
  BY <1>2, <1>6, <1>7 DEF Words

LEMMA WordsHead ==
    ASSUME NEW T, NEW S, NEW W \in [T -> Seq(S)], NEW s \in Seq(T), s # <<>>
    PROVE  Words(W, s) = W[Head(s)] \o Words(W, Tail(s))
<1> DEFINE n == Len(s)
           ss == [i \in 1..n |-> W[s[i]]]
           tt == [i \in 1..n-1 |-> W[Tail(s)[i]]]
<1>1. n \in Nat \ {0}
  BY EmptySeq
<1>2. ss \in Seq(Seq(S)) /\ Len(ss) = n
  OBVIOUS
<1>a. ss # <<>>
  <2> HIDE DEF ss
  <2> QED
    BY <1>1, <1>2, EmptySeq
<1>3. /\ Tail(s) \in Seq(T) /\ Len(Tail(s)) = n - 1 /\ Head(s) = s[1]
      /\ \A i \in 1..n-1 : Tail(s)[i] = s[i + 1]
  BY HeadTailProperties
<1>4. /\ Tail(ss) \in Seq(Seq(S)) /\ Len(Tail(ss)) = n - 1 /\ Head(ss) = ss[1]
      /\ \A i \in 1..n-1 : Tail(ss)[i] = ss[i + 1]
  <2> HIDE DEF ss
  <2> QED
    BY <1>2, <1>a, HeadTailProperties
<1>5. tt \in Seq(Seq(S)) /\ Len(tt) = n - 1
  BY <1>1, <1>3
<1>6. \A i \in 1..n-1 : tt[i] = Tail(ss)[i]
  BY <1>1, <1>3, <1>4
<1>7. tt = Tail(ss)
  <2> HIDE DEF ss, tt
  <2> QED
    BY <1>4, <1>5, <1>6, SeqEqual
<1>8. Head(ss) = W[Head(s)]
  BY <1>1, <1>3, <1>4
<1>9. FlattenSeq(ss) = Head(ss) \o FlattenSeq(Tail(ss))
  <2> HIDE DEF ss
  <2> QED
    BY <1>2, <1>a, FlattenHead
<1> QED
  BY <1>3, <1>7, <1>8, <1>9 DEF Words
-----------------------------------------------------------------------------
(* The events on their way.                                                *)

\* A user's step appends events to the stream.
LEMMA EmitAppends ==
    ASSUME InputTypeOK, NEW events \in Seq(InputEvent), Emit(events)
    PROVE  /\ emitted' \in Seq(InputEvent) /\ Len(emitted') <= MaxEmitted
           /\ Stream' = Stream \o events
<1> USE DEF InputTypeOK
<1>1. emitted' = emitted \o events /\ queue' = queue /\ delivering' = delivering
  BY DEF Emit
<1>2. emitted' \in Seq(InputEvent) /\ Len(emitted') <= MaxEmitted
  BY <1>1, ConcatProperties DEF Emit
<1>3. Stream' = (queue \o delivering) \o (emitted \o events)
  BY <1>1 DEF Stream
<1>4. queue \o delivering \in Seq(InputEvent)
  OBVIOUS
<1>5. (queue \o delivering) \o (emitted \o events)
      = ((queue \o delivering) \o emitted) \o events
  <2> DEFINE waiting == queue \o delivering
  <2>1. waiting \in Seq(InputEvent)
    BY <1>4
  <2> HIDE DEF waiting
  <2>2. waiting \o (emitted \o events) = (waiting \o emitted) \o events
    BY <2>1, Regroup, SMTT(60)
  <2> QED
    BY <2>2 DEF waiting
<1> QED
  BY <1>2, <1>3, <1>5 DEF Stream

\* What the input service emits for a step of the user.
LEMMA UserEmits ==
    ASSUME InputTypeOK, User
    PROVE  /\ \E events \in Seq(InputEvent) : Emit(events)
           /\ down' \subseteq Buttons /\ longed' \subseteq down'
<1> PICK b \in Buttons :
      PressButton(b) \/ HoldButton(b) \/ RepeatButton(b) \/ ReleaseButton(b)
  BY DEF User
<1>1. /\ <<Event(b, "Press")>> \in Seq(InputEvent)
      /\ <<Event(b, "Long")>> \in Seq(InputEvent)
      /\ <<Event(b, "Repeat")>> \in Seq(InputEvent)
      /\ <<Event(b, "Release")>> \in Seq(InputEvent)
      /\ <<Event(b, "Short"), Event(b, "Release")>> \in Seq(InputEvent)
  BY EventType DEF Types
<1>2. \/ Emit(<<Event(b, "Press")>>) \/ Emit(<<Event(b, "Long")>>)
      \/ Emit(<<Event(b, "Repeat")>>) \/ Emit(<<Event(b, "Release")>>)
      \/ Emit(<<Event(b, "Short"), Event(b, "Release")>>)
  BY DEF PressButton, HoldButton, RepeatButton, ReleaseButton
<1>3. down' \subseteq Buttons /\ longed' \subseteq down'
  BY DEF InputTypeOK, PressButton, HoldButton, RepeatButton, ReleaseButton, user
<1> QED
  BY ONLY <1>1, <1>2, <1>3

LEMMA UserType == ASSUME InputTypeOK, User PROVE InputTypeOK'
<1> PICK events \in Seq(InputEvent) : Emit(events)
  BY UserEmits
<1> QED
  BY UserEmits, EmitAppends DEF InputTypeOK, Emit

\* The GUI passes events on and loses none while the view port is shown.
LEMMA GuiKeeps ==
    ASSUME InputTypeOK, GuiThread
    PROVE  InputTypeOK' /\ (shown => Stream' = Stream)
<1> USE DEF InputTypeOK, user
<1>1. CASE TakeEvent
  <2>1. /\ Head(emitted) \in InputEvent /\ Tail(emitted) \in Seq(InputEvent)
        /\ Len(Tail(emitted)) = Len(emitted) - 1
    BY <1>1, HeadTailProperties DEF TakeEvent
  <2>2. InputTypeOK'
    BY <1>1, <2>1 DEF TakeEvent
  <2>3. ASSUME shown PROVE Stream' = Stream
    <3>1. Stream' = (queue \o <<Head(emitted)>>) \o Tail(emitted)
      BY <1>1, <2>3 DEF TakeEvent, Stream
    <3>2. Stream = queue \o emitted
      BY <1>1, ConcatEmptySeq DEF TakeEvent, Stream
    <3>3. emitted = <<Head(emitted)>> \o Tail(emitted)
      BY <1>1, <2>1 DEF TakeEvent
    <3> QED
      BY <2>1, <3>1, <3>2, <3>3, ConcatAssociative
  <2> QED
    BY <2>2, <2>3
<1>2. CASE InputCallback
  <2>1. queue \o delivering \in Seq(InputEvent)
        /\ Len(queue \o delivering) = Len(queue) + Len(delivering)
    BY ConcatProperties
  <2>2. InputTypeOK'
    BY <1>2, <2>1 DEF InputCallback
  <2>3. Stream' = Stream
    BY <1>2, <2>1, ConcatEmptySeq DEF InputCallback, Stream
  <2> QED
    BY <2>2, <2>3
<1> QED
  BY <1>1, <1>2 DEF GuiThread

\* The app takes the first of them.
LEMMA GetTakesFirst ==
    ASSUME InputTypeOK, GetEvent
    PROVE  /\ InputTypeOK' /\ UNCHANGED <<down, longed, shown>>
           /\ Stream # <<>> /\ Head(queue) = Stream[1]
           /\ Stream' = Tail(Stream)
<1> USE DEF InputTypeOK, GetEvent, user
<1>1. /\ Head(queue) \in InputEvent /\ Tail(queue) \in Seq(InputEvent)
      /\ Len(Tail(queue)) = Len(queue) - 1
  BY HeadTailProperties
<1>2. delivering \o emitted \in Seq(InputEvent)
  OBVIOUS
<1>3. Stream = queue \o (delivering \o emitted)
  BY ConcatAssociative DEF Stream
<1>4. Stream' = Tail(queue) \o (delivering \o emitted)
  <2>1. Stream' = (Tail(queue) \o delivering) \o emitted
    BY DEF Stream
  <2>2. (Tail(queue) \o delivering) \o emitted
        = Tail(queue) \o (delivering \o emitted)
    BY ONLY <1>1, delivering \in Seq(InputEvent), emitted \in Seq(InputEvent),
       ConcatAssociative
  <2> QED
    BY <2>1, <2>2
<1>5. Stream # <<>> /\ Stream[1] = Head(queue)
  BY <1>2, <1>3, ConcatProperties
<1>6. Tail(queue \o (delivering \o emitted)) = Tail(queue) \o (delivering \o emitted)
  BY <1>1, <1>2
<1>7. InputTypeOK'
  BY <1>1
<1> QED
  BY <1>3, <1>4, <1>5, <1>6, <1>7

LEMMA RemoveType == ASSUME InputTypeOK, GuiRemoveViewPort PROVE InputTypeOK'
  BY DEF InputTypeOK, GuiRemoveViewPort, user

LEMMA InputStutters ==
    ASSUME InputTypeOK, UNCHANGED input
    PROVE  InputTypeOK' /\ Stream' = Stream /\ UNCHANGED <<down, longed, shown>>
  BY DEF InputTypeOK, input, user, Stream
-----------------------------------------------------------------------------
(* Presses and releases.                                                   *)

\* A button is held, or its release is on the way.
Held(b) == b \in down \/ Event(b, "Release") \in Underway

\* Every press on the way is of such a button, its release behind it.
Answered ==
    \A i \in 1..Len(Stream) :
        Stream[i].type = "Press" =>
            \/ Stream[i].key \in down
            \/ \E j \in i+1..Len(Stream) :
                  Stream[j] = Event(Stream[i].key, "Release")

LEMMA InitAnswered == InputInit => Answered
<1> SUFFICES ASSUME InputInit PROVE Answered
  OBVIOUS
<1>1. Len(Stream) = 0
  BY InitInput
<1> QED
  BY <1>1 DEF Answered

\* Events appended, none of them a press of a button that is up afterwards, and
\* with a release for each button that goes up.
LEMMA AppendHeld ==
    ASSUME InputTypeOK, InputTypeOK', NEW events \in Seq(InputEvent),
           Stream' = Stream \o events, Answered,
           \A i \in 1..Len(events) :
              events[i].type = "Press" => events[i].key \in down',
           \A b \in down \ down' : events[Len(events)] = Event(b, "Release"),
           down \ down' # {} => Len(events) > 0
    PROVE  Answered' /\ \A b : Held(b) => Held(b)'
<1> DEFINE n == Len(Stream)
           m == Len(events)
<1>1. /\ Stream \in Seq(InputEvent) /\ Stream' \in Seq(InputEvent)
      /\ n \in Nat /\ m \in Nat /\ Len(Stream') = n + m
      /\ \A i \in 1..n : i \in 1..n+m /\ Stream'[i] = Stream[i]
      /\ \A i \in n+1..n+m : i - n \in 1..m /\ Stream'[i] = events[i - n]
  BY StreamType, ConcatProperties
<1>2. \A b \in down \ down' : n + m > n /\ Stream'[n + m] = Event(b, "Release")
  <2> SUFFICES ASSUME NEW b \in down \ down'
               PROVE  n + m > n /\ Stream'[n + m] = Event(b, "Release")
    OBVIOUS
  <2>1. m > 0 /\ events[m] = Event(b, "Release")
    OBVIOUS
  <2>2. n + m \in n+1..n+m /\ n + m - n = m
    BY <1>1, <2>1
  <2> QED
    BY <1>1, <2>1, <2>2
<1>3. Answered'
  <2> SUFFICES ASSUME NEW i \in 1..n+m, Stream'[i].type = "Press"
               PROVE  \/ Stream'[i].key \in down'
                      \/ \E j \in i+1..n+m :
                            Stream'[j] = Event(Stream'[i].key, "Release")
    BY <1>1 DEF Answered, Event
  <2>1. CASE i \in n+1..n+m
    BY <1>1, <2>1
  <2>2. CASE i \in 1..n
    <3>1. \/ Stream[i].key \in down
          \/ \E j \in i+1..n : Stream[j] = Event(Stream[i].key, "Release")
      BY <1>1, <2>2 DEF Answered
    <3>2. CASE Stream[i].key \in down'
      BY <1>1, <2>2, <3>2
    <3>3. CASE Stream[i].key \in down \ down'
      <4>1. n + m \in i+1..n+m
        BY <1>1, <1>2, <2>2, <3>3
      <4> QED
        BY <1>1, <1>2, <2>2, <3>3, <4>1
    <3>4. CASE \E j \in i+1..n : Stream[j] = Event(Stream[i].key, "Release")
      <4>1. PICK j \in i+1..n : Stream[j] = Event(Stream[i].key, "Release")
        BY <3>4
      <4>2. j \in 1..n /\ j \in i+1..n+m
        BY <1>1, <2>2
      <4> QED
        BY <1>1, <2>2, <4>1, <4>2
    <3> QED
      BY <3>1, <3>2, <3>3, <3>4
  <2> QED
    BY <1>1, <2>1, <2>2
<1>4. ASSUME NEW b, Held(b) PROVE Held(b)'
  <2>1. CASE b \in down'
    BY <2>1 DEF Held
  <2>2. CASE b \in down \ down'
    <3>1. n + m \in 1..n+m
      BY <1>1, <1>2, <2>2
    <3>2. Event(b, "Release") \in Underway'
      BY <1>1, <1>2, <2>2, <3>1, UnderwayIs DEF Underway, Event
    <3> QED
      BY <3>2 DEF Held, Event
  <2>3. CASE Event(b, "Release") \in Underway
    <3>1. PICK i \in 1..n : Stream[i] = Event(b, "Release")
      BY <2>3, UnderwayIs
    <3>2. i \in DOMAIN Stream' /\ Stream'[i] = Event(b, "Release")
      BY <1>1, <3>1, LenProperties
    <3>3. Event(b, "Release") \in Underway'
      BY <3>2 DEF Underway
    <3> QED
      BY <3>3 DEF Held, Event
  <2> QED
    BY <1>4, <2>1, <2>2, <2>3 DEF Held
<1> QED
  BY <1>3, <1>4

\* What the user does keeps all this.
LEMMA UserHeld ==
    ASSUME InputTypeOK, Answered, User
    PROVE  Answered' /\ \A b : Held(b) => Held(b)'
<1> PICK b \in Buttons :
      PressButton(b) \/ HoldButton(b) \/ RepeatButton(b) \/ ReleaseButton(b)
  BY DEF User
<1> DEFINE Goal == Answered' /\ \A c : Held(c) => Held(c)'
<1>0. InputTypeOK'
  BY UserType
<1>1. \A t \in Types : Event(b, t) \in InputEvent /\ Event(b, t).type = t /\ Event(b, t).key = b
  BY EventType DEF Event
<1>2. ASSUME NEW t \in Types, Emit(<<Event(b, t)>>), t = "Press" => b \in down',
             down \subseteq down'
      PROVE  Goal
  <2>1. <<Event(b, t)>> \in Seq(InputEvent)
    BY <1>1
  <2>2. Stream' = Stream \o <<Event(b, t)>>
    BY <1>2, <2>1, EmitAppends
  <2>3. \A i \in 1..Len(<<Event(b, t)>>) :
           <<Event(b, t)>>[i].type = "Press" => <<Event(b, t)>>[i].key \in down'
    BY <1>1, <1>2
  <2> QED
    BY <1>0, <1>2, <2>1, <2>2, <2>3, AppendHeld
<1>3. CASE PressButton(b)
  BY <1>2, <1>3 DEF PressButton, Types
<1>4. CASE HoldButton(b) \/ RepeatButton(b)
  BY <1>2, <1>4 DEF HoldButton, RepeatButton, Types, user
<1>5. CASE ReleaseButton(b)
  <2>1. PICK events \in {<<Event(b, "Release")>>,
                         <<Event(b, "Short"), Event(b, "Release")>>} : Emit(events)
    BY <1>5 DEF ReleaseButton
  <2>2. /\ events \in Seq(InputEvent) /\ Len(events) > 0
        /\ events[Len(events)] = Event(b, "Release")
        /\ \A i \in 1..Len(events) : events[i].type # "Press"
    <3>1. CASE events = <<Event(b, "Release")>>
      BY <1>1, <3>1 DEF Types
    <3>2. CASE events = <<Event(b, "Short"), Event(b, "Release")>>
      BY <1>1, <3>2 DEF Types
    <3> QED
      BY <2>1, <3>1, <3>2
  <2>3. down \ down' \subseteq {b}
    BY <1>5 DEF ReleaseButton
  <2>4. Stream' = Stream \o events
    BY <2>1, <2>2, EmitAppends
  <2> QED
    BY <1>0, <2>2, <2>3, <2>4, AppendHeld
<1> QED
  BY <1>3, <1>4, <1>5

\* Taking an event loses at most the release taken.
LEMMA GetHeld ==
    ASSUME InputTypeOK, Answered, GetEvent
    PROVE  /\ Answered'
           /\ \A b : Held(b) /\ Head(queue) # Event(b, "Release") => Held(b)'
           /\ \A b : Head(queue) = Event(b, "Press") => Held(b)'
<1> DEFINE n == Len(Stream)
<1>1. /\ Stream # <<>> /\ Head(queue) = Stream[1] /\ Stream' = Tail(Stream)
      /\ down' = down /\ InputTypeOK'
  BY GetTakesFirst
<1>2. /\ Stream \in Seq(InputEvent) /\ n \in Nat \ {0} /\ Len(Stream') = n - 1
      /\ \A i \in 1..n-1 : i + 1 \in 2..n /\ Stream'[i] = Stream[i + 1]
      /\ \A i \in 2..n : i - 1 \in 1..n-1 /\ Stream'[i - 1] = Stream[i]
  BY <1>1, StreamType, HeadTailProperties, EmptySeq
<1>3. Answered'
  <2> SUFFICES ASSUME NEW i \in 1..n-1, Stream'[i].type = "Press",
                      Stream'[i].key \notin down
               PROVE  \E j \in i+1..n-1 :
                         Stream'[j] = Event(Stream'[i].key, "Release")
    BY <1>1, <1>2 DEF Answered, Event
  <2>1. PICK j \in i+1+1..n : Stream[j] = Event(Stream[i + 1].key, "Release")
    BY <1>2 DEF Answered
  <2>2. j - 1 \in i+1..n-1 /\ j \in 2..n
    BY <1>2
  <2> QED
    BY <1>2, <2>1, <2>2
<1>4. ASSUME NEW e, NEW i \in 2..n, Stream[i] = e PROVE e \in Underway'
  <2>1. DOMAIN Stream' = 1..n-1
    BY <1>1, <1>2, HeadTailProperties, LenProperties
  <2>2. i - 1 \in DOMAIN Stream' /\ Stream'[i - 1] = e
    BY <1>2, <1>4, <2>1
  <2> QED
    BY <2>2 DEF Underway
<1>5. ASSUME NEW b, Held(b), Head(queue) # Event(b, "Release") PROVE Held(b)'
  <2>1. CASE b \in down
    BY <1>1, <2>1 DEF Held
  <2>2. CASE Event(b, "Release") \in Underway
    <3>1. PICK i \in 1..n : Stream[i] = Event(b, "Release")
      BY <2>2, UnderwayIs
    <3>2. i \in 2..n
      BY <1>1, <1>2, <1>5, <3>1
    <3>3. Event(b, "Release") \in Underway'
      BY <1>4, <3>1, <3>2
    <3> QED
      BY <3>3 DEF Held, Event
  <2> QED
    BY <1>5, <2>1, <2>2 DEF Held
<1>6. ASSUME NEW b, Head(queue) = Event(b, "Press") PROVE Held(b)'
  <2>1. 1 \in 1..n /\ Stream[1].type = "Press" /\ Stream[1].key = b
    BY <1>1, <1>2, <1>6 DEF Event
  <2>2. CASE b \in down
    BY <1>1, <2>2 DEF Held
  <2>3. CASE \E j \in 2..n : Stream[j] = Event(b, "Release")
    <3>1. Event(b, "Release") \in Underway'
      BY <1>4, <2>3
    <3> QED
      BY <3>1 DEF Held, Event
  <2> QED
    BY <2>1, <2>2, <2>3 DEF Answered
<1> QED
  BY <1>3, <1>5, <1>6

\* A step that keeps the stream and the buttons keeps all this.
LEMMA SameHeld ==
    ASSUME Stream' = Stream, down' = down
    PROVE  (Answered => Answered') /\ \A b : Held(b) => Held(b)'
  BY DEF Answered, Held, Underway, Event
-----------------------------------------------------------------------------
(* What the events on their way stand for.                                 *)

LEMMA InitWords == ASSUME NEW W, InputInit PROVE Words(W, Stream) = <<>>
<1>1. Len(Stream) = 0
  BY InitInput
<1>2. [i \in 1..Len(Stream) |-> W[Stream[i]]] = <<>>
  BY <1>1
<1> QED
  BY <1>2 DEF Words, FlattenSeq

\* The user's steps put their words behind, those of a click before its release.
LEMMA UserWords ==
    ASSUME InputTypeOK, NEW S, NEW W \in [InputEvent -> Seq(S)], User
    PROVE  \E b \in Buttons :
              LET words == Words(W, Stream)
              IN  \/ /\ PressButton(b)
                     /\ Words(W, Stream') = words \o W[Event(b, "Press")]
                  \/ /\ HoldButton(b)
                     /\ Words(W, Stream') = words \o W[Event(b, "Long")]
                  \/ /\ RepeatButton(b)
                     /\ Words(W, Stream') = words \o W[Event(b, "Repeat")]
                  \/ /\ ReleaseButton(b) /\ b \in longed
                     /\ Words(W, Stream') = words \o W[Event(b, "Release")]
                  \/ /\ ReleaseButton(b) /\ b \notin longed
                     /\ Words(W, Stream') = (words \o W[Event(b, "Short")])
                                            \o W[Event(b, "Release")]
<1> PICK b \in Buttons :
      PressButton(b) \/ HoldButton(b) \/ RepeatButton(b) \/ ReleaseButton(b)
  BY DEF User
<1>1. \A t \in Types : Event(b, t) \in InputEvent
  BY EventType
<1>2. Stream \in Seq(InputEvent)
  BY StreamType
<1>3. ASSUME NEW e \in InputEvent, Emit(<<e>>)
      PROVE  Words(W, Stream') = Words(W, Stream) \o W[e]
  <2>1. <<e>> \in Seq(InputEvent)
    OBVIOUS
  <2>2. Stream' = Stream \o <<e>>
    BY <1>3, <2>1, EmitAppends
  <2>3. Stream \o <<e>> = Append(Stream, e)
    BY <1>2
  <2> QED
    BY <1>2, <2>2, <2>3, WordsAppend
<1>4. ASSUME NEW d \in InputEvent, NEW e \in InputEvent, Emit(<<d, e>>)
      PROVE  Words(W, Stream') = (Words(W, Stream) \o W[d]) \o W[e]
  <2>1. <<d, e>> \in Seq(InputEvent)
    OBVIOUS
  <2>2. Stream' = Stream \o <<d, e>>
    BY <1>4, <2>1, EmitAppends
  <2>3. /\ Append(Stream, d) \in Seq(InputEvent)
        /\ Stream \o <<d, e>> = Append(Append(Stream, d), e)
    BY <1>2
  <2>4. /\ Words(W, Append(Stream, d)) = Words(W, Stream) \o W[d]
        /\ Words(W, Append(Append(Stream, d), e)) = Words(W, Append(Stream, d)) \o W[e]
    BY <1>2, <2>3, WordsAppend
  <2> QED
    BY <2>2, <2>3, <2>4
<1>5. CASE PressButton(b)
  BY <1>1, <1>3, <1>5, Zenon DEF PressButton, Types
<1>6. CASE HoldButton(b)
  BY <1>1, <1>3, <1>6, Zenon DEF HoldButton, Types
<1>7. CASE RepeatButton(b)
  BY <1>1, <1>3, <1>7, Zenon DEF RepeatButton, Types
<1>8. CASE ReleaseButton(b) /\ b \in longed
  BY <1>1, <1>3, <1>8, Zenon DEF ReleaseButton, Types
<1>9. CASE ReleaseButton(b) /\ b \notin longed
  BY <1>1, <1>4, <1>9, Zenon DEF ReleaseButton, Types
<1> QED
  BY <1>5, <1>6, <1>7, <1>8, <1>9, Zenon

\* The app takes the words in front.
LEMMA GetWords ==
    ASSUME InputTypeOK, NEW S, NEW W \in [InputEvent -> Seq(S)], GetEvent
    PROVE  /\ Words(W, Stream) = W[Head(queue)] \o Words(W, Stream')
           /\ W[Head(queue)] \in Seq(S) /\ Words(W, Stream') \in Seq(S)
<1>1. /\ Stream # <<>> /\ Head(queue) = Stream[1] /\ Stream' = Tail(Stream)
      /\ InputTypeOK'
  BY GetTakesFirst
<1>2. Stream \in Seq(InputEvent) /\ Stream' \in Seq(InputEvent)
  BY <1>1, StreamType, HeadTailProperties
<1>3. Stream[1] \in InputEvent /\ Head(Stream) = Stream[1]
  BY <1>1, <1>2, HeadTailProperties, EmptySeq
<1> QED
  BY <1>1, <1>2, <1>3, WordsHead, WordsType
=============================================================================
