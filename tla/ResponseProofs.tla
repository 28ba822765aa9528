--------------------------- MODULE ResponseProofs ---------------------------
(***************************************************************************)
(* Theorems about Response, for every set of pieces and every number of    *)
(* writes and servings: what is served of a body is what was given to it.  *)
(***************************************************************************)
EXTENDS Response, Integers, FiniteSetTheorems, SequenceTheorems, WellFoundedInduction, TLAPS

\* What a body may consist of.
Chars == UNION {Range(p) : p \in BodyPieces}

BodyTyped(b) == b \in [kind : Kinds, data : Seq(Chars), at : Nat, eof : BOOLEAN]

\* The same characters, each as often, in any order.
SameChars(s, t) == \A c \in Chars : Count(s, c) = Count(t, c)

\* What body b has of the characters g given to it since it was emptied: a
\* text has them in order, bytes have them all, what a stream has not been
\* asked for yet is among them.
Keeps(b, g) ==
    /\ b.kind = "nothing" => b = NoBody /\ g = <<>>
    /\ b.kind = "text" => b.data = g
    /\ b.kind = "cstream" => SameChars(b.data, g)
    /\ b.kind = "stream" => /\ b.at <= Len(b.data)
                            /\ \A i \in b.at + 1 .. Len(b.data) : b.data[i] \in Range(g)

\* Bytes have an index only when some of them were read, and one beyond
\* their size only when they were cleared: t is what was done to body b.
ReadFirst(b, t) ==
    b.kind = "cstream" => /\ b.at > 0 => "read" \in t
                          /\ b.at > Len(b.data) => "clear" \in t

ResponseTyped == BodyTyped(body) /\ given \in Seq(Chars) /\ served \in Nat

ResponseInv ==
    /\ ResponseTyped
    /\ Keeps(body, given)
    /\ ReadFirst(body, through)
    /\ body.kind # "nothing" => body.kind \in through
    /\ "add" \notin through => lengths = <<>>

-----------------------------------------------------------------------------
\* The numbers ordered by <, as a set of pairs.
Below == {ss \in Nat \X Nat : ss[1] < ss[2]}

\* A set of numbers that is not empty has a least member: the first place a
\* search finds (stream extraction).
LEMMA LeastMember ==
    ASSUME NEW T \in SUBSET Nat, T # {}
    PROVE  \E x \in T : \A y \in T : x <= y
<1>1. IsWellFoundedOn(Below, Nat)
  BY NatLessThanWellFounded DEF OpToRel, Below
<1>2. PICK x \in T : \A y \in T : ~(<<y, x>> \in Below)
  BY <1>1, WFMin
<1>3. ASSUME NEW y \in T PROVE x <= y
  <2>1. x \in Nat /\ y \in Nat
    OBVIOUS
  <2>2. <<y, x>> \in Below <=> y < x
    BY <2>1 DEF Below
  <2>3. ~(y < x)
    BY <1>2, <2>2
  <2>4. QED
    BY <2>1, <2>3
<1>4. QED
  BY <1>3

\* A set of numbers with 0 and, with each number, the next one is all of Nat.
LEMMA Counting ==
    ASSUME NEW G \in SUBSET Nat, 0 \in G, \A n \in G : n + 1 \in G
    PROVE  G = Nat
<1>1. SUFFICES ASSUME Nat \ G # {} PROVE FALSE
  OBVIOUS
<1>2. PICK x \in Nat \ G : \A y \in Nat \ G : x <= y
  BY <1>1, LeastMember
<1>3. x \in Nat \ {0}
  OBVIOUS
<1>4. x - 1 \in G
  BY <1>2, <1>3
<1>5. (x - 1) + 1 \in G
  BY <1>4
<1> QED
  BY <1>3, <1>5

\* The same up to a bound.
LEMMA CountingTo ==
    ASSUME NEW N \in Nat, NEW G, 0 \in G, \A n \in 0 .. N - 1 : n \in G => n + 1 \in G
    PROVE  0 .. N \subseteq G
<1> DEFINE H == {n \in Nat : n <= N => n \in G}
<1>1. 0 \in H /\ \A n \in H : n + 1 \in H
  OBVIOUS
<1>2. H \in SUBSET Nat
  OBVIOUS
<1> HIDE DEF H
<1>3. H = Nat
  BY <1>1, <1>2, Counting
<1> QED
  BY <1>3 DEF H

\* The states of a loop of N turns from s0, whose turn n takes s to F[n][s].
TurnsOf(N, S, s0, F) == {f \in [0 .. N -> S] : f[0] = s0 /\ \A n \in 1 .. N : f[n] = F[n][f[n - 1]]}

\* Such a loop has its states.
LEMMA TurnsExist ==
    ASSUME NEW N \in Nat, NEW S, NEW s0 \in S, NEW F \in [1 .. N -> [S -> S]]
    PROVE  \E f : f \in TurnsOf(N, S, s0, F)
<1> DEFINE Run(m, f) == f \in [0 .. m -> S] /\ f[0] = s0 /\ \A n \in 1 .. m : f[n] = F[n][f[n - 1]]
           G == {m \in 0 .. N : \E f : Run(m, f)}
<1>1. 0 \in G
  <2> DEFINE g == [n \in 0 .. 0 |-> s0]
  <2>1. Run(0, g)
    OBVIOUS
  <2> HIDE DEF g, Run
  <2> QED
    BY <2>1
<1>2. ASSUME NEW m \in 0 .. N - 1, m \in G PROVE m + 1 \in G
  <2>1. PICK f : Run(m, f)
    BY <1>2
  <2> DEFINE g == [n \in 0 .. m + 1 |-> IF n = m + 1 THEN F[m + 1][f[m]] ELSE f[n]]
  <2>2. F[m + 1][f[m]] \in S
    BY <2>1
  <2>3. g \in [0 .. m + 1 -> S]
    BY <2>1, <2>2
  <2>4. g[0] = s0
    BY <2>1
  <2>5. ASSUME NEW n \in 1 .. m + 1 PROVE g[n] = F[n][g[n - 1]]
    BY <2>1
  <2>6. Run(m + 1, g)
    BY <2>3, <2>4, <2>5
  <2> HIDE DEF Run, g
  <2> QED
    BY <2>6
<1> HIDE DEF G
<1>3. 0 .. N \subseteq G
  BY <1>1, <1>2, CountingTo
<1>4. N \in G
  BY <1>3
<1>5. PICK f : Run(N, f)
  BY <1>4 DEF G
<1>6. f \in TurnsOf(N, S, s0, F)
  BY <1>5 DEF TurnsOf
<1> QED
  BY <1>6

\* Pieces are sequences of characters that are not empty.
LEMMA Pieces == \A p \in BodyPieces : p \in Seq(Chars)
<1>1. SUFFICES ASSUME NEW p \in BodyPieces PROVE p \in Seq(Chars)
  OBVIOUS
<1>2. p \in Seq(Range(p)) /\ Range(p) \subseteq Chars
  BY ResponseAssumption DEF Chars
<1>3. QED
  BY <1>2, SeqMonotonic

\* Counting in two sequences one after the other.
LEMMA CountConcat ==
    ASSUME NEW s \in Seq(Chars), NEW t \in Seq(Chars), NEW c
    PROVE  /\ Count(s, c) \in Nat
           /\ Count(t, c) \in Nat
           /\ Count(s \o t, c) = Count(s, c) + Count(t, c)
<1> DEFINE S == {i \in 1 .. Len(s) : s[i] = c}
           T == {i \in 1 .. Len(t) : t[i] = c}
           U == {i \in Len(s) + 1 .. Len(s) + Len(t) : (s \o t)[i] = c}
<1>1. Count(s, c) = Cardinality(S) /\ Count(t, c) = Cardinality(T)
  <2>1. {i \in DOMAIN s : s[i] = c} = S /\ {i \in DOMAIN t : t[i] = c} = T
    BY LenProperties
  <2>2. QED
    BY <2>1 DEF Count
<1>2. Count(s \o t, c) = Cardinality(S \cup U)
  <2>1. DOMAIN (s \o t) = 1 .. Len(s) + Len(t)
    BY ConcatProperties, LenProperties
  <2>2. {i \in DOMAIN (s \o t) : (s \o t)[i] = c} = S \cup U
    BY <2>1, ConcatProperties
  <2>3. QED
    BY <2>2 DEF Count
<1>3. IsFiniteSet(S) /\ IsFiniteSet(T) /\ IsFiniteSet(U)
  <2>1. IsFiniteSet(1 .. Len(s)) /\ IsFiniteSet(1 .. Len(t)) /\ IsFiniteSet(Len(s) + 1 .. Len(s) + Len(t))
    BY FS_Interval
  <2>2. QED
    BY <2>1, FS_Subset
<1>4. Cardinality(U) = Cardinality(T)
  <2> DEFINE f == [i \in T |-> i + Len(s)]
  <2>1. \A i \in T : i + Len(s) \in U
    BY ConcatProperties
  <2>2. \A u \in U : u - Len(s) \in T /\ u = (u - Len(s)) + Len(s)
    BY ConcatProperties
  <2>3. f \in Bijection(T, U)
    <3>1. f \in [T -> U]
      BY <2>1
    <3>2. \A i, j \in T : f[i] = f[j] => i = j
      OBVIOUS
    <3>3. \A u \in U : \E i \in T : f[i] = u
      BY <2>2
    <3>4. QED
      BY <3>1, <3>2, <3>3 DEF Bijection, Injection, Surjection, IsInjective
  <2> HIDE DEF S, T, U, f
  <2>4. QED
    BY <2>3, <1>3, FS_Bijection DEF ExistsBijection
<1>5. S \cap U = {}
  OBVIOUS
<1>6. Cardinality(S \cup U) = Cardinality(S) + Cardinality(U)
  <2>1. Cardinality(S \cup U) = Cardinality(S) + Cardinality(U) - Cardinality(S \cap U)
    BY <1>3, FS_Union
  <2>2. Cardinality(S \cap U) = 0
    BY <1>5, FS_EmptySet
  <2>3. Cardinality(S) \in Nat /\ Cardinality(U) \in Nat
    BY <1>3, FS_CardinalityType
  <2> HIDE DEF S, U
  <2>4. QED
    BY <2>1, <2>2, <2>3
<1>7. QED
  BY <1>1, <1>2, <1>3, <1>4, <1>6, FS_CardinalityType

\* A character is in a text that has it more than zero times.
LEMMA CountPositive ==
    ASSUME NEW s \in Seq(Chars), NEW c
    PROVE  c \in Range(s) <=> Count(s, c) # 0
<1> DEFINE S == {i \in DOMAIN s : s[i] = c}
<1>1. IsFiniteSet(S)
  <2>1. IsFiniteSet(1 .. Len(s)) /\ DOMAIN s = 1 .. Len(s)
    BY FS_Interval
  <2>2. QED
    BY <2>1, FS_Subset
<1>2. Cardinality(S) = 0 <=> S = {}
  BY <1>1, FS_EmptySet
<1>3. c \in Range(s) <=> S # {}
  BY DEF Range
<1>4. QED
  BY <1>2, <1>3 DEF Count

\* What was written in front of the rest has the same characters as what was
\* written behind it (cstream puts new bytes first).
LEMMA InFront ==
    ASSUME NEW d \in Seq(Chars), NEW g \in Seq(Chars), NEW p \in Seq(Chars), SameChars(d, g)
    PROVE  SameChars(p \o d, g \o p)
<1>1. ASSUME NEW c \in Chars PROVE Count(p \o d, c) = Count(g \o p, c)
  <2>1. Count(p \o d, c) = Count(p, c) + Count(d, c) /\ Count(p, c) \in Nat /\ Count(d, c) \in Nat
    BY CountConcat
  <2>2. Count(g \o p, c) = Count(g, c) + Count(p, c)
    BY CountConcat
  <2>3. Count(d, c) = Count(g, c)
    BY DEF SameChars
  <2>4. QED
    BY <2>1, <2>2, <2>3
<1>2. QED
  BY <1>1 DEF SameChars

\* The bounds of the next word of a stream: within what has not been read.
LEMMA WordBounds ==
    ASSUME NEW b, BodyTyped(b), b.at <= Len(b.data)
    PROVE  /\ WordEnds(b)[1] \in b.at + 1 .. Len(b.data) + 1
           /\ WordEnds(b)[2] \in WordEnds(b)[1] .. Len(b.data) + 1
<1> DEFINE starts == {i \in b.at + 1 .. Len(b.data) : b.data[i] # Blank}
           start == IF starts = {} THEN Len(b.data) + 1 ELSE CHOOSE i \in starts : \A j \in starts : i <= j
           ends == {i \in start .. Len(b.data) : b.data[i] = Blank}
           end == IF ends = {} THEN Len(b.data) + 1 ELSE CHOOSE i \in ends : \A j \in ends : i <= j
<1>1. b.at \in Nat /\ Len(b.data) \in Nat
  BY DEF BodyTyped
<1>2. start \in b.at + 1 .. Len(b.data) + 1
  <2>1. CASE starts = {}
    BY <1>1, <2>1
  <2>2. CASE starts # {}
    <3>1. starts \in SUBSET Nat
      BY <1>1
    <3>2. \E i \in starts : \A j \in starts : i <= j
      BY <2>2, <3>1, LeastMember
    <3>3. start \in starts
      BY <2>2, <3>2
    <3> HIDE DEF start
    <3>4. QED
      BY <1>1, <3>3
  <2>3. QED
    BY <2>1, <2>2
<1> HIDE DEF start
<1>3. end \in start .. Len(b.data) + 1
  <2>1. CASE ends = {}
    BY <1>1, <1>2, <2>1
  <2>2. CASE ends # {}
    <3>1. ends \in SUBSET Nat
      BY <1>1, <1>2
    <3>2. \E i \in ends : \A j \in ends : i <= j
      BY <2>2, <3>1, LeastMember
    <3>3. end \in ends
      BY <2>2, <3>2
    <3>4. QED
      BY <1>1, <1>2, <3>3
  <2>3. QED
    BY <2>1, <2>2
<1>4. WordEnds(b) = <<start, end>>
  BY DEF WordEnds, start
<1> HIDE DEF end
<1>5. QED
  BY <1>2, <1>3, <1>4

\* A part of a sequence that lies behind at consists of members that do.
LEMMA PartBehind ==
    ASSUME NEW d \in Seq(Chars), NEW at \in Nat, NEW first \in Int, NEW last \in Int,
           at < first, last <= Len(d), NEW R, \A i \in at + 1 .. Len(d) : d[i] \in R
    PROVE  /\ SubSeq(d, first, last) \in Seq(Chars)
           /\ Range(SubSeq(d, first, last)) \subseteq R
<1>1. \A i \in first .. last : d[i] \in Chars
  BY ElementOfSeq
<1>2. SubSeq(d, first, last) \in Seq(Chars)
  BY <1>1, SubSeqProperties
<1>3. \A i \in 1 .. Len(SubSeq(d, first, last)) : SubSeq(d, first, last)[i] \in R
  <2> SUFFICES ASSUME NEW i \in 1 .. Len(SubSeq(d, first, last))
               PROVE  SubSeq(d, first, last)[i] \in R
    OBVIOUS
  <2>1. Len(SubSeq(d, first, last)) = IF first <= last THEN last - first + 1 ELSE 0
    BY <1>1, SubSeqProperties
  <2>2. i \in 1 .. last - first + 1
    BY <2>1
  <2>3. SubSeq(d, first, last)[i] = d[first + i - 1]
    BY <1>1, <2>2, SubSeqProperties
  <2>4. first + i - 1 \in at + 1 .. Len(d)
    BY <2>2
  <2>5. QED
    BY <2>3, <2>4
<1>4. Range(SubSeq(d, first, last)) = {SubSeq(d, first, last)[i] : i \in 1 .. Len(SubSeq(d, first, last))}
  BY <1>2, RangeEquality
<1>5. QED
  BY <1>2, <1>3, <1>4

-----------------------------------------------------------------------------
\* append, write, operator<< and response.add: what a body keeps of p, whatever it was.
LEMMA PutKeeps ==
    ASSUME NEW b, NEW g \in Seq(Chars), NEW p \in Seq(Chars), NEW new \in {"text", "cstream", "stream"},
           BodyTyped(b), Keeps(b, g)
    PROVE  /\ BodyTyped(PutInto(b, p, new))
           /\ Keeps(PutInto(b, p, new), g \o p)
           /\ PutInto(b, p, new).kind = IF b.kind = "nothing" THEN new ELSE b.kind
<1> DEFINE put == PutInto(b, p, new)
<1>1. p \in Seq(Chars) /\ g \o p \in Seq(Chars) /\ b.kind \in Kinds /\ b.data \in Seq(Chars)
  BY ConcatProperties DEF BodyTyped
<1>2. CASE b.kind = "nothing"
  <2>1. put = [kind |-> new, data |-> p, at |-> 0, eof |-> FALSE]
    BY <1>2 DEF PutInto, Held, NoBody
  <2>2. g = <<>> /\ g \o p = p
    BY <1>2, ConcatEmptySeq DEF Keeps
  <2>3. SameChars(p, p)
    BY DEF SameChars
  <2>4. \A i \in 1 .. Len(p) : p[i] \in Range(p)
    BY RangeEquality
  <2>5. Len(p) \in Nat
    OBVIOUS
  <2>6. QED
    BY <1>2, <2>1, <2>2, <2>3, <2>4, <2>5 DEF BodyTyped, Keeps, Kinds
<1>3. CASE b.kind = "text"
  <2>1. put = [b EXCEPT !.data = b.data \o p]
    BY <1>3 DEF PutInto
  <2>2. b.data = g
    BY <1>3 DEF Keeps
  <2>3. /\ put \in [kind : Kinds, data : Seq(Chars), at : Nat, eof : BOOLEAN]
        /\ put.kind = "text" /\ put.data = g \o p
    BY <1>1, <1>3, <2>1, <2>2 DEF BodyTyped
  <2>4. QED
    BY <1>3, <2>3 DEF BodyTyped, Keeps
<1>4. CASE b.kind = "cstream"
  <2>1. put = [b EXCEPT !.data = p \o b.data]
    BY <1>4 DEF PutInto, CWrite
  <2>2. SameChars(p \o b.data, g \o p)
    BY <1>1, <1>4, InFront DEF Keeps
  <2>3. p \o b.data \in Seq(Chars)
    BY <1>1, ConcatProperties
  <2>4. /\ put \in [kind : Kinds, data : Seq(Chars), at : Nat, eof : BOOLEAN]
        /\ put.kind = "cstream" /\ put.data = p \o b.data
    BY <1>4, <2>1, <2>3 DEF BodyTyped
  <2>5. QED
    BY <1>4, <2>2, <2>4 DEF BodyTyped, Keeps
<1>5. CASE b.kind = "stream"
  <2>1. Range(g \o p) = Range(g) \cup Range(p)
    BY <1>1, RangeConcatenation
  <2>2. Keeps(b, g \o p)
    BY <1>5, <2>1 DEF Keeps
  <2>3. CASE b.eof
    BY <1>5, <2>2, <2>3 DEF PutInto, SWrite
  <2>4. CASE ~b.eof
    <3>1. put = [b EXCEPT !.data = b.data \o p]
      BY <1>5, <2>4 DEF PutInto, SWrite
    <3>2. b.data \o p \in Seq(Chars) /\ Len(b.data \o p) = Len(b.data) + Len(p)
      BY <1>1, ConcatProperties
    <3>3. /\ put \in [kind : Kinds, data : Seq(Chars), at : Nat, eof : BOOLEAN]
          /\ put.kind = "stream" /\ put.data = b.data \o p /\ put.at = b.at
      BY <1>5, <3>1, <3>2 DEF BodyTyped
    <3>4. b.at \in Nat /\ b.at <= Len(b.data)
      BY <1>5 DEF BodyTyped, Keeps
    <3>5. ASSUME NEW i \in b.at + 1 .. Len(b.data \o p)
          PROVE  (b.data \o p)[i] \in Range(g \o p)
      <4>1. i \in 1 .. Len(b.data) + Len(p)
        BY <3>2, <3>4
      <4>2. CASE i <= Len(b.data)
        <5>1. (b.data \o p)[i] = b.data[i]
          BY <1>1, <4>1, <4>2, ConcatProperties
        <5>2. b.data[i] \in Range(g)
          BY <1>5, <3>4, <4>2 DEF Keeps
        <5>3. QED
          BY <2>1, <5>1, <5>2
      <4>3. CASE i > Len(b.data)
        <5>1. (b.data \o p)[i] = p[i - Len(b.data)]
          BY <1>1, <4>1, <4>3, ConcatProperties
        <5>2. i - Len(b.data) \in 1 .. Len(p)
          BY <4>1, <4>3
        <5>3. p[i - Len(b.data)] \in Range(p)
          BY <5>2, RangeEquality
        <5>4. QED
          BY <2>1, <5>1, <5>3
      <4>4. QED
        BY <3>2, <3>4, <4>2, <4>3
    <3>6. Len(b.data) <= Len(b.data \o p)
      BY <3>2
    <3>7. QED
      BY <1>5, <3>3, <3>4, <3>5, <3>6 DEF BodyTyped, Keeps
  <2>5. QED
    BY <2>3, <2>4 DEF BodyTyped
<1>6. QED
  BY <1>1, <1>2, <1>3, <1>4, <1>5 DEF Kinds

\* What was written to bytes leaves their index where it was.
LEMMA PutReadFirst ==
    ASSUME NEW b, NEW g, NEW p \in Seq(Chars), NEW new, NEW t, NEW u, t \subseteq u,
           BodyTyped(b), Keeps(b, g), ReadFirst(b, t)
    PROVE  ReadFirst(PutInto(b, p, new), u)
<1>1. CASE b.kind = "nothing"
  <2>1. PutInto(b, p, new) = Held(new, p) /\ Len(p) \in Nat
    BY <1>1 DEF PutInto
  <2>2. QED
    BY <2>1 DEF Held, NoBody, ReadFirst
<1>2. CASE b.kind \in {"text", "stream"}
  BY <1>2 DEF PutInto, SWrite, ReadFirst, BodyTyped
<1>3. CASE b.kind = "cstream"
  <2>1. PutInto(b, p, new) = [b EXCEPT !.data = p \o b.data]
    BY <1>3 DEF PutInto, CWrite
  <2>2. Len(p \o b.data) = Len(p) + Len(b.data) /\ Len(p) \in Nat /\ Len(b.data) \in Nat /\ b.at \in Nat
    BY ConcatProperties DEF BodyTyped
  <2>3. PutInto(b, p, new).at = b.at /\ PutInto(b, p, new).data = p \o b.data
    BY <2>1 DEF BodyTyped
  <2>4. b.at > Len(p \o b.data) => b.at > Len(b.data)
    BY <2>2
  <2>5. QED
    BY <1>3, <2>3, <2>4 DEF ReadFirst
<1>4. QED
  BY <1>1, <1>2, <1>3 DEF BodyTyped, Kinds

\* Taking a word from a stream leaves its characters and what was not read.
LEMMA WordKeeps ==
    ASSUME NEW b, NEW g \in Seq(Chars), BodyTyped(b), Keeps(b, g), b.kind = "stream"
    PROVE  /\ BodyTyped(SAfterWord(b)) /\ Keeps(SAfterWord(b), g)
           /\ SAfterWord(b).kind = "stream"
<1>1. CASE b.eof
  BY <1>1 DEF SAfterWord
<1>2. CASE ~b.eof
  <2> DEFINE at == WordEnds(b)[2] - 1
             eof == WordEnds(b)[2] > Len(b.data)
  <2>1. SAfterWord(b) = [b EXCEPT !.at = at, !.eof = eof]
    BY <1>2 DEF SAfterWord
  <2>2. b.at \in Nat /\ Len(b.data) \in Nat /\ b.at <= Len(b.data)
    BY DEF BodyTyped, Keeps
  <2>3. at \in b.at .. Len(b.data)
    BY <2>2, WordBounds
  <2> HIDE DEF at, eof
  <2>4. at \in Nat /\ at >= b.at /\ at <= Len(b.data) /\ eof \in BOOLEAN
    BY <2>2, <2>3 DEF eof
  <2>5. \A i \in at + 1 .. Len(b.data) : b.data[i] \in Range(g)
    BY <2>2, <2>4 DEF Keeps
  <2>6. /\ SAfterWord(b) \in [kind : Kinds, data : Seq(Chars), at : Nat, eof : BOOLEAN]
        /\ SAfterWord(b).kind = "stream" /\ SAfterWord(b).data = b.data /\ SAfterWord(b).at = at
    BY <2>1, <2>4 DEF BodyTyped
  <2>7. QED
    BY <2>4, <2>5, <2>6 DEF BodyTyped, Keeps
<1>3. QED
  BY <1>1, <1>2 DEF BodyTyped

\* as_string uses bytes and streams up and leaves the rest of the body alone.
LEMMA AsStringKeeps ==
    ASSUME NEW b, NEW g \in Seq(Chars), BodyTyped(b), Keeps(b, g)
    PROVE  /\ BodyTyped(AfterAsString(b)) /\ Keeps(AfterAsString(b), g)
           /\ AfterAsString(b).kind = b.kind
           /\ b.kind = "cstream" => AfterAsString(b).at = Len(AfterAsString(b).data)
<1>1. CASE b.kind = "cstream"
  <2>1. AfterAsString(b) = [b EXCEPT !.at = Len(b.data)]
    BY <1>1 DEF AfterAsString, CDrained
  <2>2. Len(b.data) \in Nat
    BY DEF BodyTyped
  <2>3. /\ AfterAsString(b) \in [kind : Kinds, data : Seq(Chars), at : Nat, eof : BOOLEAN]
        /\ AfterAsString(b).kind = "cstream" /\ AfterAsString(b).data = b.data
        /\ AfterAsString(b).at = Len(b.data)
    BY <1>1, <2>1, <2>2 DEF BodyTyped
  <2>4. QED
    BY <1>1, <2>3 DEF BodyTyped, Keeps
<1>2. CASE b.kind = "stream"
  BY <1>2, WordKeeps DEF AfterAsString
<1>3. CASE b.kind \notin {"cstream", "stream"}
  BY <1>3 DEF AfterAsString
<1>4. QED
  BY <1>1, <1>2, <1>3

\* clear() empties what the body keeps, on every interface.
LEMMA ClearKeeps ==
    ASSUME BodyTyped(body), Keeps(body, given), clear
    PROVE  BodyTyped(body') /\ Keeps(body', <<>>) /\ body'.kind = body.kind
<1>1. CASE body.kind = "stream"
  <2>1. body' = [body EXCEPT !.at = Len(body.data), !.eof = TRUE] /\ Len(body.data) \in Nat
    BY <1>1 DEF clear, BodyTyped
  <2>2. /\ body' \in [kind : Kinds, data : Seq(Chars), at : Nat, eof : BOOLEAN]
        /\ body'.kind = "stream" /\ body'.data = body.data /\ body'.at = Len(body.data)
    BY <1>1, <2>1 DEF BodyTyped
  <2>3. QED
    BY <1>1, <2>1, <2>2 DEF BodyTyped, Keeps
<1>2. CASE body.kind # "stream"
  <2>1. body' = [body EXCEPT !.data = <<>>]
    BY <1>2 DEF clear
  <2>2. /\ body' \in [kind : Kinds, data : Seq(Chars), at : Nat, eof : BOOLEAN]
        /\ body'.kind = body.kind /\ body'.data = <<>>
    BY <2>1, EmptySeq DEF BodyTyped
  <2>3. body.kind = "nothing" => body' = NoBody
    <3>1. [NoBody EXCEPT !.data = <<>>] = NoBody
      BY DEF NoBody
    <3>2. QED
      BY <2>1, <3>1 DEF Keeps
  <2>4. QED
    BY <1>2, <2>2, <2>3 DEF BodyTyped, Keeps, SameChars
<1>3. QED
  BY <1>1, <1>2
-----------------------------------------------------------------------------
\* A response begins with an empty body and no headers.
LEMMA ResponseStart == ResponseInit => ResponseInv
<1>1. SUFFICES ASSUME ResponseInit PROVE ResponseInv
  OBVIOUS
<1>2. body = NoBody /\ given = <<>> /\ lengths = <<>> /\ served = 0
  BY <1>1 DEF ResponseInit
<1>3. NoBody.kind = "nothing" /\ <<>> \in Seq(Chars) /\ BodyTyped(NoBody)
  BY EmptySeq DEF NoBody, BodyTyped, Kinds
<1>4. ReadFirst(NoBody, through)
  BY DEF NoBody, ReadFirst
<1>5. QED
  BY <1>2, <1>3, <1>4 DEF ResponseInv, ResponseTyped, Keeps

\* Every call on a response keeps what the invariant says of its body, of the
\* interfaces used on it and of its headers.
LEMMA ResponseStep == ResponseInv /\ [ResponseNext]_response_vars => ResponseInv'
<1> SUFFICES ASSUME ResponseInv, [ResponseNext]_response_vars PROVE ResponseInv'
  OBVIOUS
<1> USE DEF ResponseInv, ResponseTyped
<1>0. body.kind \in Kinds
  BY DEF BodyTyped
<1>1. ASSUME NEW p \in BodyPieces, append(p) PROVE ResponseInv'
  <2>1. /\ given' = given \o p /\ body' = PutInto(body, p, "text")
        /\ through' = through \cup {"text"} /\ lengths' = lengths /\ served' = served
    BY <1>1 DEF append, Fits, NotSent
  <2>2. p \in Seq(Chars) /\ given' \in Seq(Chars)
    BY <2>1, Pieces, ConcatProperties
  <2>3. /\ BodyTyped(body') /\ Keeps(body', given')
        /\ body'.kind = IF body.kind = "nothing" THEN "text" ELSE body.kind
    BY <2>1, <2>2, PutKeeps
  <2>4. ReadFirst(body', through')
    BY <2>1, <2>2, PutReadFirst
  <2>5. QED
    BY <2>1, <2>2, <2>3, <2>4 DEF BodyTyped, Keeps, SameChars, ReadFirst
<1>2. ASSUME NEW p \in BodyPieces, write(p) PROVE ResponseInv'
  <2>1. /\ given' = given \o p /\ body' = PutInto(body, p, "cstream")
        /\ through' = through \cup {"cstream"} /\ lengths' = lengths /\ served' = served
    BY <1>2 DEF write, Fits, NotSent
  <2>2. p \in Seq(Chars) /\ given' \in Seq(Chars)
    BY <2>1, Pieces, ConcatProperties
  <2>3. /\ BodyTyped(body') /\ Keeps(body', given')
        /\ body'.kind = IF body.kind = "nothing" THEN "cstream" ELSE body.kind
    BY <2>1, <2>2, PutKeeps
  <2>4. ReadFirst(body', through')
    BY <2>1, <2>2, PutReadFirst
  <2>5. QED
    BY <2>1, <2>2, <2>3, <2>4 DEF BodyTyped, Keeps, SameChars, ReadFirst
<1>3. ASSUME NEW p \in BodyPieces, Insert(p) PROVE ResponseInv'
  <2>1. /\ given' = given \o p /\ body' = PutInto(body, p, "stream")
        /\ through' = through \cup {"stream"} /\ lengths' = lengths /\ served' = served
    BY <1>3 DEF Insert, PutInto, Fits, NotSent
  <2>2. p \in Seq(Chars) /\ given' \in Seq(Chars)
    BY <2>1, Pieces, ConcatProperties
  <2>3. /\ BodyTyped(body') /\ Keeps(body', given')
        /\ body'.kind = IF body.kind = "nothing" THEN "stream" ELSE body.kind
    BY <2>1, <2>2, PutKeeps
  <2>4. ReadFirst(body', through')
    BY <2>1, <2>2, PutReadFirst
  <2>5. QED
    BY <2>1, <2>2, <2>3, <2>4 DEF BodyTyped, Keeps, SameChars, ReadFirst
<1>4. ASSUME NEW p \in BodyPieces, ResponseAdd(p) PROVE ResponseInv'
  <2>1. /\ given' = given \o p /\ body' = PutInto(body, p, "text")
        /\ through' = through \cup {"add", IF body.kind = "nothing" THEN "text" ELSE body.kind}
        /\ served' = served
    BY <1>4 DEF ResponseAdd, Fits, NotSent
  <2>2. p \in Seq(Chars) /\ given' \in Seq(Chars)
    BY <2>1, Pieces, ConcatProperties
  <2>3. /\ BodyTyped(body') /\ Keeps(body', given')
        /\ body'.kind = IF body.kind = "nothing" THEN "text" ELSE body.kind
    BY <2>1, <2>2, PutKeeps
  <2>4. ReadFirst(body', through')
    BY <2>1, <2>2, PutReadFirst
  <2>5. QED
    BY <2>1, <2>2, <2>3, <2>4 DEF BodyTyped, Keeps, SameChars, ReadFirst
<1>5. ASSUME NEW p \in BodyPieces, ResponseSet(p) PROVE ResponseInv'
  <2>1. /\ given' = p /\ body' = Held("text", p) /\ lengths' = lengths /\ served' = served
        /\ through' = {"text"} \cup (through \cap {"add"})
    BY <1>5 DEF ResponseSet, NotSent
  <2>2. p \in Seq(Chars)
    BY Pieces
  <2>3. BodyTyped(body') /\ Keeps(body', given') /\ body'.kind = "text"
    BY <2>1, <2>2 DEF Held, NoBody, BodyTyped, Keeps, Kinds
  <2>4. QED
    BY <2>1, <2>2, <2>3 DEF BodyTyped, Keeps, SameChars, ReadFirst
<1>6. ASSUME clear PROVE ResponseInv'
  <2>1. given' = <<>> /\ through' = through \cup {"clear"} /\ lengths' = lengths /\ served' = served
    BY <1>6 DEF clear, NotSent
  <2>2. BodyTyped(body') /\ Keeps(body', <<>>) /\ body'.kind = body.kind /\ <<>> \in Seq(Chars)
    BY <1>6, ClearKeeps, EmptySeq
  <2>3. body.kind = "cstream" => body'.at = body.at
    BY <1>6 DEF clear, BodyTyped
  <2>4. ReadFirst(body', through')
    BY <2>1, <2>2, <2>3 DEF ReadFirst
  <2>5. QED
    BY <2>1, <2>2, <2>4 DEF BodyTyped, Keeps, SameChars, ReadFirst
<1>7. ASSUME reset PROVE ResponseInv'
  <2>1. /\ body' = NoBody /\ given' = <<>> /\ through' = through \cap {"add"}
        /\ lengths' = lengths /\ served' = served
    BY <1>7 DEF reset, NotSent
  <2>2. NoBody.kind = "nothing" /\ <<>> \in Seq(Chars) /\ BodyTyped(NoBody)
    BY EmptySeq DEF NoBody, BodyTyped, Kinds
  <2>3. QED
    BY <2>1, <2>2 DEF BodyTyped, Keeps, SameChars, ReadFirst
<1>8. ASSUME Read PROVE ResponseInv'
  <2>1. given' = given /\ through' = through \cup {"read"} /\ lengths' = lengths /\ served' = served
    BY <1>8 DEF Read, NotSent
  <2>2. BodyTyped(body') /\ Keeps(body', given) /\ body'.kind = body.kind /\ ReadFirst(body', through')
    <3>1. CASE body.kind = "stream"
      <4>1. body' = SAfterWord(body)
        BY <1>8, <3>1 DEF Read
      <4>2. QED
        BY <3>1, <4>1, WordKeeps DEF ReadFirst
    <3>2. CASE body.kind = "cstream"
      <4>1. PICK at : body' = [body EXCEPT !.at = at] /\ at \in 0 .. Len(body.data)
        <5>1. body.at \in Nat /\ body.data \in Seq(Chars) /\ Len(body.data) \in Nat
          BY DEF BodyTyped
        <5>2. CASE \E n \in 1 .. Len(CReadable(body)) : body' = [body EXCEPT !.at = @ + n]
          <6>1. PICK n \in 1 .. Len(CReadable(body)) : body' = [body EXCEPT !.at = body.at + n]
            BY <5>2
          <6>2. \A i \in body.at + 1 .. Len(body.data) : body.data[i] \in Chars
            BY <5>1, ElementOfSeq
          <6>3. Len(CReadable(body)) =
                  IF body.at + 1 <= Len(body.data) THEN Len(body.data) - (body.at + 1) + 1 ELSE 0
            BY <5>1, <6>2, SubSeqProperties DEF CReadable
          <6>4. body.at + n \in 0 .. Len(body.data)
            BY <5>1, <6>3
          <6>5. QED
            BY <6>1, <6>4
        <5>3. CASE body' = CDrained(body)
          BY <5>1, <5>3 DEF CDrained
        <5>4. QED
          BY <1>8, <3>2, <5>2, <5>3 DEF Read
      <4>2. /\ body' \in [kind : Kinds, data : Seq(Chars), at : Nat, eof : BOOLEAN]
            /\ body'.kind = "cstream" /\ body'.data = body.data /\ body'.at = at
        BY <3>2, <4>1 DEF BodyTyped
      <4>3. Len(body.data) \in Nat
        BY DEF BodyTyped
      <4>4. ~(body'.at > Len(body'.data))
        BY <4>1, <4>2, <4>3
      <4>5. QED
        BY <2>1, <3>2, <4>2, <4>4 DEF BodyTyped, Keeps, ReadFirst
    <3>3. QED
      BY <1>8, <3>1, <3>2 DEF Read
  <2>3. QED
    BY <2>1, <2>2 DEF BodyTyped, Keeps, SameChars, ReadFirst
<1>9. ASSUME NEW server \in {"beast", "cgi"}, ServeCopy(server) PROVE ResponseInv'
  <2>1. /\ body' = AfterAsString(body) /\ served' = served + 1
        /\ given' = given /\ lengths' = lengths
        /\ through \subseteq through'
        /\ "add" \in through' => "add" \in through
        /\ body.kind = "cstream" => "read" \in through'
    BY <1>9 DEF ServeCopy
  <2>2. BodyTyped(body') /\ Keeps(body', given) /\ body'.kind = body.kind
    BY <2>1, AsStringKeeps
  <2>3. ReadFirst(body', through')
    <3>1. body.kind = "cstream" => body'.at = Len(body'.data) /\ Len(body'.data) \in Nat
      BY <2>1, <2>2, AsStringKeeps DEF BodyTyped
    <3>2. QED
      BY <2>1, <2>2, <3>1 DEF ReadFirst
  <2>4. QED
    BY <2>1, <2>2, <2>3 DEF BodyTyped, Keeps, SameChars, ReadFirst
<1>10. ASSUME NEW server \in {"beast", "cgi"}, ServeMoved(server) PROVE ResponseInv'
  <2>1. body' = NoBody /\ lengths' = <<>> /\ given' = <<>> /\ through' = {} /\ served' = served + 1
    BY <1>10 DEF ServeMoved
  <2>2. NoBody.kind = "nothing" /\ <<>> \in Seq(Chars) /\ BodyTyped(NoBody)
    BY EmptySeq DEF NoBody, BodyTyped, Kinds
  <2>3. QED
    BY <2>1, <2>2 DEF BodyTyped, Keeps, SameChars, ReadFirst
<1>11. CASE UNCHANGED response_vars
  BY <1>11 DEF response_vars, BodyTyped, Keeps, SameChars, ReadFirst
<1>12. CASE EndsInRead
  BY <1>12 DEF EndsInRead, BodyTyped, Keeps, SameChars, ReadFirst
<1>13. QED
  BY <1>1, <1>2, <1>3, <1>4, <1>5, <1>6, <1>7, <1>8, <1>9, <1>10, <1>11, <1>12 DEF ResponseNext

\* The body, the headers and the interfaces of a response always agree,
\* whatever is written, read, cleared and served.
THEOREM ResponseInductive == ResponseSpec => []ResponseInv
  BY ResponseStart, ResponseStep, PTL DEF ResponseSpec

\* What a step that serves has sent.
LEMMA ServingSteps ==
    ASSUME ResponseInv, [ResponseNext]_response_vars, Serving
    PROVE  \E server \in {"beast", "cgi"} : ServeCopy(server) \/ ServeMoved(server)
<1>1. served' # served
  BY DEF ResponseInv, ResponseTyped, Serving
<1>2. ASSUME NEW p \in BodyPieces, append(p) \/ write(p) \/ Insert(p) \/ ResponseAdd(p) \/ ResponseSet(p)
      PROVE  served' = served
  BY <1>2 DEF append, write, Insert, ResponseAdd, ResponseSet, NotSent
<1>3. clear \/ reset \/ Read \/ EndsInRead => served' = served
  BY DEF clear, reset, Read, EndsInRead, NotSent
<1>4. QED
  BY <1>1, <1>2, <1>3 DEF ResponseNext, response_vars

\* A response written as text is served whole, moved or copied, by beast and
\* by CGI, and its length is told right unless response.add told another.
THEOREM TextIsServedWhole == ResponseSpec => TextServedWhole
<1>1. ASSUME ResponseInv, [ResponseNext]_response_vars, Serving, through \subseteq {"text", "add", "clear"}
      PROVE  /\ sent'.text = given
             /\ "add" \notin through => sent'.length = Len(given)
  <2>1. body.kind \in {"nothing", "text"} /\ body.kind \in Kinds
    BY <1>1 DEF ResponseInv, ResponseTyped, BodyTyped, Kinds
  <2>2. body.data = given
    BY <1>1, <2>1 DEF ResponseInv, Keeps, NoBody
  <2>3. "add" \notin through => lengths = <<>>
    BY <1>1 DEF ResponseInv
  <2>4. PICK server \in {"beast", "cgi"} : ServeCopy(server) \/ ServeMoved(server)
    BY <1>1, ServingSteps
  <2>5. ASSUME NEW b, b.kind \in {"nothing", "text"}, b.data = given, b.kind = "nothing" => given = <<>>,
               sent' = Sent(server, b)
        PROVE  /\ sent'.text = given
               /\ "add" \notin through => sent'.length = Len(given)
    <3>1. BeastText(b) = given /\ CgiText(b) = given
      BY <2>5 DEF BeastText, CgiText
    <3>2. SizeOf(b) = Len(given)
      BY <2>5 DEF SizeOf
    <3>3. "add" \notin through => Head(WithLength(lengths, b)) = Len(given)
      BY <2>3, <3>2 DEF WithLength
    <3>4. QED
      BY <2>5, <3>1, <3>3 DEF Sent
  <2>6. CASE ServeCopy(server)
    <3>1. sent' = Sent(server, Held("text", as_string(body)))
      BY <2>6 DEF ServeCopy
    <3>2. as_string(body) = given
      BY <2>1, <2>2 DEF as_string
    <3>3. Held("text", as_string(body)).kind = "text" /\ Held("text", as_string(body)).data = given
      BY <3>2 DEF Held, NoBody
    <3>4. QED
      BY <2>5, <3>1, <3>3
  <2>7. CASE ServeMoved(server)
    <3>1. sent' = Sent(server, body)
      BY <2>7 DEF ServeMoved
    <3>2. body.kind = "nothing" => given = <<>>
      BY <1>1 DEF ResponseInv, Keeps
    <3>3. QED
      BY <2>1, <2>2, <2>5, <3>1, <3>2
  <2>8. QED
    BY <2>4, <2>6, <2>7
<1>2. QED
  BY <1>1, ResponseInductive, PTL DEF ResponseSpec, TextServedWhole

\* Only bytes that were read, or copied, and then cleared end the program.
LEMMA EndingSteps ==
    ASSUME ResponseInv, [ResponseNext]_response_vars, running, ~running'
    PROVE  {"cstream", "read", "clear"} \subseteq through
<1>1. ASSUME NEW p \in BodyPieces, append(p) \/ write(p) \/ Insert(p) \/ ResponseAdd(p) \/ ResponseSet(p)
      PROVE  running' = running
  BY <1>1 DEF append, write, Insert, ResponseAdd, ResponseSet, NotSent
<1>2. clear \/ reset \/ Read => running' = running
  BY DEF clear, reset, Read, NotSent
<1>3. ASSUME NEW server \in {"beast", "cgi"}, ServeCopy(server) \/ ServeMoved(server)
      PROVE  running' = running
  BY <1>3 DEF ServeCopy, ServeMoved
<1>4. EndsInRead
  <2>1. running' # running
    OBVIOUS
  <2>2. QED
    BY <2>1, <1>1, <1>2, <1>3 DEF ResponseNext, response_vars
<1>5. body.kind = "cstream" /\ body.at > Len(body.data)
  BY <1>4 DEF EndsInRead, Overread
<1>6. body.at > 0
  <2>1. body.at \in Nat /\ Len(body.data) \in Nat
    BY DEF ResponseInv, ResponseTyped, BodyTyped
  <2>2. QED
    BY <1>5, <2>1
<1>7. QED
  BY <1>5, <1>6 DEF ResponseInv, ReadFirst

\* Whatever leaves with the response itself was given to it since it was
\* last emptied, on every interface; bytes nobody has read leave complete;
\* the program ends only over bytes that were read and then cleared.
THEOREM NothingIsInvented == ResponseSpec => NothingInvented
<1>1. ASSUME ResponseInv, [ResponseNext]_response_vars, Serving, body' = NoBody
      PROVE  /\ Range(sent'.text) \subseteq Range(given)
             /\ through = {"cstream"} /\ body.at = 0 =>
                   \A c \in Range(given) : Count(sent'.text, c) = Count(given, c)
  <2>1. BodyTyped(body) /\ Keeps(body, given) /\ given \in Seq(Chars) /\ body.kind \in Kinds
    BY <1>1 DEF ResponseInv, ResponseTyped, BodyTyped
  <2>2. PICK server \in {"beast", "cgi"} : ServeCopy(server) \/ ServeMoved(server)
    BY <1>1, ServingSteps
  <2>3. server = "beast" \/ server = "cgi"
    OBVIOUS
  <2>4. CASE body.kind \in {"nothing", "text"}
    <3>1. body.data = given /\ (body.kind = "nothing" => given = <<>>)
      BY <2>1, <2>4 DEF Keeps, NoBody
    <3>2. body.kind = "nothing" \/ through # {"cstream"}
      BY <1>1, <2>4 DEF ResponseInv
    <3>3. as_string(body) = given
      BY <2>4, <3>1 DEF as_string
    <3>4. BeastText(body) = given /\ CgiText(body) = given
      BY <2>4, <3>1 DEF BeastText, CgiText
    <3>5. sent'.text = given
      <4>1. CASE ServeCopy(server)
        <5>1. sent' = Sent(server, Held("text", given))
          BY <3>3, <4>1 DEF ServeCopy
        <5>2. BeastText(Held("text", given)) = given /\ CgiText(Held("text", given)) = given
          BY DEF BeastText, CgiText, Held, NoBody
        <5>3. QED
          BY <5>1, <5>2 DEF Sent
      <4>2. CASE ServeMoved(server)
        BY <3>4, <4>2 DEF ServeMoved, Sent
      <4>3. QED
        BY <2>2, <4>1, <4>2
    <3>6. QED
      BY <3>5
  <2>5. CASE body.kind \in {"cstream", "stream"}
    <3>1. ServeMoved(server)
      <4>1. SUFFICES ASSUME ServeCopy(server) PROVE FALSE
        BY <2>2
      <4>2. body' = AfterAsString(body)
        BY <4>1 DEF ServeCopy
      <4>3. body'.kind = body.kind
        BY <2>1, <4>2, AsStringKeeps
      <4>4. QED
        BY <1>1, <2>5, <4>3 DEF NoBody
    <3>2. sent'.text = IF server = "beast" THEN BeastText(body) ELSE CgiText(body)
      BY <3>1 DEF ServeMoved, Sent
    <3>3. body.at \in Nat /\ body.data \in Seq(Chars) /\ Len(body.data) \in Nat
      BY <2>1 DEF BodyTyped
    <3>4. CASE body.kind = "cstream"
      <4>1. sent'.text = SubSeq(body.data, body.at + 1, Len(body.data))
        BY <3>2, <3>4 DEF BeastText, CgiText, CReadable
      <4>2. SameChars(body.data, given)
        BY <2>1, <3>4 DEF Keeps
      <4>3. \A i \in body.at + 1 .. Len(body.data) : body.data[i] \in Range(given)
        <5>1. SUFFICES ASSUME NEW i \in body.at + 1 .. Len(body.data)
                       PROVE  body.data[i] \in Range(given)
          OBVIOUS
        <5>2. i \in 1 .. Len(body.data)
          BY <3>3
        <5>3. body.data[i] \in Range(body.data) /\ body.data[i] \in Chars
          BY <3>3, <5>2, RangeEquality, ElementOfSeq
        <5>4. Count(given, body.data[i]) # 0
          BY <3>3, <4>2, <5>3, CountPositive DEF SameChars
        <5>5. QED
          BY <2>1, <5>4, CountPositive
      <4>4. Range(sent'.text) \subseteq Range(given)
        <5>1. Range(SubSeq(body.data, body.at + 1, Len(body.data))) \subseteq Range(given)
          <6>1. body.at + 1 \in Int /\ Len(body.data) \in Int /\ body.at < body.at + 1 /\ Len(body.data) <= Len(body.data)
            BY <3>3
          <6> DEFINE R == Range(given)
          <6>2. \A i \in body.at + 1 .. Len(body.data) : body.data[i] \in R
            BY <4>3
          <6> HIDE DEF R
          <6>3. Range(SubSeq(body.data, body.at + 1, Len(body.data))) \subseteq R
            BY <3>3, <6>1, <6>2, PartBehind
          <6>4. QED
            BY <6>3 DEF R
        <5>2. QED
          BY <4>1, <5>1
      <4>5. ASSUME body.at = 0, NEW c \in Range(given)
            PROVE  Count(sent'.text, c) = Count(given, c)
        <5>1. sent'.text = body.data
          BY <3>3, <4>1, <4>5, SubSeqFull
        <5>2. c \in Chars
          BY <2>1, <4>5, RangeOfSeq
        <5>3. QED
          BY <4>2, <5>1, <5>2 DEF SameChars
      <4>6. QED
        BY <4>4, <4>5
    <3>5. CASE body.kind = "stream"
      <4>1. /\ body.at <= Len(body.data)
            /\ \A i \in body.at + 1 .. Len(body.data) : body.data[i] \in Range(given)
        BY <2>1, <3>5 DEF Keeps
      <4>2. Range(SubSeq(body.data, body.at + 1, Len(body.data))) \subseteq Range(given)
        BY <3>3, <4>1, PartBehind
      <4>3. Range(SWord(body)) \subseteq Range(given)
        <5>1. CASE body.eof
          <6>1. SWord(body) = <<>> /\ Range(<<>>) = {}
            BY <5>1 DEF SWord, Range
          <6>2. QED
            BY <6>1
        <5>2. CASE ~body.eof
          <6>1. /\ WordEnds(body)[1] \in body.at + 1 .. Len(body.data) + 1
                /\ WordEnds(body)[2] \in WordEnds(body)[1] .. Len(body.data) + 1
            BY <2>1, <4>1, WordBounds
          <6> DEFINE first == WordEnds(body)[1]
                     last == WordEnds(body)[2] - 1
          <6>2. first \in Int /\ last \in Int /\ body.at < first /\ last <= Len(body.data)
            BY <3>3, <6>1
          <6>3. SWord(body) = SubSeq(body.data, first, last)
            BY <5>2 DEF SWord
          <6> HIDE DEF first, last
          <6>4. QED
            BY <3>3, <4>1, <6>2, <6>3, PartBehind
        <5>3. QED
          BY <5>1, <5>2
      <4>4. through # {"cstream"}
        BY <1>1, <3>5 DEF ResponseInv
      <4>5. sent'.text \in {SWord(body), SubSeq(body.data, body.at + 1, Len(body.data))}
        BY <3>2, <3>5 DEF BeastText, CgiText
      <4>6. QED
        BY <4>2, <4>3, <4>4, <4>5
    <3>6. QED
      BY <2>5, <3>4, <3>5
  <2>6. QED
    BY <2>1, <2>4, <2>5 DEF Kinds
<1>2. ASSUME ResponseInv, ResponseNext PROVE running' \/ {"cstream", "read", "clear"} \subseteq through
  <2>1. running
    BY <1>2 DEF ResponseNext
  <2>2. QED
    BY <1>2, <2>1, EndingSteps
<1>3. QED
  BY <1>1, <1>2, ResponseInductive, PTL DEF ResponseSpec, NothingInvented
=============================================================================
