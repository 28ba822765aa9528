------------------------ MODULE DirectoryCacheProofs ------------------------
(***************************************************************************)
(* The LRU strategy over directory_gate, for every set of processes, keys, *)
(* values and paths and every max_size: what holds however processes       *)
(* interleave, fail and die, and what a process that has the directory to  *)
(* itself can rely on.                                                     *)
(***************************************************************************)
EXTENDS DirectoryCache, Integers, FiniteSetTheorems, SequenceTheorems, TLAPS

\* A header is the first of what a file or a bundle consists of.
WellFormed(c) == \A j \in DOMAIN c : j > 1 => c[j].kind # "header"

\* What s has, but for zeros, c or d has.
From(s, c, d) ==
    \A j \in DOMAIN s : \/ s[j] = Nul
                        \/ \E i \in DOMAIN c : s[j] = c[i]
                        \/ \E i \in DOMAIN d : s[j] = d[i]

-----------------------------------------------------------------------------
\* The kinds of cells exclude each other.
LEMMA CellFacts ==
    /\ \A x \in Cells : x.kind = "header" => x.of \in Keys /\ x.n \in 1 .. MaxUsage
    /\ \A x \in Cells : x.kind # "header" => x \in TextCells \cup {Nul}
    /\ \A x \in TextCells \cup {Nul} : x \in Cells /\ x.kind # "header"
    /\ \A x \in TextCells : x.kind = "text"
    /\ Nul \in Cells /\ Nul.kind = "nul"
    /\ NoEntry.key \notin Keys
  BY DirectoryAssumption DEF Cells, HeaderCells, TextCells, Nul, NoEntry

\* What a value consists of.
LEMMA TextFacts ==
    ASSUME NEW v \in Values
    PROVE  /\ Text(v) \in Seq(TextCells) /\ Text(v) \in Written
           /\ Len(Text(v)) \in {1, 2}
           /\ v \notin Long => Len(Text(v)) = 1
           /\ \A j \in DOMAIN Text(v) : Text(v)[j].kind = "text" /\ Text(v)[j].of = v
<1> DEFINE n == IF v \in Long THEN 2 ELSE 1
<1>1. n \in {1, 2} /\ n \in Nat
  OBVIOUS
<1>2. Text(v) = [i \in 1 .. n |-> [kind |-> "text", of |-> v, n |-> i]]
  BY DEF Text
<1>3. \A i \in 1 .. n : [kind |-> "text", of |-> v, n |-> i] \in TextCells
  BY <1>1 DEF TextCells
<1>4. v \notin Long => n = 1
  OBVIOUS
<1> HIDE DEF n
<1>5. Text(v) \in [1 .. n -> TextCells]
  BY <1>2, <1>3
<1>6. Text(v) \in Seq(TextCells) /\ Len(Text(v)) = n /\ DOMAIN Text(v) = 1 .. n
  BY <1>1, <1>5, SeqDef
<1>7. Text(v) \in Written
  <2>1. TextCells \subseteq TextCells \cup {Nul}
    OBVIOUS
  <2>2. QED
    BY <1>6, <2>1, SeqMonotonic DEF Written
<1>8. \A j \in DOMAIN Text(v) : Text(v)[j].kind = "text" /\ Text(v)[j].of = v
  BY <1>2, <1>6
<1>9. QED
  BY <1>1, <1>4, <1>6, <1>7, <1>8

\* A sequence is one over whatever its elements are in.
LEMMA Narrowed ==
    ASSUME NEW S, NEW T, NEW s \in Seq(S), \A i \in 1 .. Len(s) : s[i] \in T
    PROVE  s \in Seq(T)
<1> DEFINE n == Len(s)
<1>1. n \in Nat /\ DOMAIN s = 1 .. n /\ s \in [1 .. n -> S]
  BY LenProperties
<1>2. s \in [1 .. n -> T]
  BY <1>1
<1> HIDE DEF n
<1>3. QED
  BY <1>1, <1>2, SeqDef

\* Behind a header there is a value.
LEMMA TailWritten ==
    ASSUME NEW c \in Seq(Cells), WellFormed(c), c # <<>>
    PROVE  /\ Tail(c) \in Written
           /\ Len(c) \in Nat \ {0} /\ Len(Tail(c)) = Len(c) - 1
           /\ \A j \in DOMAIN Tail(c) : j + 1 \in DOMAIN c /\ Tail(c)[j] = c[j + 1]
           /\ c[1] \in Cells
<1>1. /\ Tail(c) \in Seq(Cells) /\ Len(Tail(c)) = Len(c) - 1
      /\ \A i \in 1 .. Len(Tail(c)) : Tail(c)[i] = c[i + 1]
  BY HeadTailProperties
<1>2. Len(c) \in Nat \ {0} /\ DOMAIN c = 1 .. Len(c)
  BY EmptySeq, LenProperties
<1>3. DOMAIN Tail(c) = 1 .. Len(Tail(c))
  BY <1>1, LenProperties
<1>4. \A j \in DOMAIN Tail(c) : j + 1 \in DOMAIN c /\ Tail(c)[j] = c[j + 1]
  BY <1>1, <1>2, <1>3
<1>5. \A j \in 1 .. Len(Tail(c)) : Tail(c)[j] \in TextCells \cup {Nul}
  <2>1. SUFFICES ASSUME NEW j \in 1 .. Len(Tail(c)) PROVE Tail(c)[j] \in TextCells \cup {Nul}
    OBVIOUS
  <2>2. j + 1 \in DOMAIN c /\ j + 1 > 1 /\ Tail(c)[j] = c[j + 1]
    BY <1>1, <1>2, <1>3, <1>4
  <2>3. c[j + 1].kind # "header" /\ c[j + 1] \in Cells
    BY <1>2, <2>2, ElementOfSeq DEF WellFormed
  <2>4. QED
    BY <2>2, <2>3, CellFacts
<1>7. Tail(c) \in Written
  BY <1>1, <1>5, Narrowed DEF Written
<1>8. c[1] \in Cells
  BY <1>2, ElementOfSeq
<1>9. QED
  BY <1>1, <1>2, <1>4, <1>7, <1>8

\* serialize_file: a header, then the value.
LEMMA BytesFacts ==
    ASSUME NEW e \in Entries
    PROVE  /\ Bytes(e) \in Seq(Cells) /\ WellFormed(Bytes(e)) /\ Readable(Bytes(e))
           /\ Len(Bytes(e)) = Len(e.value) + 1 /\ Len(e.value) \in Nat
           /\ Bytes(e)[1] = [kind |-> "header", of |-> e.key, n |-> e.used]
           /\ Bytes(e)[1].of = e.key /\ Bytes(e)[1].n = e.used
           /\ Tail(Bytes(e)) = e.value
           /\ \A j \in DOMAIN e.value : Bytes(e)[j + 1] = e.value[j] /\ e.value[j].kind # "header"
           /\ e.key \in Keys /\ e.value \in Written /\ e.used \in 1 .. MaxUsage
           /\ e.value \in Seq(Cells)
<1> DEFINE h == [kind |-> "header", of |-> e.key, n |-> e.used]
<1>1. e.key \in Keys /\ e.value \in Written /\ e.used \in 1 .. MaxUsage
  BY DEF Entries
<1>2. h \in Cells /\ h.kind = "header" /\ h.of = e.key /\ h.n = e.used
  BY <1>1 DEF Cells, HeaderCells
<1> HIDE DEF h
<1>3. e.value \in Seq(Cells)
  <2>1. TextCells \cup {Nul} \subseteq Cells
    BY CellFacts
  <2>2. QED
    BY <1>1, <2>1, SeqMonotonic DEF Written
<1>4. <<h>> \in Seq(Cells) /\ Len(<<h>>) = 1 /\ <<h>>[1] = h
  BY <1>2
<1>5. Bytes(e) = <<h>> \o e.value
  BY DEF Bytes, h
<1>6. /\ Bytes(e) \in Seq(Cells) /\ Len(Bytes(e)) = 1 + Len(e.value)
      /\ \A i \in 1 .. 1 + Len(e.value) : Bytes(e)[i] = IF i <= 1 THEN <<h>>[i] ELSE e.value[i - 1]
  BY <1>3, <1>4, <1>5, ConcatProperties
<1>7. Len(e.value) \in Nat /\ DOMAIN e.value = 1 .. Len(e.value) /\ DOMAIN Bytes(e) = 1 .. Len(Bytes(e))
  BY <1>3, <1>6, LenProperties
<1>8. Bytes(e)[1] = h
  BY <1>4, <1>6, <1>7
<1>9. \A j \in DOMAIN e.value : Bytes(e)[j + 1] = e.value[j] /\ e.value[j].kind # "header"
  <2>1. SUFFICES ASSUME NEW j \in DOMAIN e.value
                 PROVE  Bytes(e)[j + 1] = e.value[j] /\ e.value[j].kind # "header"
    OBVIOUS
  <2>2. j \in 1 .. Len(e.value) /\ j + 1 \in 1 .. 1 + Len(e.value) /\ ~(j + 1 <= 1) /\ (j + 1) - 1 = j
    BY <1>7
  <2>3. Bytes(e)[j + 1] = e.value[j]
    BY <1>6, <2>2
  <2>4. e.value[j] \in TextCells \cup {Nul}
    BY <1>1, <2>2, ElementOfSeq DEF Written
  <2>5. QED
    BY <2>3, <2>4, CellFacts
<1>10. WellFormed(Bytes(e))
  <2>1. SUFFICES ASSUME NEW j \in DOMAIN Bytes(e), j > 1 PROVE Bytes(e)[j].kind # "header"
    BY DEF WellFormed
  <2>2. j - 1 \in DOMAIN e.value /\ (j - 1) + 1 = j
    BY <1>6, <1>7, <2>1
  <2>3. QED
    BY <1>9, <2>2
<1>11. Bytes(e) # <<>>
  BY <1>6, <1>7, EmptySeq
<1>12. Readable(Bytes(e))
  BY <1>2, <1>8, <1>11 DEF Readable
<1>13. Tail(Bytes(e)) = e.value
  <2>1. /\ Tail(Bytes(e)) \in Seq(Cells) /\ Len(Tail(Bytes(e))) = Len(Bytes(e)) - 1
        /\ \A i \in 1 .. Len(Tail(Bytes(e))) : Tail(Bytes(e))[i] = Bytes(e)[i + 1]
    BY <1>6, <1>11, HeadTailProperties
  <2>2. Len(Tail(Bytes(e))) = Len(e.value)
    BY <1>6, <1>7, <2>1
  <2>3. \A i \in 1 .. Len(Tail(Bytes(e))) : Tail(Bytes(e))[i] = e.value[i]
    BY <1>7, <1>9, <2>1, <2>2
  <2>4. QED
    BY <1>3, <2>1, <2>2, <2>3, SeqEqual
<1>14. QED
  BY <1>1, <1>2, <1>3, <1>6, <1>7, <1>8, <1>9, <1>10, <1>12, <1>13 DEF h

\* read_to: as much as the buffer takes, zeros behind what was there.
LEMMA SizedFacts ==
    ASSUME NEW c \in Seq(Cells), NEW n \in Nat, WellFormed(c)
    PROVE  /\ Sized(c, n) \in Seq(Cells) /\ WellFormed(Sized(c, n))
           /\ n = Len(c) => Sized(c, n) = c
           /\ Readable(Sized(c, n)) => Readable(c) /\ Sized(c, n)[1] = c[1]
           /\ Readable(c) /\ n > 0 => Readable(Sized(c, n))
           /\ From(Sized(c, n), c, c)
<1> DEFINE s == Sized(c, n)
<1>1. Len(c) \in Nat /\ DOMAIN c = 1 .. Len(c) /\ Nul \in Cells /\ Nul.kind # "header"
  BY CellFacts
<1>2. s = [i \in 1 .. n |-> IF i <= Len(c) THEN c[i] ELSE Nul]
  BY DEF Sized
<1>3. DOMAIN s = 1 .. n /\ \A i \in 1 .. n : s[i] = IF i <= Len(c) THEN c[i] ELSE Nul
  BY <1>2
<1>4. \A i \in 1 .. n : (i <= Len(c) /\ i \in DOMAIN c /\ s[i] = c[i] /\ c[i] \in Cells) \/ s[i] = Nul
  BY <1>1, <1>3, ElementOfSeq
<1>5. s \in [1 .. n -> Cells]
  BY <1>1, <1>2, <1>4
<1> HIDE DEF s
<1>6. s \in Seq(Cells) /\ Len(s) = n
  BY <1>5, SeqDef
<1>7. WellFormed(s)
  BY <1>1, <1>3, <1>4 DEF WellFormed
<1>8. ASSUME n = Len(c) PROVE s = c
  <2>1. \A i \in 1 .. Len(s) : s[i] = c[i]
    BY <1>1, <1>3, <1>6, <1>8
  <2>2. QED
    BY <1>6, <1>8, <2>1, SeqEqual
<1>9. ASSUME Readable(s) PROVE Readable(c) /\ s[1] = c[1]
  <2>1. n > 0 /\ 1 \in 1 .. n
    BY <1>6, <1>9, EmptySeq DEF Readable
  <2>2. s[1] # Nul
    BY <1>1, <1>9 DEF Readable
  <2>3. 1 <= Len(c) /\ s[1] = c[1]
    BY <1>4, <2>1, <2>2
  <2>4. QED
    BY <1>1, <1>9, <2>3, EmptySeq DEF Readable
<1>10. ASSUME Readable(c), n > 0 PROVE Readable(s)
  <2>1. 1 <= Len(c) /\ 1 \in 1 .. n
    BY <1>1, <1>10, EmptySeq DEF Readable
  <2>2. s[1] = c[1]
    BY <1>3, <2>1
  <2>3. QED
    BY <1>6, <1>10, <2>2, EmptySeq DEF Readable
<1>11. From(s, c, c)
  BY <1>3, <1>4 DEF From
<1>12. QED
  BY <1>6, <1>7, <1>8, <1>9, <1>10, <1>11 DEF s

\* A part of a bundle is written at an offset, over what is in the file.
LEMMA PutFacts ==
    ASSUME NEW e \in Entries, NEW old \in Seq(Cells), WellFormed(old),
           NEW from \in {0, 2}, NEW to \in Nat, from < to, to <= Len(Bytes(e))
    PROVE  LET w == WriteAt(old, from, SubSeq(Bytes(e), from + 1, to))
           IN  /\ w \in Seq(Cells) /\ WellFormed(w) /\ w # <<>>
               /\ from = 0 => w[1] = Bytes(e)[1]
               /\ from = 2 => w[1] = Nul \/ (old # <<>> /\ w[1] = old[1])
               /\ From(w, old, Bytes(e))
               /\ from = 0 /\ old = <<>> => w = SubSeq(Bytes(e), 1, to)
               /\ from = 2 /\ to = Len(Bytes(e)) /\ old = SubSeq(Bytes(e), 1, 2) => w = Bytes(e)
<1> DEFINE b == Bytes(e)
           new == SubSeq(b, from + 1, to)
           w == WriteAt(old, from, new)
           n == IF Len(old) > to THEN Len(old) ELSE to
<1>1. b \in Seq(Cells) /\ WellFormed(b) /\ Len(b) \in Nat /\ DOMAIN b = 1 .. Len(b) /\ to <= Len(b)
  BY BytesFacts, LenProperties
<1>2. Len(old) \in Nat /\ DOMAIN old = 1 .. Len(old) /\ Nul \in Cells /\ Nul.kind # "header"
  BY CellFacts
<1> HIDE DEF b
<1>3. from \in Int /\ to \in Int /\ from + 1 <= to /\ from + 1 \in 1 .. to /\ to - from \in Nat
  OBVIOUS
<1>4. new \in Seq(Cells) /\ Len(new) = to - from /\ \A i \in 1 .. to - from : new[i] = b[from + i]
  <2>1. /\ new \in Seq(Cells)
        /\ Len(new) = IF from + 1 <= to THEN to - (from + 1) + 1 ELSE 0
        /\ \A i \in 1 .. to - (from + 1) + 1 : new[i] = b[(from + 1) + i - 1]
    BY <1>1, <1>3, SubSeqProperties
  <2>2. to - (from + 1) + 1 = to - from /\ \A i \in 1 .. to - from : (from + 1) + i - 1 = from + i
    BY <1>3
  <2>3. QED
    BY <1>3, <2>1, <2>2
<1> HIDE DEF new
<1>5. n \in Nat /\ n >= to /\ n >= Len(old) /\ (n = to \/ n = Len(old)) /\ from + Len(new) = to
  BY <1>2, <1>3, <1>4
<1>6. w = [i \in 1 .. n |-> IF i \in from + 1 .. to THEN new[i - from]
                            ELSE IF i <= Len(old) THEN old[i] ELSE Nul]
  BY <1>5 DEF WriteAt
<1> HIDE DEF n
<1>7. /\ DOMAIN w = 1 .. n
      /\ \A i \in 1 .. n : w[i] = IF i \in from + 1 .. to THEN new[i - from]
                                  ELSE IF i <= Len(old) THEN old[i] ELSE Nul
  BY <1>6
<1>8. \A i \in 1 .. n : i \in from + 1 .. to => w[i] = b[i] /\ i \in DOMAIN b /\ w[i] \in Cells
  <2>1. SUFFICES ASSUME NEW i \in 1 .. n, i \in from + 1 .. to
                 PROVE  w[i] = b[i] /\ i \in DOMAIN b /\ w[i] \in Cells
    OBVIOUS
  <2>2. i - from \in 1 .. to - from /\ from + (i - from) = i /\ i \in 1 .. Len(b)
    BY <1>1, <1>3, <2>1
  <2>3. w[i] = new[i - from] /\ new[i - from] = b[i]
    BY <1>4, <1>7, <2>1, <2>2
  <2>4. QED
    BY <1>1, <2>2, <2>3, ElementOfSeq
<1>9. \A i \in 1 .. n : i \notin from + 1 .. to =>
          w[i] = Nul \/ (w[i] = old[i] /\ i \in DOMAIN old /\ w[i] \in Cells)
  BY <1>2, <1>7, ElementOfSeq
<1>10. w \in [1 .. n -> Cells]
  <2>1. \A i \in 1 .. n : w[i] \in Cells
    BY <1>2, <1>8, <1>9
  <2>2. w = [i \in 1 .. n |-> w[i]]
    BY <1>6
  <2>3. QED
    BY <2>1, <2>2
<1> HIDE DEF w
<1>11. w \in Seq(Cells) /\ Len(w) = n
  BY <1>5, <1>10, SeqDef
<1>12. 1 \in 1 .. n /\ w # <<>>
  BY <1>3, <1>5, <1>11, EmptySeq
<1>13. WellFormed(w)
  <2>1. SUFFICES ASSUME NEW i \in 1 .. n, i > 1 PROVE w[i].kind # "header"
    BY <1>7 DEF WellFormed
  <2>2. (w[i] = b[i] /\ i \in DOMAIN b) \/ w[i] = Nul \/ (w[i] = old[i] /\ i \in DOMAIN old)
    BY <1>8, <1>9
  <2>3. QED
    BY <1>1, <1>2, <2>1, <2>2 DEF WellFormed
<1>14. ASSUME from = 0 PROVE w[1] = b[1]
  BY <1>3, <1>8, <1>12, <1>14
<1>15. ASSUME from = 2 PROVE w[1] = Nul \/ (old # <<>> /\ w[1] = old[1])
  <2>1. 1 \notin from + 1 .. to
    BY <1>15
  <2>2. QED
    BY <1>2, <1>9, <1>12, <2>1, EmptySeq
<1>16. From(w, old, b)
  BY <1>7, <1>8, <1>9 DEF From
<1>17. ASSUME from = 0, old = <<>> PROVE w = SubSeq(b, 1, to)
  <2>1. n = to /\ 1 \in 1 .. Len(b)
    BY <1>1, <1>3, <1>5, <1>12, <1>17, EmptySeq
  <2>2. SubSeq(b, 1, to) = new
    BY <1>17 DEF new
  <2>3. \A i \in 1 .. to : w[i] = new[i]
    BY <1>4, <1>8, <1>17, <2>1
  <2>4. Len(new) = to
    BY <1>4, <1>17
  <2>5. QED
    BY <1>4, <1>11, <2>1, <2>2, <2>3, <2>4, SeqEqual
<1>18. ASSUME from = 2, to = Len(b), old = SubSeq(b, 1, 2) PROVE w = b
  <2>1. /\ Len(old) = IF 1 <= 2 THEN 2 - 1 + 1 ELSE 0
        /\ \A i \in 1 .. 2 - 1 + 1 : old[i] = b[1 + i - 1]
    BY <1>1, <1>18, SubSeqProperties
  <2>2. Len(old) = 2 /\ old[1] = b[1] /\ old[2] = b[2]
    BY <2>1
  <2>3. n = to /\ 2 \in 1 .. n /\ to > 2
    BY <1>5, <1>18, <2>2
  <2>4. w[1] = old[1] /\ w[2] = old[2]
    BY <1>7, <1>12, <1>18, <2>2, <2>3
  <2>5. \A i \in 1 .. n : i = 1 \/ i = 2 \/ i \in from + 1 .. to
    BY <1>18, <2>3
  <2>6. \A i \in 1 .. n : w[i] = b[i]
    BY <1>8, <2>2, <2>4, <2>5
  <2>7. QED
    BY <1>1, <1>11, <1>18, <2>3, <2>6, SeqEqual
<1>19. QED
  BY <1>11, <1>12, <1>13, <1>14, <1>15, <1>16, <1>17, <1>18 DEF w, new, b

-----------------------------------------------------------------------------
\* No two keys hash to the same file name.
DistinctPaths == \A j, k \in Keys : path[j] = path[k] => j = k

\* The process has the directory to itself.
OneProcess == \E p : Procs = {p}

\* An entry is in the file its key names.
InOrder(q, c) == WellFormed(c) /\ (Readable(c) => path[c[1].of] = q)
FilesInOrder == \A q \in Paths, i \in Inodes : InOrder(q, disk[q][i])

\* What a process has at hand where it is in a call.
AtHand(p) ==
    /\ pc[p] \in {"open", "write", "write2"} => task[p] \in {"set", "touch"}
    /\ pc[p] = "has" => task[p] = "touch"
    /\ pc[p] \in {"fetch", "read"} => task[p] \in {"get", "touch", "scan"} /\ at[p] \in Paths
    /\ pc[p] \in {"idle", "cleanup"} => task[p] = "none"
    /\ pc[p] = "scan" => task[p] \in {"none", "scan"}
    /\ pc[p] = "remove" => task[p] = "scan" /\ at[p] \in Paths
    /\ pc[p] \in {"write", "write2"} => fd[p] \in Inodes /\ at[p] = path[write[p].key]
    /\ pc[p] = "write2" => Len(write[p].value) > 1
    /\ pc[p] = "read" => fd[p] \in Inodes
    /\ pc[p] \notin {"write", "write2", "read"} => fd[p] = NoFile
    /\ task[p] \in {"set", "touch"} => write[p] \in Entries
    /\ task[p] \in {"get", "touch"} => call[p].key \in Keys
    /\ task[p] \in {"get", "touch"} /\ pc[p] \in {"fetch", "read"} => at[p] = path[call[p].key]
    /\ task[p] = "touch" => path[write[p].key] = path[call[p].key]
    /\ task[p] = "get" => next_usage[p] <= MaxUsage
    /\ call[p].result # NoValue => call[p].key \in Keys

TInv == TypeOK /\ FilesInOrder /\ \A p \in Procs : AtHand(p)

\* The file process p has open.
File(p) == disk[at[p]][fd[p]]

\* Nobody writes what process p has open.
Exclusive(p) == at[p] \notin clashed \/ Procs = {p}

\* Then p finds in the file what it has put there, or what it has measured.
Undisturbed(p) ==
    /\ pc[p] \in {"write", "write2"} => Holders(p, at[p], fd[p]) = {}
    /\ pc[p] = "read" => Writers(p, at[p], fd[p]) = {}
    /\ pc[p] = "write" => File(p) = <<>>
    /\ pc[p] = "write2" => File(p) = SubSeq(Bytes(write[p]), 1, 2)
    /\ pc[p] = "read" => size[p] = Len(File(p))

EInv == TInv /\ \A p \in Procs : Exclusive(p) => Undisturbed(p)

\* What s has of a value was set for k.
Own(s, k) == \A j \in DOMAIN s : s[j].kind = "text" => s[j].of \in everSet[k]
Clean(k) == path[k] \notin clashed

\* An entry, up to where its writer died or was cut off.
Filled(c, k) == c = <<>> \/ (Readable(c) /\ Beginning(Tail(c), k))

OwnFile(k, i) ==
    /\ Own(disk[path[k]][i], k)
    /\ Clean(k) => Filled(disk[path[k]][i], k)
OwnWrite(p) ==
    write[p].key \in Keys =>
        /\ Own(write[p].value, write[p].key)
        /\ Clean(write[p].key) => Beginning(write[p].value, write[p].key)
OwnResult(p) ==
    call[p].result # NoValue =>
        /\ Own(call[p].result, call[p].key)
        /\ Clean(call[p].key) => Beginning(call[p].result, call[p].key)
ValuesOwn ==
    /\ \A k \in Keys, i \in Inodes : OwnFile(k, i)
    /\ \A p \in Procs : OwnWrite(p) /\ OwnResult(p)

VInv == EInv /\ ValuesOwn

-----------------------------------------------------------------------------
\* What TypeOK says of one process.
LEMMA Typed ==
    ASSUME TypeOK, NEW p \in Procs
    PROVE  /\ dir \in [Paths -> Inodes \cup {NoFile}] /\ disk \in [Paths -> [Inodes -> Seq(Cells)]]
           /\ next_usage[p] \in 1 .. MaxUsage + 1 /\ next_usage[p] \in Nat
           /\ write[p] \in Entries \cup {NoEntry}
           /\ at[p] \in Paths \cup {NoFile} /\ fd[p] \in Inodes \cup {NoFile} /\ size[p] \in Nat
           /\ todo[p] \in SUBSET Paths
           /\ call[p].key \in Keys \cup {NoValue} /\ call[p].result \in Written \cup {NoValue}
           /\ call[p] = [key |-> call[p].key, result |-> call[p].result]
           /\ everSet \in [Keys -> SUBSET Values] /\ clashed \in SUBSET Paths
  BY DirectoryAssumption DEF TypeOK

\* A stamp can be taken as long as the bound is not passed.
LEMMA StampTaken ==
    ASSUME TypeOK, NEW p \in Procs, next_usage[p] <= MaxUsage
    PROVE  next_usage[p] \in 1 .. MaxUsage
<1>1. MaxUsage \in Nat
  BY DirectoryAssumption
<1>2. next_usage[p] \in 1 .. MaxUsage + 1
  BY DEF TypeOK
<1>3. QED
  BY <1>1, <1>2

\* The contents under a name are those of one of its files.
LEMMA ContentsFacts ==
    ASSUME TypeOK, FilesInOrder, NEW q \in Paths
    PROVE  /\ Contents(q) \in Seq(Cells) /\ InOrder(q, Contents(q))
           /\ dir[q] # NoFile => dir[q] \in Inodes /\ Contents(q) = disk[q][dir[q]]
           /\ dir[q] = NoFile => Contents(q) = <<>> /\ ~Readable(Contents(q))
<1>1. dir[q] \in Inodes \cup {NoFile} /\ disk[q] \in [Inodes -> Seq(Cells)]
  BY DEF TypeOK
<1>2. <<>> \in Seq(Cells) /\ InOrder(q, <<>>) /\ ~Readable(<<>>)
  BY DEF InOrder, WellFormed, Readable
<1>3. CASE dir[q] = NoFile
  BY <1>2, <1>3 DEF Contents
<1>4. CASE dir[q] # NoFile
  BY <1>1, <1>4 DEF Contents, FilesInOrder
<1>5. QED
  BY <1>3, <1>4

\* Beginnings of values that were set.
LEMMA Beginnings ==
    ASSUME everSet \in [Keys -> SUBSET Values], NEW k \in Keys
    PROVE  /\ \A v \in everSet[k] : v \in Values /\ Beginning(Text(v), k) /\ Own(Text(v), k)
           /\ everSet[k] # {} => Beginning(<<>>, k)
           /\ Own(<<>>, k)
           /\ \A t : Beginning(t, k) =>
                 /\ t \in Written /\ everSet[k] # {}
                 /\ \A m \in 0 .. Len(t) : Beginning(SubSeq(t, 1, m), k)
                 /\ Long = {} => t = <<>> \/ \E v \in everSet[k] : t = Text(v)
<1>1. \A v \in everSet[k] : v \in Values
  OBVIOUS
<1>2. ASSUME NEW v \in everSet[k]
      PROVE  /\ Text(v) \in Written /\ Len(Text(v)) \in Nat
             /\ SubSeq(Text(v), 1, Len(Text(v))) = Text(v)
             /\ SubSeq(Text(v), 1, 0) = <<>>
             /\ v \notin Long => Len(Text(v)) = 1
             /\ Own(Text(v), k)
  <2> DEFINE n == Len(Text(v))
             C == TextCells \cup {Nul}
  <2>1. Text(v) \in Written /\ Text(v) \in Seq(C) /\ n \in Nat /\ (v \notin Long => n = 1)
    <3>1. Text(v) \in Written /\ Len(Text(v)) \in {1, 2} /\ (v \notin Long => Len(Text(v)) = 1)
      BY <1>1, <1>2, TextFacts
    <3>2. QED
      BY <3>1 DEF Written
  <2> HIDE DEF C
  <2>2. SubSeq(Text(v), 1, n) = Text(v)
    <3>1. /\ SubSeq(Text(v), 1, n) \in Seq(C)
          /\ Len(SubSeq(Text(v), 1, n)) = IF 1 <= n THEN n - 1 + 1 ELSE 0
          /\ \A i \in 1 .. n - 1 + 1 : SubSeq(Text(v), 1, n)[i] = Text(v)[1 + i - 1]
      BY <2>1, <1>1, TextFacts, SubSeqProperties
    <3> HIDE DEF n
    <3>2. Len(SubSeq(Text(v), 1, n)) = n /\ \A i \in 1 .. n : SubSeq(Text(v), 1, n)[i] = Text(v)[i]
      BY <2>1, <3>1
    <3>3. QED
      BY <2>1, <3>1, <3>2, SeqEqual DEF n
  <2>3. SubSeq(Text(v), 1, 0) = <<>>
    <3>1. SubSeq(Text(v), 1, 0) \in Seq(C) /\ Len(SubSeq(Text(v), 1, 0)) = IF 1 <= 0 THEN 0 - 1 + 1 ELSE 0
      BY <2>1, SubSeqProperties
    <3>2. QED
      BY <3>1, EmptySeq
  <2>4. Own(Text(v), k)
    BY <1>1, <1>2, TextFacts DEF Own
  <2>5. QED
    BY <2>1, <2>2, <2>3, <2>4
<1>3. \A v \in everSet[k] : Beginning(Text(v), k) /\ Beginning(<<>>, k)
  <2>1. SUFFICES ASSUME NEW v \in everSet[k] PROVE Beginning(Text(v), k) /\ Beginning(<<>>, k)
    OBVIOUS
  <2>2. 0 \in 0 .. Len(Text(v)) /\ Len(Text(v)) \in 0 .. Len(Text(v))
    BY <1>2
  <2>3. QED
    BY <1>2, <2>2 DEF Beginning
<1>4. Own(<<>>, k)
  BY DEF Own
<1>5. ASSUME NEW t, Beginning(t, k)
      PROVE  /\ t \in Written /\ everSet[k] # {}
             /\ \A m \in 0 .. Len(t) : Beginning(SubSeq(t, 1, m), k)
             /\ Long = {} => t = <<>> \/ \E v \in everSet[k] : t = Text(v)
  <2>1. PICK v \in everSet[k] : \E n \in 0 .. Len(Text(v)) : t = SubSeq(Text(v), 1, n)
    BY <1>5 DEF Beginning
  <2>2. PICK n \in 0 .. Len(Text(v)) : t = SubSeq(Text(v), 1, n)
    BY <2>1
  <2> DEFINE s == Text(v)
             C == TextCells \cup {Nul}
  <2>3. s \in Seq(C) /\ Len(s) \in Nat /\ n \in Nat /\ n <= Len(s) /\ 1 \in 1 .. Len(s) + 1
    BY <1>2 DEF Written
  <2> HIDE DEF s, C
  <2>4. t \in Seq(C) /\ Len(t) = n /\ \A i \in 1 .. n : t[i] = s[i]
    BY <2>2, <2>3, SubSeqProperties DEF s
  <2>5. ASSUME NEW m \in 0 .. Len(t) PROVE Beginning(SubSeq(t, 1, m), k)
    <3>1. m \in Nat /\ m <= n /\ m <= Len(s)
      BY <2>3, <2>4, <2>5
    <3>2. SubSeq(t, 1, m) \in Seq(C) /\ Len(SubSeq(t, 1, m)) = m /\ \A i \in 1 .. m : SubSeq(t, 1, m)[i] = t[i]
      BY <2>4, <3>1, SubSeqProperties
    <3>3. SubSeq(s, 1, m) \in Seq(C) /\ Len(SubSeq(s, 1, m)) = m /\ \A i \in 1 .. m : SubSeq(s, 1, m)[i] = s[i]
      BY <2>3, <3>1, SubSeqProperties
    <3>4. \A i \in 1 .. m : t[i] = s[i]
      BY <2>4, <3>1
    <3>5. SubSeq(t, 1, m) = SubSeq(s, 1, m)
      BY <3>2, <3>3, <3>4, SeqEqual
    <3>6. m \in 0 .. Len(s)
      BY <2>3, <3>1
    <3>7. QED
      BY <2>1, <3>5, <3>6 DEF Beginning, s
  <2>6. ASSUME Long = {} PROVE t = <<>> \/ \E w \in everSet[k] : t = Text(w)
    <3>1. Len(s) = 1
      BY <1>2, <2>6 DEF s
    <3>2. n = 0 \/ n = Len(s)
      BY <2>3, <3>1
    <3>3. QED
      BY <1>2, <2>1, <2>2, <3>2 DEF s
  <2>7. QED
    BY <2>1, <2>4, <2>5, <2>6 DEF Written, C
<1>6. QED
  BY <1>1, <1>2, <1>3, <1>4, <1>5

-----------------------------------------------------------------------------
\* What get_file of process p can come to, c being what it takes for the file.
Fetched(p, c) ==
    /\ c \in Seq(Cells) /\ WellFormed(c)
    /\ Readable(c) => pc[p] = "read" /\ Readable(File(p)) /\ c[1] = File(p)[1]
    /\ From(c, File(p), File(p))
    /\ \/ /\ c = <<>> /\ clashed' = clashed
          /\ failed' = (failed \/ Contents(at[p]) # <<>>)
          /\ missed' = [missed EXCEPT ![p] = @ \/ (task[p] = "scan" /\ Contents(at[p]) # <<>>)]
       \/ /\ pc[p] = "read"
          /\ size[p] = Len(File(p)) => c = File(p)
          /\ clashed' = clashed /\ failed' = failed /\ missed' = missed
       \/ /\ pc[p] = "read"
          /\ size[p] = Len(File(p)) /\ Readable(File(p)) => Readable(c)
          /\ clashed' = clashed \cup {at[p]} /\ failed' = TRUE /\ missed' = missed

LEMMA ReadCases ==
    ASSUME TInv, NEW p \in Procs, ReadFile(p) \/ ReadPart(p) \/ CannotRead(p)
    PROVE  /\ pc[p] \in {"fetch", "read"}
           /\ dir' = dir /\ disk' = disk /\ todo' = todo /\ crashes' = crashes /\ everSet' = everSet
           /\ \E c : Fetched(p, c) /\ Took(p, c)
<1>1. pc[p] = "read" => File(p) \in Seq(Cells) /\ WellFormed(File(p)) /\ size[p] \in Nat
  <2>1. AtHand(p) /\ TypeOK /\ FilesInOrder
    BY DEF TInv
  <2>2. pc[p] = "read" => at[p] \in Paths /\ fd[p] \in Inodes
    BY <2>1 DEF AtHand
  <2>3. QED
    BY <2>1, <2>2, Typed DEF File, FilesInOrder, InOrder
<1>2. CASE ReadFile(p)
  <2> DEFINE c == Sized(File(p), size[p])
  <2>1. /\ pc[p] = "read" /\ Took(p, c)
        /\ dir' = dir /\ disk' = disk /\ clashed' = clashed /\ todo' = todo
        /\ crashes' = crashes /\ everSet' = everSet /\ failed' = failed /\ missed' = missed
    BY <1>2 DEF ReadFile, File, fileVars, history
  <2>2. Fetched(p, c)
    BY <1>1, <2>1, SizedFacts DEF Fetched
  <2>3. QED
    BY <2>1, <2>2
<1>3. CASE ReadPart(p)
  <2>1. /\ pc[p] = "read"
        /\ dir' = dir /\ disk' = disk /\ todo' = todo
        /\ crashes' = crashes /\ everSet' = everSet /\ missed' = missed
        /\ failed' = TRUE /\ clashed' = clashed \cup {at[p]}
        /\ \E n \in 1 .. Len(File(p)) - 1 : Took(p, Sized(SubSeq(File(p), 1, n), size[p]))
    BY <1>3 DEF ReadPart, File
  <2>2. PICK n \in 1 .. Len(File(p)) - 1 : Took(p, Sized(SubSeq(File(p), 1, n), size[p]))
    BY <2>1
  <2> DEFINE f == File(p)
             d == SubSeq(f, 1, n)
             c == Sized(d, size[p])
  <2>3. f \in Seq(Cells) /\ WellFormed(f) /\ size[p] \in Nat /\ Len(f) \in Nat /\ DOMAIN f = 1 .. Len(f)
        /\ n \in Nat /\ n >= 1 /\ n <= Len(f)
    BY <1>1, <2>1, <2>2
  <2> HIDE DEF f
  <2>4. d \in Seq(Cells) /\ Len(d) = n /\ \A i \in 1 .. n : d[i] = f[i]
    BY <2>3, SubSeqProperties
  <2>5. DOMAIN d = 1 .. n /\ d # <<>> /\ f # <<>> /\ d[1] = f[1]
    BY <2>3, <2>4, LenProperties, EmptySeq
  <2> HIDE DEF d
  <2>6. WellFormed(d) /\ (Readable(d) <=> Readable(f))
    BY <2>3, <2>4, <2>5 DEF WellFormed, Readable
  <2>7. /\ c \in Seq(Cells) /\ WellFormed(c)
        /\ Readable(c) => Readable(d) /\ c[1] = d[1]
        /\ Readable(d) /\ size[p] > 0 => Readable(c)
        /\ From(c, d, d)
    BY <2>3, <2>4, <2>6, SizedFacts
  <2> HIDE DEF c
  <2>8. From(c, f, f)
    BY <2>3, <2>4, <2>5, <2>7 DEF From
  <2>9. size[p] = Len(f) => size[p] > 0
    BY <2>3
  <2>10. Fetched(p, c)
    BY <2>1, <2>5, <2>6, <2>7, <2>8, <2>9 DEF Fetched, f
  <2>11. QED
    BY <2>1, <2>2, <2>10 DEF c, d, f
<1>4. CASE CannotRead(p)
  <2>1. /\ pc[p] \in {"fetch", "read"} /\ Took(p, <<>>)
        /\ dir' = dir /\ disk' = disk /\ clashed' = clashed /\ todo' = todo
        /\ crashes' = crashes /\ everSet' = everSet
        /\ failed' = (failed \/ Contents(at[p]) # <<>>)
        /\ missed' = [missed EXCEPT ![p] = @ \/ (task[p] = "scan" /\ Contents(at[p]) # <<>>)]
    BY <1>4 DEF CannotRead, fileVars
  <2>2. <<>> \in Seq(Cells) /\ WellFormed(<<>>) /\ ~Readable(<<>>) /\ From(<<>>, File(p), File(p))
    BY DEF WellFormed, Readable, From
  <2>3. Fetched(p, <<>>)
    BY <2>1, <2>2 DEF Fetched
  <2>4. QED
    BY <2>1, <2>3
<1>5. QED
  BY <1>2, <1>3, <1>4

\* An action of p leaves what another process is about.
Alike(r) ==
    /\ next_usage'[r] = next_usage[r] /\ pc'[r] = pc[r] /\ task'[r] = task[r]
    /\ write'[r] = write[r] /\ at'[r] = at[r] /\ fd'[r] = fd[r] /\ size'[r] = size[r]
    /\ todo'[r] = todo[r] /\ call'[r] = call[r] /\ missed'[r] = missed[r]

LEMMA OthersStep ==
    ASSUME TInv, NEW p \in Procs, Process(p), NEW r \in Procs, r # p
    PROVE  Alike(r)
<1> USE DEF Alike, Goto, WriteOver, Close, openVars, callVars, fileVars, history
<1>1. TypeOK
  BY DEF TInv
<1>2. CASE \E k \in Keys : get(p, k)
  BY <1>1, <1>2 DEF get, TypeOK
<1>3. CASE \E k \in Keys : \E v \in Values : set(p, k, v)
  BY <1>1, <1>3 DEF set, TypeOK
<1>4. CASE Open(p) \/ OpenFails(p) \/ WritePart(p) \/ Write(p)
  BY <1>1, <1>4 DEF Open, OpenFails, WritePart, Write, TypeOK
<1>5. CASE has(p) \/ HasThrows(p) \/ OpenToRead(p)
  BY <1>1, <1>5 DEF has, HasThrows, OpenToRead, TypeOK
<1>6. CASE ReadFile(p) \/ ReadPart(p) \/ CannotRead(p)
  <2>1. PICK c : Fetched(p, c) /\ Took(p, c)
    BY <1>6, ReadCases
  <2>2. todo' = todo
    BY <1>6, ReadCases
  <2>3. missed'[r] = missed[r]
    BY <1>1, <2>1 DEF Fetched, TypeOK
  <2>4. fd'[r] = fd[r] /\ size'[r] = size[r] /\ at'[r] = at[r]
    BY <1>1, <2>1 DEF Took, TypeOK
  <2>5. /\ pc'[r] = pc[r] /\ task'[r] = task[r] /\ write'[r] = write[r]
        /\ call'[r] = call[r] /\ next_usage'[r] = next_usage[r]
    BY <1>1, <2>1 DEF Took, LookedUp, ReadAgain, Scanned, TypeOK
  <2>6. QED
    BY <2>2, <2>3, <2>4, <2>5
<1>7. CASE clean_up(p) \/ (\E q \in Paths : ScanFile(p, q)) \/ ListFails(p)
  BY <1>1, <1>7 DEF clean_up, ScanFile, ListFails, TypeOK
<1>8. CASE Remove(p) \/ RemoveFails(p) \/ ScanDone(p)
  BY <1>1, <1>8 DEF Remove, RemoveFails, ScanDone, TypeOK
<1>9. CASE Restart(p)
  BY <1>1, <1>9 DEF Restart, TypeOK
<1>10. QED
  BY <1>2, <1>3, <1>4, <1>5, <1>6, <1>7, <1>8, <1>9 DEF Process

-----------------------------------------------------------------------------
\* What p writes to its file next.
LEMMA PutStep ==
    ASSUME TInv, NEW p \in Procs, pc[p] \in {"write", "write2"},
           NEW from, NEW to,
           \/ pc[p] = "write" /\ Len(write[p].value) > 1 /\ from = 0 /\ to = 2
           \/ pc[p] = "write" /\ from = 0 /\ to = Len(Bytes(write[p]))
           \/ pc[p] = "write2" /\ from = 2 /\ to = Len(Bytes(write[p]))
    PROVE  /\ write[p] \in Entries /\ at[p] \in Paths /\ fd[p] \in Inodes
           /\ from \in {0, 2} /\ to \in Nat /\ from < to /\ to <= Len(Bytes(write[p]))
           /\ File(p) \in Seq(Cells) /\ InOrder(at[p], File(p))
           /\ LET w == WriteAt(File(p), from, SubSeq(Bytes(write[p]), from + 1, to))
              IN  w \in Seq(Cells) /\ InOrder(at[p], w)
<1>1. AtHand(p) /\ TypeOK /\ FilesInOrder
  BY DEF TInv
<1>2. write[p] \in Entries /\ at[p] = path[write[p].key] /\ fd[p] \in Inodes
      /\ (pc[p] = "write2" => Len(write[p].value) > 1)
  BY <1>1 DEF AtHand
<1>3. Len(Bytes(write[p])) = Len(write[p].value) + 1 /\ Len(write[p].value) \in Nat /\ write[p].key \in Keys
      /\ Bytes(write[p])[1].of = write[p].key
  BY <1>2, BytesFacts
<1>4. at[p] \in Paths
  BY <1>2, <1>3, DirectoryAssumption
<1>5. from \in {0, 2} /\ to \in Nat /\ from < to /\ to <= Len(Bytes(write[p]))
  BY <1>2, <1>3
<1>6. File(p) \in Seq(Cells) /\ InOrder(at[p], File(p))
  BY <1>1, <1>2, <1>4, Typed DEF File, FilesInOrder
<1> DEFINE w == WriteAt(File(p), from, SubSeq(Bytes(write[p]), from + 1, to))
<1>7. /\ w \in Seq(Cells) /\ WellFormed(w)
      /\ from = 0 => w[1] = Bytes(write[p])[1]
      /\ from = 2 => w[1] = Nul \/ (File(p) # <<>> /\ w[1] = File(p)[1])
  BY <1>2, <1>5, <1>6, PutFacts DEF InOrder
<1> HIDE DEF w
<1>8. InOrder(at[p], w)
  <2>1. SUFFICES ASSUME Readable(w) PROVE path[w[1].of] = at[p]
    BY <1>7 DEF InOrder
  <2>2. CASE from = 0
    BY <1>2, <1>3, <1>7, <2>2
  <2>3. CASE from = 2
    <3>1. w[1] # Nul
      BY <2>1, CellFacts DEF Readable
    <3>2. Readable(File(p)) /\ w[1] = File(p)[1]
      BY <1>7, <2>1, <2>3, <3>1 DEF Readable
    <3>3. QED
      BY <1>6, <3>2 DEF InOrder
  <2>4. QED
    BY <1>5, <2>2, <2>3
<1>9. QED
  BY <1>2, <1>4, <1>5, <1>6, <1>7, <1>8 DEF w

\* One file gets other contents.
LEMMA FileChanged ==
    ASSUME TypeOK, FilesInOrder, NEW q \in Paths, NEW i \in Inodes, NEW c \in Seq(Cells), InOrder(q, c),
           disk' = [disk EXCEPT ![q][i] = c]
    PROVE  /\ disk' \in [Paths -> [Inodes -> Seq(Cells)]] /\ FilesInOrder'
           /\ disk'[q][i] = c
           /\ \A r \in Paths, j \in Inodes : r # q \/ j # i => disk'[r][j] = disk[r][j]
<1>1. disk \in [Paths -> [Inodes -> Seq(Cells)]] /\ disk[q] \in [Inodes -> Seq(Cells)]
  BY DEF TypeOK
<1> DEFINE f == [disk[q] EXCEPT ![i] = c]
<1>2. f \in [Inodes -> Seq(Cells)] /\ f[i] = c /\ \A j \in Inodes : j # i => f[j] = disk[q][j]
  BY <1>1
<1>3. disk' = [disk EXCEPT ![q] = f]
  OBVIOUS
<1> HIDE DEF f
<1>4. /\ disk' \in [Paths -> [Inodes -> Seq(Cells)]]
      /\ disk'[q] = f /\ \A r \in Paths : r # q => disk'[r] = disk[r]
  BY <1>1, <1>2, <1>3
<1>5. \A r \in Paths, j \in Inodes : r # q \/ j # i => disk'[r][j] = disk[r][j]
  BY <1>2, <1>4
<1>6. FilesInOrder'
  BY <1>2, <1>4, <1>5 DEF FilesInOrder, InOrder
<1>7. QED
  BY <1>2, <1>4, <1>5, <1>6

\* set and the writing of a file.
LEMMA WriteTypes ==
    ASSUME TInv, NEW p \in Procs,
           \/ \E k \in Keys : \E v \in Values : set(p, k, v)
           \/ Open(p) \/ OpenFails(p) \/ WritePart(p) \/ Write(p)
    PROVE  TypeOK' /\ FilesInOrder' /\ AtHand(p)'
<1> USE DEF Goto, WriteOver, Close, openVars, callVars, fileVars, history
<1>1. TypeOK /\ FilesInOrder /\ AtHand(p)
  BY DEF TInv
<1>2. ASSUME NEW k \in Keys, NEW v \in Values, set(p, k, v) PROVE TypeOK' /\ FilesInOrder' /\ AtHand(p)'
  <2>1. [key |-> k, value |-> Text(v), used |-> next_usage[p]] \in Entries
    <3>1. next_usage[p] \in 1 .. MaxUsage
      BY <1>1, <1>2, StampTaken DEF set
    <3>2. QED
      BY <3>1, TextFacts DEF Entries
  <2>2. TypeOK'
    <3>1. next_usage' \in [Procs -> 1 .. MaxUsage + 1]
      BY <1>1, <1>2, DirectoryAssumption DEF TypeOK, set
    <3>2. everSet' \in [Keys -> SUBSET Values] /\ task' \in [Procs -> {"none", "set", "get", "touch", "scan"}]
      BY <1>1, <1>2 DEF TypeOK, set
    <3>3. write' \in [Procs -> Entries \cup {NoEntry}]
      BY <1>1, <1>2, <2>1 DEF TypeOK, set
    <3>4. call' \in [Procs -> [key : Keys \cup {NoValue}, result : Written \cup {NoValue}]]
      BY <1>1, <1>2 DEF TypeOK, set, NoCall
    <3>5. QED
      BY <1>1, <1>2, <3>1, <3>2, <3>3, <3>4 DEF TypeOK, set
  <2>3. FilesInOrder'
    BY <1>1, <1>2 DEF FilesInOrder, InOrder, set
  <2>4. AtHand(p)'
    BY <1>1, <1>2, <2>1 DEF TypeOK, AtHand, set, NoCall
  <2>5. QED
    BY <2>2, <2>3, <2>4
<1>3. CASE Open(p)
  <2> DEFINE q == path[write[p].key]
  <2>1. PICK i \in NewFile(q) : /\ dir' = [dir EXCEPT ![q] = i]
                                /\ disk' = [disk EXCEPT ![q][i] = <<>>]
                                /\ at' = [at EXCEPT ![p] = q]
                                /\ fd' = [fd EXCEPT ![p] = i]
                                /\ Clash(q, Holders(p, q, i))
    BY <1>3 DEF Open
  <2>2. pc[p] = "open" /\ write[p] \in Entries
    BY <1>1, <1>3 DEF Open, AtHand
  <2>3. q \in Paths
    BY <2>2, BytesFacts, DirectoryAssumption
  <2>4. i \in Inodes
    BY <1>1, <2>1, <2>3 DEF NewFile, TypeOK
  <2>5. <<>> \in Seq(Cells) /\ InOrder(q, <<>>)
    BY DEF InOrder, WellFormed, Readable
  <2>6. disk' \in [Paths -> [Inodes -> Seq(Cells)]] /\ FilesInOrder'
    BY <1>1, <2>1, <2>3, <2>4, <2>5, FileChanged
  <2>7. clashed' \in SUBSET Paths
    BY <1>1, <2>1, <2>3 DEF Clash, TypeOK
  <2>8. TypeOK'
    BY <1>1, <1>3, <2>1, <2>3, <2>4, <2>6, <2>7 DEF TypeOK, Open
  <2>9. AtHand(p)'
    BY <1>1, <1>3, <2>1, <2>2, <2>4 DEF TypeOK, AtHand, Open
  <2>10. QED
    BY <2>6, <2>8, <2>9
<1>4. CASE OpenFails(p)
  <2>1. TypeOK'
    BY <1>1, <1>4 DEF TypeOK, OpenFails
  <2>2. FilesInOrder'
    BY <1>1, <1>4 DEF FilesInOrder, InOrder, OpenFails
  <2>3. AtHand(p)'
    BY <1>1, <1>4 DEF TypeOK, AtHand, OpenFails
  <2>4. QED
    BY <2>1, <2>2, <2>3
<1>5. ASSUME WritePart(p) \/ Write(p), disk' \in [Paths -> [Inodes -> Seq(Cells)]], FilesInOrder'
      PROVE  TypeOK' /\ AtHand(p)'
  <2>1. TypeOK'
    <3>1. CASE WritePart(p)
      BY <1>1, <1>5, <3>1 DEF TypeOK, WritePart
    <3>2. CASE Write(p)
      <4>1. /\ write' \in [Procs -> Entries \cup {NoEntry}]
            /\ task' \in [Procs -> {"none", "set", "get", "touch", "scan"}]
            /\ at' \in [Procs -> Paths \cup {NoFile}] /\ fd' \in [Procs -> Inodes \cup {NoFile}]
            /\ size' \in [Procs -> Nat]
        BY <1>1, <3>2 DEF TypeOK, Write
      <4>2. pc' \in [Procs -> {"idle", "open", "write", "write2", "has", "fetch", "read",
                               "cleanup", "scan", "remove"}]
        BY <1>1, <3>2 DEF TypeOK, Write
      <4>3. QED
        BY <1>1, <1>5, <3>2, <4>1, <4>2 DEF TypeOK, Write
    <3>3. QED
      BY <1>5, <3>1, <3>2
  <2>2. AtHand(p)'
    <3>1. CASE WritePart(p)
      BY <1>1, <3>1 DEF TypeOK, AtHand, WritePart
    <3>2. CASE Write(p)
      BY <1>1, <3>2 DEF TypeOK, AtHand, Write
    <3>3. QED
      BY <1>5, <3>1, <3>2
  <2>3. QED
    BY <2>1, <2>2
<1>6. ASSUME NEW from, NEW to, pc[p] \in {"write", "write2"}, PutFrom(p, from, to),
             \/ pc[p] = "write" /\ Len(write[p].value) > 1 /\ from = 0 /\ to = 2
             \/ pc[p] = "write" /\ from = 0 /\ to = Len(Bytes(write[p]))
             \/ pc[p] = "write2" /\ from = 2 /\ to = Len(Bytes(write[p]))
      PROVE  disk' \in [Paths -> [Inodes -> Seq(Cells)]] /\ FilesInOrder'
  <2> DEFINE w == WriteAt(File(p), from, SubSeq(Bytes(write[p]), from + 1, to))
  <2>1. at[p] \in Paths /\ fd[p] \in Inodes /\ w \in Seq(Cells) /\ InOrder(at[p], w)
    BY <1>6, PutStep
  <2>2. disk' = [disk EXCEPT ![at[p]][fd[p]] = w]
    BY <1>6 DEF PutFrom, File
  <2> HIDE DEF w
  <2>3. QED
    BY <1>1, <2>1, <2>2, FileChanged
<1>7. CASE WritePart(p)
  <2>1. pc[p] = "write" /\ Len(write[p].value) > 1 /\ PutFrom(p, 0, 2)
    BY <1>7 DEF WritePart
  <2>2. QED
    BY <1>5, <1>6, <1>7, <2>1
<1>8. CASE Write(p)
  <2>1. CASE disk' = disk
    BY <1>1, <1>5, <1>8, <2>1 DEF TypeOK, FilesInOrder, InOrder
  <2>2. CASE pc[p] = "write" /\ PutFrom(p, 0, Len(Bytes(write[p])))
    BY <1>5, <1>6, <1>8, <2>2
  <2>3. CASE pc[p] = "write2" /\ PutFrom(p, 2, Len(Bytes(write[p])))
    BY <1>5, <1>6, <1>8, <2>3
  <2>4. QED
    BY <1>8, <2>1, <2>2, <2>3 DEF Write
<1>9. QED
  BY <1>2, <1>3, <1>4, <1>7, <1>8

\* Where a process goes on from get_file.
LEMMA ReadTypes ==
    ASSUME TInv, NEW p \in Procs, ReadFile(p) \/ ReadPart(p) \/ CannotRead(p)
    PROVE  TypeOK' /\ FilesInOrder' /\ AtHand(p)'
<1>1. TypeOK /\ FilesInOrder /\ AtHand(p)
  BY DEF TInv
<1>2. /\ pc[p] \in {"fetch", "read"}
      /\ dir' = dir /\ disk' = disk /\ todo' = todo /\ crashes' = crashes /\ everSet' = everSet
  BY ReadCases
<1>3. PICK c : Fetched(p, c) /\ Took(p, c)
  BY ReadCases
<1>4. FilesInOrder'
  BY <1>1, <1>2 DEF FilesInOrder, InOrder
<1>5. at[p] \in Paths /\ task[p] \in {"get", "touch", "scan"}
  BY <1>1, <1>2 DEF AtHand
<1>6. clashed' \in SUBSET Paths /\ failed' \in BOOLEAN /\ missed' \in [Procs -> BOOLEAN]
  BY <1>1, <1>3, <1>5 DEF Fetched, TypeOK
<1>7. Readable(c) => /\ Tail(c) \in Written /\ c[1].of \in Keys /\ c[1].n \in 1 .. MaxUsage
                     /\ path[c[1].of] = at[p]
  <2>1. SUFFICES ASSUME Readable(c)
                 PROVE  /\ Tail(c) \in Written /\ c[1].of \in Keys /\ c[1].n \in 1 .. MaxUsage
                        /\ path[c[1].of] = at[p]
    OBVIOUS
  <2>2. c \in Seq(Cells) /\ WellFormed(c) /\ c # <<>> /\ c[1].kind = "header"
        /\ pc[p] = "read" /\ Readable(File(p)) /\ c[1] = File(p)[1]
    BY <1>3, <2>1 DEF Fetched, Readable
  <2>3. Tail(c) \in Written /\ c[1] \in Cells
    BY <2>2, TailWritten
  <2>4. c[1].of \in Keys /\ c[1].n \in 1 .. MaxUsage
    BY <2>2, <2>3, CellFacts
  <2>5. InOrder(at[p], File(p))
    BY <1>1, <1>5, <2>2 DEF FilesInOrder, AtHand, File
  <2>6. QED
    BY <2>2, <2>3, <2>4, <2>5 DEF InOrder
<1>8. /\ fd' = [fd EXCEPT ![p] = NoFile] /\ size' = [size EXCEPT ![p] = 0]
      /\ at' = IF pc'[p] = "remove" THEN at ELSE [at EXCEPT ![p] = NoFile]
      /\ LookedUp(p, c) \/ ReadAgain(p, c) \/ Scanned(p, c)
  BY <1>3 DEF Took
<1>9. /\ fd' \in [Procs -> Inodes \cup {NoFile}] /\ size' \in [Procs -> Nat]
      /\ at' \in [Procs -> Paths \cup {NoFile}] /\ fd'[p] = NoFile
      /\ pc'[p] = "remove" => at'[p] = at[p]
  BY <1>1, <1>8 DEF TypeOK
<1>11. CASE LookedUp(p, c)
  <2>1. task[p] = "get" /\ call[p].key \in Keys /\ at[p] = path[call[p].key] /\ next_usage[p] <= MaxUsage
    BY <1>1, <1>2, <1>11 DEF LookedUp, AtHand
  <2>2. CASE Readable(c)
    <3> DEFINE e == [key |-> call[p].key, value |-> Empty, used |-> next_usage[p]]
    <3>1. e \in Entries
      <4>1. next_usage[p] \in 1 .. MaxUsage /\ Empty \in Written
        BY <1>1, <2>1, StampTaken DEF Empty, Written
      <4>2. QED
        BY <2>1, <4>1 DEF Entries
    <3>2. /\ call' = [call EXCEPT ![p].result = Tail(c)]
          /\ write' = [write EXCEPT ![p] = e]
          /\ next_usage' = [next_usage EXCEPT ![p] = @ + 1]
          /\ task' = [task EXCEPT ![p] = "touch"]
          /\ pc' = [pc EXCEPT ![p] = "has"]
      BY <1>11, <2>2 DEF LookedUp, Goto
    <3>3. call'[p] = [key |-> call[p].key, result |-> Tail(c)]
          /\ call' \in [Procs -> [key : Keys \cup {NoValue}, result : Written \cup {NoValue}]]
      BY <1>1, <1>7, <2>2, <3>2 DEF TypeOK
    <3>4. TypeOK'
      <4>1. next_usage' \in [Procs -> 1 .. MaxUsage + 1]
        BY <1>1, <2>1, <3>2, DirectoryAssumption DEF TypeOK
      <4>2. write' \in [Procs -> Entries \cup {NoEntry}]
        BY <1>1, <3>1, <3>2 DEF TypeOK
      <4>3. /\ pc' \in [Procs -> {"idle", "open", "write", "write2", "has", "fetch", "read",
                                  "cleanup", "scan", "remove"}]
            /\ task' \in [Procs -> {"none", "set", "get", "touch", "scan"}]
        BY <1>1, <3>2 DEF TypeOK
      <4>4. QED
        BY <1>1, <1>2, <1>6, <1>9, <3>3, <4>1, <4>2, <4>3 DEF TypeOK
    <3>5. e.key = call[p].key
      OBVIOUS
    <3> HIDE DEF e
    <3>6. AtHand(p)'
      BY <1>1, <1>9, <2>1, <3>1, <3>2, <3>3, <3>5 DEF TypeOK, AtHand
    <3>7. QED
      BY <1>4, <3>4, <3>6
  <2>3. CASE ~Readable(c)
    <3>1. /\ call' = call /\ write' = write /\ next_usage' = next_usage
          /\ task' = [task EXCEPT ![p] = "none"] /\ pc' = [pc EXCEPT ![p] = "idle"]
      BY <1>11, <2>3 DEF LookedUp, Goto
    <3>2. TypeOK'
      BY <1>1, <1>2, <1>6, <1>9, <3>1 DEF TypeOK
    <3>3. AtHand(p)'
      BY <1>1, <1>9, <3>1 DEF TypeOK, AtHand
    <3>4. QED
      BY <1>4, <3>2, <3>3
  <2>4. QED
    BY <2>2, <2>3
<1>12. CASE ReadAgain(p, c)
  <2>1. /\ task[p] = "touch" /\ pc' = [pc EXCEPT ![p] = "open"]
        /\ call' = call /\ next_usage' = next_usage /\ task' = task
        /\ write' = IF Readable(c)
                    THEN [write EXCEPT ![p] = [key |-> c[1].of, value |-> Tail(c), used |-> @.used]]
                    ELSE write
    BY <1>12 DEF ReadAgain, Goto
  <2>2. write[p] \in Entries /\ call[p].key \in Keys /\ at[p] = path[call[p].key]
        /\ path[write[p].key] = path[call[p].key]
    BY <1>1, <1>2, <2>1 DEF AtHand
  <2>3. write'[p] \in Entries /\ path[write'[p].key] = path[call[p].key]
        /\ write' \in [Procs -> Entries \cup {NoEntry}]
    <3>1. CASE Readable(c)
      <4> DEFINE e == [key |-> c[1].of, value |-> Tail(c), used |-> write[p].used]
      <4>1. e \in Entries /\ e.key = c[1].of
        BY <1>7, <2>2, <3>1, BytesFacts DEF Entries
      <4>2. write' = [write EXCEPT ![p] = e]
        BY <2>1, <3>1
      <4> HIDE DEF e
      <4>3. QED
        BY <1>1, <1>7, <2>2, <3>1, <4>1, <4>2 DEF TypeOK
    <3>2. CASE ~Readable(c)
      BY <1>1, <2>1, <2>2, <3>2 DEF TypeOK
    <3>3. QED
      BY <3>1, <3>2
  <2>4. TypeOK'
    BY <1>1, <1>2, <1>6, <1>9, <2>1, <2>3 DEF TypeOK
  <2>5. AtHand(p)'
    BY <1>1, <1>9, <2>1, <2>2, <2>3 DEF TypeOK, AtHand
  <2>6. QED
    BY <1>4, <2>4, <2>5
<1>13. CASE Scanned(p, c)
  <2>1. /\ task[p] = "scan" /\ call' = call /\ write' = write /\ next_usage' = next_usage /\ task' = task
        /\ pc' = [pc EXCEPT ![p] = IF Readable(c) /\ c[1].n < break_index(p) THEN "remove" ELSE "scan"]
    BY <1>13 DEF Scanned, Goto
  <2>2. TypeOK'
    BY <1>1, <1>2, <1>6, <1>9, <2>1 DEF TypeOK
  <2>3. AtHand(p)'
    BY <1>1, <1>5, <1>9, <2>1 DEF TypeOK, AtHand
  <2>4. QED
    BY <1>4, <2>2, <2>3
<1>14. QED
  BY <1>8, <1>11, <1>12, <1>13

\* The other steps of a call, and a restart.
LEMMA CallTypes ==
    ASSUME TInv, NEW p \in Procs,
           \/ \E k \in Keys : get(p, k)
           \/ has(p) \/ HasThrows(p) \/ OpenToRead(p)
           \/ clean_up(p) \/ (\E q \in Paths : ScanFile(p, q)) \/ ListFails(p)
           \/ Remove(p) \/ RemoveFails(p) \/ ScanDone(p) \/ Restart(p)
    PROVE  TypeOK' /\ FilesInOrder' /\ AtHand(p)'
<1> USE DEF Goto, WriteOver, Close, openVars, callVars, fileVars, history
<1>1. TypeOK /\ FilesInOrder /\ AtHand(p)
  BY DEF TInv
<1>2. FilesInOrder'
  BY <1>1 DEF FilesInOrder, InOrder, get, has, HasThrows, OpenToRead, clean_up, ScanFile, ListFails,
              Remove, RemoveFails, ScanDone, Restart
<1>3. ASSUME NEW k \in Keys, get(p, k) PROVE TypeOK' /\ AtHand(p)'
  <2>1. path[k] \in Paths /\ next_usage[p] <= MaxUsage
    BY <1>3, DirectoryAssumption DEF get
  <2>2. TypeOK'
    BY <1>1, <1>3, <2>1 DEF TypeOK, get
  <2>3. AtHand(p)'
    BY <1>1, <1>3, <2>1 DEF TypeOK, AtHand, get
  <2>4. QED
    BY <2>2, <2>3
<1>4. CASE has(p)
  <2>1. call[p].key \in Keys /\ path[call[p].key] \in Paths
    BY <1>1, <1>4, DirectoryAssumption DEF AtHand, has
  <2>2. TypeOK'
    BY <1>1, <1>4, <2>1 DEF TypeOK, has
  <2>3. AtHand(p)'
    BY <1>1, <1>4, <2>1 DEF TypeOK, AtHand, has
  <2>4. QED
    BY <1>2, <2>2, <2>3
<1>5. CASE HasThrows(p)
  <2>1. TypeOK'
    BY <1>1, <1>5 DEF TypeOK, HasThrows
  <2>2. AtHand(p)'
    BY <1>1, <1>5 DEF TypeOK, AtHand, HasThrows
  <2>3. QED
    BY <1>2, <2>1, <2>2
<1>6. CASE OpenToRead(p)
  <2> DEFINE q == at[p]
  <2>1. q \in Paths /\ dir[q] # NoFile
    BY <1>1, <1>6 DEF AtHand, OpenToRead
  <2>2. dir[q] \in Inodes /\ Len(Contents(q)) \in Nat
    BY <1>1, <2>1, ContentsFacts
  <2>3. fd' = [fd EXCEPT ![p] = dir[q]] /\ size' = [size EXCEPT ![p] = Len(Contents(q))]
        /\ Clash(q, Writers(p, q, dir[q]))
    BY <1>6 DEF OpenToRead
  <2>4. clashed' \in SUBSET Paths
    BY <1>1, <2>1, <2>3 DEF Clash, TypeOK
  <2>5. fd' \in [Procs -> Inodes \cup {NoFile}] /\ size' \in [Procs -> Nat]
    BY <1>1, <2>2, <2>3 DEF TypeOK
  <2>6. TypeOK'
    BY <1>1, <1>6, <2>4, <2>5 DEF TypeOK, OpenToRead
  <2>7. AtHand(p)'
    BY <1>1, <1>6, <2>2 DEF TypeOK, AtHand, OpenToRead
  <2>8. QED
    BY <1>2, <2>6, <2>7
<1>7. CASE clean_up(p)
  <2>1. todo' \in [Procs -> SUBSET Paths]
    BY <1>1, <1>7 DEF TypeOK, clean_up
  <2>2. TypeOK'
    BY <1>1, <1>7, <2>1 DEF TypeOK, clean_up
  <2>3. AtHand(p)'
    BY <1>1, <1>7 DEF TypeOK, AtHand, clean_up
  <2>4. QED
    BY <1>2, <2>2, <2>3
<1>8. ASSUME NEW q \in Paths, ScanFile(p, q) PROVE TypeOK' /\ AtHand(p)'
  <2>1. TypeOK'
    BY <1>1, <1>8 DEF TypeOK, ScanFile
  <2>2. AtHand(p)'
    BY <1>1, <1>8 DEF TypeOK, AtHand, ScanFile
  <2>3. QED
    BY <2>1, <2>2
<1>9. CASE ListFails(p) \/ ScanDone(p)
  <2>1. TypeOK'
    BY <1>1, <1>9 DEF TypeOK, ListFails, ScanDone
  <2>2. AtHand(p)'
    BY <1>1, <1>9 DEF TypeOK, AtHand, ListFails, ScanDone
  <2>3. QED
    BY <1>2, <2>1, <2>2
<1>10. CASE Remove(p) \/ RemoveFails(p)
  <2>1. at[p] \in Paths
    BY <1>1, <1>10 DEF AtHand, Remove, RemoveFails
  <2>2. TypeOK'
    BY <1>1, <1>10, <2>1 DEF TypeOK, Remove, RemoveFails
  <2>3. AtHand(p)'
    BY <1>1, <1>10 DEF TypeOK, AtHand, Remove, RemoveFails
  <2>4. QED
    BY <1>2, <2>2, <2>3
<1>11. CASE Restart(p)
  <2>1. /\ next_usage' \in [Procs -> 1 .. MaxUsage + 1] /\ crashes' \in 0 .. MaxCrashes
    BY <1>1, <1>11, DirectoryAssumption DEF TypeOK, Restart
  <2>2. /\ write' \in [Procs -> Entries \cup {NoEntry}] /\ todo' \in [Procs -> SUBSET Paths]
        /\ call' \in [Procs -> [key : Keys \cup {NoValue}, result : Written \cup {NoValue}]]
        /\ missed' \in [Procs -> BOOLEAN]
    BY <1>1, <1>11 DEF TypeOK, Restart, NoCall
  <2>3. /\ at' \in [Procs -> Paths \cup {NoFile}] /\ fd' \in [Procs -> Inodes \cup {NoFile}]
        /\ size' \in [Procs -> Nat] /\ task' \in [Procs -> {"none", "set", "get", "touch", "scan"}]
    BY <1>1, <1>11 DEF TypeOK, Restart
  <2>4. TypeOK'
    BY <1>1, <1>11, <2>1, <2>2, <2>3 DEF TypeOK, Restart
  <2>5. AtHand(p)'
    BY <1>1, <1>11 DEF TypeOK, AtHand, Restart, NoCall
  <2>6. QED
    BY <1>2, <2>4, <2>5
<1>12. QED
  BY <1>2, <1>3, <1>4, <1>5, <1>6, <1>7, <1>8, <1>9, <1>10, <1>11

LEMMA TypeStep ==
    ASSUME TInv, NEW p \in Procs, Process(p)
    PROVE  TInv'
<1>1. TypeOK' /\ FilesInOrder' /\ AtHand(p)'
  BY WriteTypes, ReadTypes, CallTypes DEF Process
<1>2. ASSUME NEW r \in Procs, r # p PROVE AtHand(r)'
  <2>1. AtHand(r) /\ Alike(r)
    BY <1>2, OthersStep DEF TInv
  <2>2. QED
    BY <2>1 DEF AtHand, Alike
<1>3. QED
  BY <1>1, <1>2 DEF TInv

LEMMA TypeStart == Init => TInv
<1> SUFFICES ASSUME Init PROVE TInv
  OBVIOUS
<1>1. 1 \in 1 .. MaxUsage + 1 /\ 0 \in 0 .. MaxCrashes
  BY DirectoryAssumption
<1>2. <<>> \in Seq(Cells) /\ \A q \in Paths : InOrder(q, <<>>)
  BY DEF InOrder, WellFormed, Readable
<1>3. TypeOK
  BY <1>1, <1>2 DEF Init, TypeOK, NoCall
<1>4. FilesInOrder
  BY <1>2 DEF Init, FilesInOrder
<1>5. ASSUME NEW p \in Procs PROVE AtHand(p)
  BY DEF Init, AtHand, NoCall
<1>6. QED
  BY <1>3, <1>4, <1>5 DEF TInv

\* The strategy's counter, its calls and the files keep their types, and
\* every entry is in the file its key names, whatever the processes do.
THEOREM TypeCorrect == Spec => []TypeOK
<1>1. TInv /\ [Next]_vars => TInv'
  <2>1. CASE Exhausted \/ UNCHANGED vars
    <3>1. ASSUME TInv, UNCHANGED vars PROVE TInv'
      BY <3>1 DEF TInv, TypeOK, FilesInOrder, InOrder, AtHand, vars, fileVars, openVars, callVars, history
    <3>2. QED
      BY <2>1, <3>1 DEF Exhausted
  <2>2. CASE \E p \in Procs : Process(p)
    BY <2>2, TypeStep
  <2>3. QED
    BY <2>1, <2>2 DEF Next
<1>2. TInv => TypeOK
  BY DEF TInv
<1>3. QED
  BY <1>1, <1>2, TypeStart, PTL DEF Spec

-----------------------------------------------------------------------------
Writing == {"write", "write2"}

\* What p has open after a step, and what it found there when it opened it.
HoldStep(p) ==
    \/ fd'[p] = NoFile
    \/ at'[p] = at[p] /\ fd'[p] = fd[p] /\ (pc'[p] \in Writing => pc[p] \in Writing)
    \/ pc'[p] = "write" /\ Clash(at'[p], Holders(p, at'[p], fd'[p]))
    \/ pc'[p] = "read" /\ Clash(at'[p], Writers(p, at'[p], fd'[p]))

\* Only what p writes, or opens for writing, changes.
DiskStep(p) ==
    \A q \in Paths, i \in Inodes :
        \/ disk'[q][i] = disk[q][i]
        \/ pc[p] \in Writing /\ q = at[p] /\ i = fd[p]
        \/ q = at'[p] /\ i = fd'[p] /\ Clash(q, Holders(p, q, i))

LEMMA FileStep ==
    ASSUME TInv, NEW p \in Procs, Process(p)
    PROVE  clashed \subseteq clashed' /\ HoldStep(p) /\ DiskStep(p)
<1> USE DEF Goto, WriteOver, Close, openVars, callVars, fileVars, history
<1>1. TypeOK /\ FilesInOrder /\ AtHand(p)
  BY DEF TInv
<1>2. CASE \/ \E k \in Keys : get(p, k) \/ \E v \in Values : set(p, k, v)
           \/ OpenFails(p) \/ has(p) \/ HasThrows(p) \/ clean_up(p) \/ (\E q \in Paths : ScanFile(p, q))
           \/ ListFails(p) \/ Remove(p) \/ RemoveFails(p) \/ ScanDone(p) \/ Restart(p)
  <2>1. disk' = disk /\ clashed' = clashed
    BY <1>2 DEF get, set, OpenFails, has, HasThrows, clean_up, ScanFile, ListFails, Remove, RemoveFails,
                ScanDone, Restart
  <2>2. fd'[p] = NoFile
    <3>1. CASE Restart(p)
      BY <1>1, <3>1 DEF Restart, TypeOK
    <3>2. CASE ~Restart(p)
      <4>1. fd' = fd
        BY <1>2, <3>2 DEF get, set, OpenFails, has, HasThrows, clean_up, ScanFile, ListFails, Remove,
                          RemoveFails, ScanDone
      <4>2. pc[p] \notin {"write", "write2", "read"}
        BY <1>2, <3>2 DEF get, set, OpenFails, has, HasThrows, clean_up, ScanFile, ListFails, Remove,
                          RemoveFails, ScanDone
      <4>3. QED
        BY <1>1, <4>1, <4>2 DEF AtHand
    <3>3. QED
      BY <3>1, <3>2
  <2>3. QED
    BY <2>1, <2>2 DEF HoldStep, DiskStep
<1>3. CASE Open(p)
  <2> DEFINE q == path[write[p].key]
  <2>1. PICK i \in NewFile(q) : /\ disk' = [disk EXCEPT ![q][i] = <<>>]
                                /\ at' = [at EXCEPT ![p] = q]
                                /\ fd' = [fd EXCEPT ![p] = i]
                                /\ Clash(q, Holders(p, q, i))
    BY <1>3 DEF Open
  <2>2. pc[p] = "open" /\ pc' = [pc EXCEPT ![p] = "write"]
    BY <1>3 DEF Open
  <2>3. q \in Paths /\ i \in Inodes
    <3>1. q \in Paths
      BY <1>1, <2>2, BytesFacts, DirectoryAssumption DEF AtHand
    <3>2. QED
      BY <1>1, <2>1, <3>1 DEF NewFile, TypeOK
  <2> HIDE DEF q
  <2>4. at'[p] = q /\ fd'[p] = i /\ pc'[p] = "write"
    BY <1>1, <2>1, <2>2 DEF TypeOK
  <2>5. \A r \in Paths, j \in Inodes : r # q \/ j # i => disk'[r][j] = disk[r][j]
    BY <1>1, <2>1, <2>3 DEF TypeOK
  <2>6. clashed \subseteq clashed'
    BY <2>1 DEF Clash
  <2>7. QED
    BY <2>1, <2>4, <2>5, <2>6 DEF HoldStep, DiskStep
<1>4. CASE WritePart(p) \/ Write(p)
  <2>1. clashed' = clashed /\ pc[p] \in Writing
    BY <1>4 DEF WritePart, Write, Writing
  <2>2. HoldStep(p)
    BY <1>1, <1>4, <2>1 DEF WritePart, Write, HoldStep, TypeOK
  <2>3. disk' = disk \/ \E c : disk' = [disk EXCEPT ![at[p]][fd[p]] = c]
    BY <1>4 DEF WritePart, Write, PutFrom
  <2>4. at[p] \in Paths /\ fd[p] \in Inodes
    BY <1>1, <2>1, BytesFacts, DirectoryAssumption DEF AtHand, Writing
  <2>5. \A r \in Paths, j \in Inodes : r # at[p] \/ j # fd[p] => disk'[r][j] = disk[r][j]
    BY <1>1, <2>3, <2>4 DEF TypeOK
  <2>6. QED
    BY <2>1, <2>2, <2>5 DEF DiskStep
<1>5. CASE OpenToRead(p)
  <2>1. /\ disk' = disk /\ at' = at /\ fd' = [fd EXCEPT ![p] = dir[at[p]]]
        /\ pc' = [pc EXCEPT ![p] = "read"]
        /\ Clash(at[p], Writers(p, at[p], dir[at[p]]))
    BY <1>5 DEF OpenToRead
  <2>2. at'[p] = at[p] /\ fd'[p] = dir[at[p]] /\ pc'[p] = "read"
    BY <1>1, <2>1 DEF TypeOK
  <2>3. QED
    BY <2>1, <2>2 DEF HoldStep, DiskStep, Clash
<1>6. CASE ReadFile(p) \/ ReadPart(p) \/ CannotRead(p)
  <2>1. disk' = disk
    BY <1>6, ReadCases
  <2>2. PICK c : Fetched(p, c) /\ Took(p, c)
    BY <1>6, ReadCases
  <2>3. fd'[p] = NoFile /\ clashed \subseteq clashed'
    BY <1>1, <2>2 DEF Took, Fetched, TypeOK
  <2>4. QED
    BY <2>1, <2>3 DEF HoldStep, DiskStep
<1>7. QED
  BY <1>2, <1>3, <1>4, <1>5, <1>6 DEF Process

\* Whoever shares a file with others is seen to clash with one who writes it.
LEMMA ExclusiveStep ==
    ASSUME EInv, NEW p \in Procs, Process(p)
    PROVE  EInv'
<1>1. TInv /\ TypeOK /\ FilesInOrder /\ AtHand(p) /\ (Exclusive(p) => Undisturbed(p))
  BY DEF EInv, TInv
<1>2. TInv'
  BY <1>1, TypeStep
<1>3. clashed \subseteq clashed' /\ HoldStep(p) /\ DiskStep(p)
  BY <1>1, FileStep
<1>4. \A x \in Procs : x # p => Alike(x)
  BY <1>1, OthersStep
<1>5. ASSUME NEW r \in Procs, r # p, Exclusive(r)'
      PROVE  Undisturbed(r)'
  <2>1. Alike(r) /\ AtHand(r)
    BY <1>4, <1>5 DEF EInv, TInv
  <2>2. at[r] \notin clashed' /\ at[r] \notin clashed
    BY <1>3, <1>5, <2>1 DEF Exclusive, Alike
  <2>3. Undisturbed(r)
    BY <2>2 DEF EInv, Exclusive
  <2>4. CASE pc[r] \in {"write", "write2", "read"}
    <3> DEFINE q == at[r]
               i == fd[r]
    <3>1. q \in Paths /\ i \in Inodes /\ i # NoFile
      BY <2>1, <2>4, BytesFacts, DirectoryAssumption DEF AtHand
    <3>2. pc[r] = "read" \/ pc[r] \in Writing
      BY <2>4 DEF Writing
    <3>3. ASSUME at'[p] = q, fd'[p] = i, Clash(q, Holders(p, q, i)) PROVE FALSE
      <4>1. r \in Holders(p, q, i)
        BY <1>5 DEF Holders
      <4>2. QED
        BY <2>2, <3>3, <4>1 DEF Clash
    <3>4. ASSUME at'[p] = q, fd'[p] = i, Clash(q, Writers(p, q, i)), pc[r] \in Writing PROVE FALSE
      <4>1. r \in Writers(p, q, i)
        BY <1>5, <3>4 DEF Holders, Writers, Writing
      <4>2. QED
        BY <2>2, <3>4, <4>1 DEF Clash
    <3>5. ~(at[p] = q /\ fd[p] = i /\ pc[p] \in Writing)
      BY <1>5, <2>3, <3>2 DEF Undisturbed, Holders, Writers, Writing
    <3>6. pc[r] \in Writing => ~(at'[p] = q /\ fd'[p] = i)
      BY <1>3, <1>5, <2>3, <3>1, <3>3, <3>4 DEF HoldStep, Undisturbed, Holders, Writing
    <3>7. ~(at'[p] = q /\ fd'[p] = i /\ pc'[p] \in Writing)
      BY <1>3, <3>1, <3>3, <3>5 DEF HoldStep, Writing
    <3>8. disk'[q][i] = disk[q][i]
      BY <1>3, <3>1, <3>3, <3>5 DEF DiskStep
    <3>9. pc[r] \in Writing => Holders(r, q, i)' = {}
      BY <1>4, <2>1, <2>3, <3>6 DEF Undisturbed, Holders, Alike, Writing
    <3>10. pc[r] = "read" => Writers(r, q, i)' = {}
      BY <1>4, <2>1, <2>3, <3>7 DEF Undisturbed, Holders, Writers, Alike, Writing
    <3>11. QED
      BY <2>1, <2>3, <3>8, <3>9, <3>10 DEF Undisturbed, File, Alike, Writing
  <2>5. CASE pc[r] \notin {"write", "write2", "read"}
    BY <2>1, <2>5 DEF Undisturbed, Alike
  <2>6. QED
    BY <2>4, <2>5
<1>6. ASSUME Exclusive(p)' PROVE Undisturbed(p)'
  <2> USE DEF Goto, openVars, fileVars
  <2>1. \A q, i : Holders(p, q, i)' = Holders(p, q, i) /\ Writers(p, q, i)' = Writers(p, q, i)
    BY <1>4 DEF Holders, Writers, Alike
  <2>2. CASE Open(p)
    <3> DEFINE q == path[write[p].key]
    <3>1. PICK i \in NewFile(q) : /\ disk' = [disk EXCEPT ![q][i] = <<>>]
                                  /\ at' = [at EXCEPT ![p] = q]
                                  /\ fd' = [fd EXCEPT ![p] = i]
                                  /\ Clash(q, Holders(p, q, i))
      BY <2>2 DEF Open
    <3>2. pc[p] = "open" /\ pc' = [pc EXCEPT ![p] = "write"]
      BY <2>2 DEF Open
    <3>3. q \in Paths
      BY <1>1, <3>2, BytesFacts, DirectoryAssumption DEF AtHand
    <3>4. i \in Inodes
      BY <1>1, <3>1, <3>3 DEF NewFile, TypeOK
    <3> HIDE DEF q
    <3>5. at'[p] = q /\ fd'[p] = i /\ pc'[p] = "write" /\ disk'[q][i] = <<>>
      BY <1>1, <3>1, <3>2, <3>3, <3>4 DEF TypeOK
    <3>6. Holders(p, q, i) = {}
      <4>1. CASE Procs = {p}
        BY <4>1 DEF Holders
      <4>2. CASE q \notin clashed'
        BY <3>1, <4>2 DEF Clash
      <4>3. QED
        BY <1>6, <3>5, <4>1, <4>2 DEF Exclusive
    <3>7. QED
      BY <2>1, <3>5, <3>6 DEF Undisturbed, File
  <2>3. CASE WritePart(p)
    <3> DEFINE b == Bytes(write[p])
    <3>1. /\ pc[p] = "write" /\ Len(write[p].value) > 1 /\ PutFrom(p, 0, 2)
          /\ pc' = [pc EXCEPT ![p] = "write2"]
          /\ at' = at /\ fd' = fd /\ write' = write /\ clashed' = clashed
      BY <2>3 DEF WritePart
    <3>2. Undisturbed(p)
      BY <1>1, <1>6, <3>1 DEF Exclusive
    <3>3. /\ write[p] \in Entries /\ at[p] \in Paths /\ fd[p] \in Inodes
          /\ File(p) \in Seq(Cells) /\ WellFormed(File(p)) /\ 2 <= Len(b)
      BY <1>1, <3>1, PutStep DEF InOrder
    <3>4. File(p) = <<>>
      BY <3>1, <3>2 DEF Undisturbed
    <3>5. WriteAt(File(p), 0, SubSeq(b, 0 + 1, 2)) = SubSeq(b, 1, 2)
      <4>1. 0 \in {0, 2} /\ 2 \in Nat /\ 0 < 2
        OBVIOUS
      <4>2. LET w == WriteAt(File(p), 0, SubSeq(Bytes(write[p]), 0 + 1, 2))
            IN  0 = 0 /\ File(p) = <<>> => w = SubSeq(Bytes(write[p]), 1, 2)
        BY <3>3, <4>1, PutFacts
      <4>3. QED
        BY <3>4, <4>2
    <3>6. disk' = [disk EXCEPT ![at[p]][fd[p]] = WriteAt(File(p), 0, SubSeq(b, 0 + 1, 2))]
      BY <3>1 DEF PutFrom, File
    <3>7. disk'[at[p]][fd[p]] = SubSeq(b, 1, 2)
      BY <1>1, <3>3, <3>5, <3>6 DEF TypeOK
    <3>8. pc'[p] = "write2"
      BY <1>1, <3>1 DEF TypeOK
    <3>9. Bytes(write[p])' = b
      BY <3>1 DEF Bytes
    <3>10. QED
      BY <2>1, <3>1, <3>2, <3>7, <3>8, <3>9 DEF Undisturbed, File
  <2>4. CASE OpenToRead(p)
    <3> DEFINE q == at[p]
    <3>1. /\ disk' = disk /\ at' = at /\ dir[q] # NoFile
          /\ fd' = [fd EXCEPT ![p] = dir[q]] /\ size' = [size EXCEPT ![p] = Len(Contents(q))]
          /\ pc' = [pc EXCEPT ![p] = "read"]
          /\ Clash(q, Writers(p, q, dir[q]))
      BY <2>4 DEF OpenToRead
    <3>2. q \in Paths
      BY <1>1, <2>4 DEF AtHand, OpenToRead
    <3>3. Contents(q) = disk[q][dir[q]]
      BY <1>1, <3>1, <3>2, ContentsFacts
    <3>4. at'[p] = q /\ fd'[p] = dir[q] /\ pc'[p] = "read" /\ size'[p] = Len(Contents(q))
      BY <1>1, <3>1 DEF TypeOK
    <3>5. Writers(p, q, dir[q]) = {}
      <4>1. CASE Procs = {p}
        BY <4>1 DEF Holders, Writers
      <4>2. CASE q \notin clashed'
        BY <3>1, <4>2 DEF Clash
      <4>3. QED
        BY <1>6, <3>4, <4>1, <4>2 DEF Exclusive
    <3>6. QED
      BY <2>1, <3>1, <3>3, <3>4, <3>5 DEF Undisturbed, File
  <2>5. CASE ~Open(p) /\ ~WritePart(p) /\ ~OpenToRead(p)
    <3>1. pc'[p] \notin {"write", "write2", "read"}
      <4>1. CASE ReadFile(p) \/ ReadPart(p) \/ CannotRead(p)
        <5>1. PICK c : Took(p, c)
          BY <1>1, <4>1, ReadCases
        <5>2. QED
          BY <1>1, <5>1 DEF Took, LookedUp, ReadAgain, Scanned, TypeOK
      <4>2. CASE ~(ReadFile(p) \/ ReadPart(p) \/ CannotRead(p))
        BY <1>1, <2>5, <4>2 DEF Process, get, set, OpenFails, Write, WriteOver, has, HasThrows, clean_up,
                                ScanFile, ListFails, Remove, RemoveFails, ScanDone, Restart, TypeOK
      <4>3. QED
        BY <4>1, <4>2
    <3>2. QED
      BY <3>1 DEF Undisturbed
  <2>6. QED
    BY <2>2, <2>3, <2>4, <2>5
<1>7. QED
  BY <1>2, <1>5, <1>6 DEF EInv

-----------------------------------------------------------------------------
\* The first part of a bundle.
LEMMA PrefixFacts ==
    ASSUME NEW e \in Entries, NEW n \in 1 .. Len(Bytes(e))
    PROVE  /\ Readable(SubSeq(Bytes(e), 1, n))
           /\ SubSeq(Bytes(e), 1, n)[1] = Bytes(e)[1]
           /\ Len(SubSeq(Bytes(e), 1, n)) = n
           /\ n - 1 \in 0 .. Len(e.value)
           /\ Tail(SubSeq(Bytes(e), 1, n)) = SubSeq(e.value, 1, n - 1)
           /\ n = Len(Bytes(e)) => SubSeq(Bytes(e), 1, n) = Bytes(e)
<1> DEFINE b == Bytes(e)
           s == SubSeq(b, 1, n)
           m == n - 1
<1>1. /\ b \in Seq(Cells) /\ Readable(b) /\ Len(b) \in Nat /\ Len(e.value) \in Nat
      /\ Len(b) = Len(e.value) + 1
      /\ \A j \in DOMAIN e.value : b[j + 1] = e.value[j]
      /\ e.value \in Seq(Cells) /\ DOMAIN e.value = 1 .. Len(e.value)
  BY BytesFacts, LenProperties
<1> HIDE DEF b
<1>2. n \in Nat /\ n >= 1 /\ n <= Len(b) /\ m \in Nat /\ m \in 0 .. Len(e.value) /\ m <= Len(e.value)
  BY <1>1 DEF b
<1>3. s \in Seq(Cells) /\ Len(s) = n /\ \A i \in 1 .. n : s[i] = b[i]
  BY <1>1, <1>2, SubSeqProperties
<1> HIDE DEF s
<1>4. s # <<>> /\ s[1] = b[1]
  BY <1>2, <1>3, EmptySeq
<1>5. Readable(s)
  BY <1>1, <1>4 DEF Readable
<1>6. Tail(s) \in Seq(Cells) /\ Len(Tail(s)) = m /\ \A i \in 1 .. m : Tail(s)[i] = s[i + 1]
  BY <1>3, <1>4, HeadTailProperties
<1>7. /\ SubSeq(e.value, 1, m) \in Seq(Cells) /\ Len(SubSeq(e.value, 1, m)) = m
      /\ \A i \in 1 .. m : SubSeq(e.value, 1, m)[i] = e.value[i]
  BY <1>1, <1>2, SubSeqProperties
<1>8. \A i \in 1 .. m : Tail(s)[i] = e.value[i]
  <2>1. SUFFICES ASSUME NEW i \in 1 .. m PROVE Tail(s)[i] = e.value[i]
    OBVIOUS
  <2>2. i + 1 \in 1 .. n /\ i \in DOMAIN e.value
    BY <1>1, <1>2
  <2>3. QED
    BY <1>1, <1>3, <1>6, <2>2
<1>9. Tail(s) = SubSeq(e.value, 1, m)
  BY <1>6, <1>7, <1>8, SeqEqual
<1>10. n = Len(b) => s = b
  BY <1>1, <1>3, SeqEqual
<1>11. QED
  BY <1>2, <1>3, <1>4, <1>5, <1>9, <1>10 DEF b, s

\* What was set and where files clashed is never forgotten.
Grows ==
    /\ clashed \subseteq clashed'
    /\ \A k \in Keys : everSet[k] \subseteq everSet'[k]

LEMMA GrowsStep ==
    ASSUME TInv, NEW p \in Procs, Process(p)
    PROVE  Grows
<1>1. clashed \subseteq clashed'
  BY FileStep
<1>2. ASSUME NEW j \in Keys, NEW v \in Values, set(p, j, v) PROVE \A k \in Keys : everSet[k] \subseteq everSet'[k]
  BY <1>2 DEF set, TInv, TypeOK
<1>3. ASSUME ~(\E k \in Keys : \E v \in Values : set(p, k, v)) PROVE everSet' = everSet
  <2>1. CASE ReadFile(p) \/ ReadPart(p) \/ CannotRead(p)
    BY <2>1, ReadCases
  <2>2. CASE ~(ReadFile(p) \/ ReadPart(p) \/ CannotRead(p))
    BY <1>3, <2>2 DEF Process, get, Open, OpenFails, WritePart, Write, has, HasThrows, OpenToRead, clean_up,
                      ScanFile, ListFails, Remove, RemoveFails, ScanDone, Restart, history
  <2>3. QED
    BY <2>1, <2>2
<1>4. QED
  BY <1>1, <1>2, <1>3 DEF Grows

LEMMA OwnGrows ==
    ASSUME Grows, NEW k \in Keys, NEW s
    PROVE  /\ Own(s, k) => Own(s, k)'
           /\ Beginning(s, k) => Beginning(s, k)'
           /\ Filled(s, k) => Filled(s, k)'
           /\ Clean(k)' => Clean(k)
<1>1. Beginning(s, k) => Beginning(s, k)'
  BY DEF Grows, Beginning
<1>2. Beginning(Tail(s), k) => Beginning(Tail(s), k)'
  BY DEF Grows, Beginning
<1>3. QED
  BY <1>1, <1>2 DEF Grows, Own, Filled, Clean

\* What is found in the file of a key.
LEMMA FoundOwn ==
    ASSUME VInv, DistinctPaths, NEW p \in Procs, NEW c, Fetched(p, c), Readable(c),
           NEW k \in Keys, at[p] = path[k]
    PROVE  /\ c[1].of = k /\ Tail(c) \in Written /\ Own(Tail(c), k)
           /\ Clean(k) => everSet[k] # {}
           /\ Clean(k)' /\ Grows => Beginning(Tail(c), k)
<1>1. TypeOK /\ FilesInOrder /\ AtHand(p) /\ (Exclusive(p) => Undisturbed(p))
  BY DEF VInv, EInv, TInv
<1>2. /\ c \in Seq(Cells) /\ WellFormed(c) /\ c # <<>> /\ c[1].kind = "header"
      /\ pc[p] = "read" /\ Readable(File(p)) /\ c[1] = File(p)[1] /\ From(c, File(p), File(p))
  BY DEF Fetched, Readable
<1>3. at[p] \in Paths /\ fd[p] \in Inodes
  BY <1>1, <1>2 DEF AtHand
<1>4. File(p) = disk[path[k]][fd[p]] /\ InOrder(at[p], File(p)) /\ OwnFile(k, fd[p])
  BY <1>1, <1>3 DEF File, FilesInOrder, VInv, ValuesOwn
<1>5. Tail(c) \in Written /\ c[1] \in Cells
      /\ \A j \in DOMAIN Tail(c) : j + 1 \in DOMAIN c /\ Tail(c)[j] = c[j + 1]
  BY <1>2, TailWritten
<1>6. c[1].of = k
  BY <1>2, <1>4, <1>5, CellFacts DEF InOrder, DistinctPaths
<1>7. Own(Tail(c), k)
  <2>1. SUFFICES ASSUME NEW j \in DOMAIN Tail(c), Tail(c)[j].kind = "text"
                 PROVE  Tail(c)[j].of \in everSet[k]
    BY DEF Own
  <2>2. c[j + 1] = Nul \/ \E i \in DOMAIN File(p) : c[j + 1] = File(p)[i]
    BY <1>2, <1>5 DEF From
  <2>3. QED
    BY <1>4, <1>5, <2>1, <2>2, CellFacts DEF OwnFile, Own
<1>8. ASSUME Clean(k) PROVE Filled(File(p), k) /\ everSet[k] # {}
  <2>1. Filled(File(p), k)
    BY <1>4, <1>8 DEF OwnFile
  <2>2. Beginning(Tail(File(p)), k)
    BY <1>2, <2>1 DEF Filled, Readable
  <2>3. QED
    BY <2>1, <2>2 DEF Beginning
<1>9. ASSUME Clean(k)', Grows PROVE Beginning(Tail(c), k)
  <2>1. Clean(k) /\ at[p] \notin clashed'
    BY <1>9 DEF Clean, Grows
  <2>2. size[p] = Len(File(p))
    BY <1>1, <1>2, <2>1 DEF Exclusive, Undisturbed, Clean
  <2>3. c = File(p)
    BY <1>2, <2>1, <2>2 DEF Fetched
  <2>4. QED
    BY <1>2, <1>8, <2>1, <2>3 DEF Filled
<1>10. QED
  BY <1>5, <1>6, <1>7, <1>8, <1>9

\* What is written to the file of a key.
LEMMA PutOwn ==
    ASSUME VInv, DistinctPaths, NEW p \in Procs, pc[p] \in {"write", "write2"},
           NEW from, NEW to, PutFrom(p, from, to),
           \/ pc[p] = "write" /\ Len(write[p].value) > 1 /\ from = 0 /\ to = 2
           \/ pc[p] = "write" /\ from = 0 /\ to = Len(Bytes(write[p]))
           \/ pc[p] = "write2" /\ from = 2 /\ to = Len(Bytes(write[p])),
           NEW k \in Keys, path[k] = at[p]
    PROVE  /\ Own(disk'[path[k]][fd[p]], k)
           /\ Clean(k) => Filled(disk'[path[k]][fd[p]], k)
<1> DEFINE e == write[p]
           b == Bytes(e)
           f == File(p)
           w == WriteAt(f, from, SubSeq(b, from + 1, to))
<1>1. EInv /\ TInv /\ TypeOK /\ FilesInOrder /\ AtHand(p) /\ (Exclusive(p) => Undisturbed(p))
  BY DEF VInv, EInv, TInv
<1>2. /\ e \in Entries /\ at[p] \in Paths /\ fd[p] \in Inodes
      /\ from \in {0, 2} /\ to \in Nat /\ from < to /\ to <= Len(b)
      /\ f \in Seq(Cells) /\ WellFormed(f) /\ w \in Seq(Cells)
  BY <1>1, PutStep DEF InOrder
<1>3. at[p] = path[e.key] /\ e.key \in Keys
  BY <1>1, <1>2, BytesFacts DEF AtHand
<1>4. e.key = k
  BY <1>3 DEF DistinctPaths
<1>5. disk'[path[k]][fd[p]] = w
  BY <1>1, <1>2 DEF PutFrom, File, TypeOK
<1>6. /\ From(w, f, b)
      /\ from = 0 /\ f = <<>> => w = SubSeq(b, 1, to)
      /\ from = 2 /\ to = Len(b) /\ f = SubSeq(b, 1, 2) => w = b
  BY <1>2, PutFacts
<1>7. OwnFile(k, fd[p]) /\ f = disk[path[k]][fd[p]] /\ OwnWrite(p)
  BY <1>2 DEF VInv, ValuesOwn, File
<1>8. Own(b, k)
  <2>1. SUFFICES ASSUME NEW j \in DOMAIN b, b[j].kind = "text" PROVE b[j].of \in everSet[k]
    BY DEF Own
  <2>2. b \in Seq(Cells) /\ b[1].kind = "header" /\ Len(b) = Len(e.value) + 1 /\ Len(e.value) \in Nat
        /\ \A i \in DOMAIN e.value : b[i + 1] = e.value[i]
    BY <1>2, BytesFacts DEF Readable
  <2> HIDE DEF b
  <2>3. DOMAIN b = 1 .. Len(b) /\ DOMAIN e.value = 1 .. Len(e.value)
    BY <1>2, <2>2, BytesFacts, LenProperties
  <2>4. j # 1 /\ j - 1 \in DOMAIN e.value /\ (j - 1) + 1 = j
    BY <2>1, <2>2, <2>3
  <2>5. QED
    BY <1>3, <1>4, <1>7, <2>1, <2>2, <2>4 DEF OwnWrite, Own
<1>9. Own(w, k)
  <2>1. SUFFICES ASSUME NEW j \in DOMAIN w, w[j].kind = "text" PROVE w[j].of \in everSet[k]
    BY DEF Own
  <2> HIDE DEF w, b, f
  <2>2. w[j] = Nul \/ (\E i \in DOMAIN f : w[j] = f[i]) \/ (\E i \in DOMAIN b : w[j] = b[i])
    BY <1>6 DEF From
  <2>3. QED
    BY <1>7, <1>8, <2>1, <2>2, CellFacts DEF OwnFile, Own
<1>10. ASSUME Clean(k) PROVE Filled(w, k)
  <2>1. Undisturbed(p)
    BY <1>1, <1>3, <1>4, <1>10 DEF Exclusive, Clean
  <2>2. Beginning(e.value, k)
    BY <1>3, <1>4, <1>7, <1>10 DEF OwnWrite
  <2>3. w = SubSeq(b, 1, to)
    <3>1. CASE from = 0
      BY <1>6, <2>1, <3>1 DEF Undisturbed
    <3>2. CASE from = 2
      <4>1. to = Len(b) /\ f = SubSeq(b, 1, 2)
        BY <2>1, <3>2 DEF Undisturbed
      <4>2. SubSeq(b, 1, to) = b
        BY <1>2, <4>1, PrefixFacts
      <4>3. QED
        BY <1>6, <3>2, <4>1, <4>2
    <3>3. QED
      BY <1>2, <3>1, <3>2
  <2>4. to \in 1 .. Len(b)
    BY <1>2, BytesFacts
  <2>5. Readable(w) /\ Tail(w) = SubSeq(e.value, 1, to - 1) /\ to - 1 \in 0 .. Len(e.value)
    BY <1>2, <2>3, <2>4, PrefixFacts
  <2>6. Beginning(Tail(w), k)
    <3>1. everSet \in [Keys -> SUBSET Values]
      BY <1>1 DEF TypeOK
    <3>2. \A m \in 0 .. Len(e.value) : Beginning(SubSeq(e.value, 1, m), k)
      BY <2>2, <3>1, Beginnings
    <3>3. QED
      BY <2>5, <3>2
  <2>7. QED
    BY <2>5, <2>6 DEF Filled
<1>11. QED
  BY <1>5, <1>9, <1>10

LEMMA ValuesStep ==
    ASSUME DistinctPaths, VInv, NEW p \in Procs, Process(p)
    PROVE  ValuesOwn'
<1> USE DEF Goto, WriteOver, openVars, callVars, fileVars, history
<1>1. EInv /\ TInv /\ TypeOK /\ FilesInOrder /\ AtHand(p) /\ ValuesOwn
  BY DEF VInv, EInv, TInv
<1>2. Grows
  BY <1>1, GrowsStep
<1>3. ASSUME NEW k \in Keys, NEW i \in Inodes, disk'[path[k]][i] = disk[path[k]][i] PROVE OwnFile(k, i)'
  <2>1. OwnFile(k, i)
    BY <1>1 DEF ValuesOwn
  <2>2. QED
    BY <1>2, <1>3, <2>1, OwnGrows DEF OwnFile
<1>4. ASSUME NEW r \in Procs, write'[r] = write[r] \/ write'[r] = NoEntry PROVE OwnWrite(r)'
  <2>1. OwnWrite(r) /\ NoEntry.key \notin Keys
    BY <1>1, CellFacts DEF ValuesOwn
  <2>2. QED
    BY <1>2, <1>4, <2>1, OwnGrows DEF OwnWrite
<1>5. ASSUME NEW r \in Procs, call'[r].result = NoValue \/ call'[r] = call[r] PROVE OwnResult(r)'
  <2>1. OwnResult(r) /\ AtHand(r)
    BY <1>1 DEF ValuesOwn, TInv
  <2>2. call[r].result # NoValue => call[r].key \in Keys
    BY <2>1 DEF AtHand
  <2>3. QED
    BY <1>2, <1>5, <2>1, <2>2, OwnGrows DEF OwnResult
<1>6. ASSUME NEW r \in Procs, r # p PROVE OwnWrite(r)' /\ OwnResult(r)'
  BY <1>1, <1>4, <1>5, <1>6, OthersStep DEF Alike
<1>7. SUFFICES (\A k \in Keys, i \in Inodes : OwnFile(k, i)') /\ OwnWrite(p)' /\ OwnResult(p)'
  BY <1>6 DEF ValuesOwn
<1>8. ASSUME NEW k \in Keys, NEW v \in Values, set(p, k, v) PROVE OwnWrite(p)'
  <2>1. write'[p] = [key |-> k, value |-> Text(v), used |-> next_usage[p]]
    BY <1>1, <1>8 DEF set, TypeOK
  <2>2. everSet' \in [Keys -> SUBSET Values] /\ v \in everSet'[k]
    BY <1>1, <1>8 DEF set, TypeOK
  <2>3. Own(Text(v), k)'
    BY <1>8, <2>2, TextFacts DEF Own
  <2>4. Beginning(Text(v), k)'
    <3> DEFINE s == Text(v)
    <3>1. s \in Seq(TextCells) /\ Len(s) \in {1, 2}
      BY TextFacts
    <3> HIDE DEF s
    <3>2. s \in Seq(TextCells) /\ Len(s) \in Nat /\ Len(s) >= 1
      BY <3>1
    <3>3. SubSeq(s, 1, Len(s)) \in Seq(TextCells) /\ Len(SubSeq(s, 1, Len(s))) = Len(s)
          /\ \A i \in 1 .. Len(s) : SubSeq(s, 1, Len(s))[i] = s[i]
      BY <3>2, SubSeqProperties
    <3>4. SubSeq(s, 1, Len(s)) = s
      BY <3>2, <3>3, SeqEqual
    <3>5. Len(s) \in 0 .. Len(s)
      BY <3>2
    <3>6. QED
      BY <2>2, <3>4, <3>5 DEF Beginning, s
  <2>5. QED
    BY <2>1, <2>3, <2>4 DEF OwnWrite
<1>9. CASE \E k \in Keys : get(p, k) \/ \E v \in Values : set(p, k, v)
  <2>1. disk' = disk /\ call'[p].result = NoValue
    BY <1>1, <1>9 DEF get, set, TypeOK, NoCall
  <2>2. OwnWrite(p)'
    BY <1>4, <1>8, <1>9 DEF get
  <2>3. QED
    BY <1>3, <1>5, <2>1, <2>2
<1>10. CASE Open(p)
  <2>1. OwnWrite(p)' /\ OwnResult(p)'
    BY <1>4, <1>5, <1>10 DEF Open
  <2> DEFINE q == path[write[p].key]
  <2>2. PICK i \in NewFile(q) : disk' = [disk EXCEPT ![q][i] = <<>>]
    BY <1>10 DEF Open
  <2>3. ASSUME NEW k \in Keys, NEW j \in Inodes PROVE OwnFile(k, j)'
    <3>1. path[k] \in Paths
      BY DirectoryAssumption
    <3>2. disk'[path[k]][j] = disk[path[k]][j] \/ disk'[path[k]][j] = <<>>
      BY <1>1, <2>2, <3>1 DEF TypeOK
    <3>3. CASE disk'[path[k]][j] = <<>>
      BY <3>3 DEF OwnFile, Own, Filled
    <3>4. QED
      BY <1>3, <3>2, <3>3
  <2>4. QED
    BY <2>1, <2>3
<1>11. CASE WritePart(p) \/ Write(p)
  <2>1. call' = call /\ clashed' = clashed /\ everSet' = everSet
    BY <1>11 DEF WritePart, Write
  <2>2. OwnWrite(p)' /\ OwnResult(p)'
    BY <1>1, <1>4, <1>5, <1>11, <2>1 DEF WritePart, Write, TypeOK
  <2>3. CASE disk' = disk
    BY <1>3, <2>2, <2>3
  <2>4. ASSUME NEW from, NEW to, pc[p] \in {"write", "write2"}, PutFrom(p, from, to),
               \/ pc[p] = "write" /\ Len(write[p].value) > 1 /\ from = 0 /\ to = 2
               \/ pc[p] = "write" /\ from = 0 /\ to = Len(Bytes(write[p]))
               \/ pc[p] = "write2" /\ from = 2 /\ to = Len(Bytes(write[p]))
        PROVE  \A k \in Keys, i \in Inodes : OwnFile(k, i)'
    <3>1. SUFFICES ASSUME NEW k \in Keys, NEW i \in Inodes PROVE OwnFile(k, i)'
      OBVIOUS
    <3>2. CASE path[k] = at[p] /\ i = fd[p]
      <4>1. /\ Own(disk'[path[k]][fd[p]], k)
            /\ Clean(k) => Filled(disk'[path[k]][fd[p]], k)
        BY <2>4, <3>2, PutOwn
      <4>2. QED
        BY <2>1, <3>2, <4>1 DEF OwnFile, Own, Filled, Clean, Beginning
    <3>3. CASE ~(path[k] = at[p] /\ i = fd[p])
      <4>1. at[p] \in Paths /\ fd[p] \in Inodes /\ path[k] \in Paths
        BY <1>1, <2>4, PutStep, DirectoryAssumption
      <4>2. disk'[path[k]][i] = disk[path[k]][i]
        BY <1>1, <2>4, <3>3, <4>1 DEF PutFrom, TypeOK
      <4>3. QED
        BY <1>3, <4>2
    <3>4. QED
      BY <3>2, <3>3
  <2>5. CASE WritePart(p)
    BY <2>2, <2>4, <2>5 DEF WritePart
  <2>6. CASE Write(p)
    <3>1. CASE pc[p] = "write" /\ PutFrom(p, 0, Len(Bytes(write[p])))
      BY <2>2, <2>4, <3>1
    <3>2. CASE pc[p] = "write2" /\ PutFrom(p, 2, Len(Bytes(write[p])))
      BY <2>2, <2>4, <3>2
    <3>3. QED
      BY <2>3, <2>6, <3>1, <3>2 DEF Write
  <2>7. QED
    BY <1>11, <2>5, <2>6
<1>12. CASE ReadFile(p) \/ ReadPart(p) \/ CannotRead(p)
  <2>1. disk' = disk /\ pc[p] \in {"fetch", "read"} /\ everSet' = everSet
    BY <1>1, <1>12, ReadCases
  <2>2. PICK c : Fetched(p, c) /\ Took(p, c)
    BY <1>1, <1>12, ReadCases
  <2>3. LookedUp(p, c) \/ ReadAgain(p, c) \/ Scanned(p, c)
    BY <2>2 DEF Took
  <2>4. ASSUME NEW k \in Keys, at[p] = path[k], Readable(c)
        PROVE  /\ c[1].of = k
               /\ Own(Tail(c), k)'
               /\ Clean(k)' => Beginning(Tail(c), k)' /\ everSet[k] # {}
    <3>1. /\ c[1].of = k /\ Own(Tail(c), k)
          /\ Clean(k) => everSet[k] # {}
          /\ Clean(k)' /\ Grows => Beginning(Tail(c), k)
      BY <2>2, <2>4, FoundOwn
    <3>2. Clean(k)' => Clean(k)
      BY <1>2, OwnGrows
    <3>3. QED
      BY <1>2, <2>1, <3>1, <3>2 DEF Own, Beginning
  <2>5. CASE ~Readable(c) \/ Scanned(p, c)
    <3>1. write' = write /\ call' = call
      BY <2>3, <2>5 DEF LookedUp, ReadAgain, Scanned
    <3>2. QED
      BY <1>3, <1>4, <1>5, <2>1, <3>1
  <2>6. CASE LookedUp(p, c) /\ Readable(c)
    <3>1. PICK k \in Keys : k = call[p].key /\ at[p] = path[k]
      BY <1>1, <2>1, <2>6 DEF LookedUp, AtHand
    <3>2. /\ call' = [call EXCEPT ![p].result = Tail(c)]
          /\ write' = [write EXCEPT ![p] = [key |-> k, value |-> Empty, used |-> next_usage[p]]]
      BY <2>6, <3>1 DEF LookedUp
    <3>3. /\ call'[p] = [key |-> k, result |-> Tail(c)]
          /\ write'[p] = [key |-> k, value |-> Empty, used |-> next_usage[p]]
      BY <1>1, <3>1, <3>2 DEF TypeOK
    <3>4. OwnResult(p)'
      BY <2>4, <2>6, <3>1, <3>3 DEF OwnResult
    <3>5. Own(<<>>, k)' /\ (Clean(k)' => Beginning(<<>>, k)')
      <4>1. Own(<<>>, k) /\ (everSet[k] # {} => Beginning(<<>>, k))
        BY <1>1, <3>1, Beginnings DEF TypeOK
      <4>2. QED
        BY <1>2, <2>4, <2>6, <3>1, <4>1, OwnGrows
    <3>6. OwnWrite(p)'
      <4>1. write'[p].key = k /\ write'[p].value = <<>>
        BY <3>3 DEF Empty
      <4>2. QED
        BY <3>5, <4>1 DEF OwnWrite
    <3>7. QED
      BY <1>3, <2>1, <3>4, <3>6
  <2>7. CASE ReadAgain(p, c) /\ Readable(c)
    <3>1. PICK k \in Keys : k = call[p].key /\ at[p] = path[k]
      BY <1>1, <2>1, <2>7 DEF ReadAgain, AtHand
    <3>2. /\ call' = call
          /\ write' = [write EXCEPT ![p] = [key |-> c[1].of, value |-> Tail(c), used |-> @.used]]
      BY <2>7 DEF ReadAgain
    <3>3. write'[p].key = c[1].of /\ write'[p].value = Tail(c)
      BY <1>1, <3>2 DEF TypeOK
    <3>4. OwnWrite(p)'
      BY <2>4, <2>7, <3>1, <3>3 DEF OwnWrite
    <3>5. QED
      BY <1>3, <1>5, <2>1, <3>2, <3>4
  <2>8. QED
    BY <2>3, <2>5, <2>6, <2>7
<1>13. CASE \/ has(p) \/ OpenToRead(p) \/ clean_up(p) \/ (\E q \in Paths : ScanFile(p, q))
            \/ ListFails(p) \/ Remove(p) \/ RemoveFails(p) \/ ScanDone(p)
  <2>1. disk' = disk /\ write' = write /\ call' = call
    BY <1>13 DEF has, OpenToRead, clean_up, ScanFile, ListFails, Remove, RemoveFails, ScanDone
  <2>2. QED
    BY <1>3, <1>4, <1>5, <2>1
<1>14. CASE OpenFails(p) \/ HasThrows(p) \/ Restart(p)
  <2>1. disk' = disk /\ write'[p] = NoEntry /\ (call' = call \/ call'[p].result = NoValue)
    BY <1>1, <1>14 DEF OpenFails, HasThrows, Restart, NoCall, TypeOK
  <2>2. QED
    BY <1>3, <1>4, <1>5, <2>1
<1>15. QED
  BY <1>9, <1>10, <1>11, <1>12, <1>13, <1>14 DEF Process

LEMMA ValuesStart == Init => VInv
<1> SUFFICES ASSUME Init PROVE VInv
  OBVIOUS
<1>1. TInv
  BY TypeStart
<1>2. ASSUME NEW p \in Procs PROVE Undisturbed(p) /\ OwnWrite(p) /\ OwnResult(p)
  BY CellFacts DEF Init, Undisturbed, OwnWrite, OwnResult, NoCall
<1>3. ASSUME NEW k \in Keys, NEW i \in Inodes PROVE OwnFile(k, i)
  BY DirectoryAssumption DEF Init, OwnFile, Own, Filled
<1>4. QED
  BY <1>1, <1>2, <1>3 DEF VInv, EInv, ValuesOwn

LEMMA ValuesStutter ==
    ASSUME UNCHANGED vars
    PROVE  /\ TInv => TInv'
           /\ VInv => VInv'
<1> USE DEF vars, fileVars, openVars, callVars, history
<1>1. TInv => TInv'
  BY DEF TInv, TypeOK, FilesInOrder, InOrder, AtHand
<1>2. EInv => EInv'
  BY <1>1 DEF EInv, Exclusive, Undisturbed, Holders, Writers, File, Bytes
<1>3. ValuesOwn => ValuesOwn'
  BY DEF ValuesOwn, OwnFile, OwnWrite, OwnResult, Own, Clean, Filled, Beginning
<1>4. QED
  BY <1>1, <1>2, <1>3 DEF VInv

LEMMA ValuesReturned ==
    ASSUME VInv
    PROVE  GetReturnsOwnValue
<1>1. SUFFICES ASSUME NEW p \in Procs, call[p].result # NoValue
               PROVE  /\ path[call[p].key] \notin clashed => Beginning(call[p].result, call[p].key)
                      /\ \A i \in DOMAIN call[p].result :
                            call[p].result[i] = Nul \/ call[p].result[i].of \in everSet[call[p].key]
  BY DEF GetReturnsOwnValue
<1>2. AtHand(p) /\ TypeOK /\ OwnResult(p)
  BY DEF VInv, EInv, TInv, ValuesOwn
<1>3. call[p].key \in Keys /\ call[p].result \in Written
  BY <1>1, <1>2, Typed DEF AtHand
<1>4. \A i \in DOMAIN call[p].result : call[p].result[i] \in TextCells \cup {Nul}
  BY <1>3, LenProperties, ElementOfSeq DEF Written
<1>5. QED
  BY <1>1, <1>2, <1>4, CellFacts DEF OwnResult, Own, Clean

\* Processes that share a directory whose keys the hash tells apart never get
\* anything from storage_gate::get that was not written for the key; where
\* nobody read while another wrote, it is the beginning of one value.
THEOREM OwnValueReturned == DistinctPaths => (Spec => []GetReturnsOwnValue)
<1> SUFFICES ASSUME DistinctPaths PROVE Spec => []GetReturnsOwnValue
  OBVIOUS
<1>1. VInv /\ [Next]_vars => VInv'
  <2> SUFFICES ASSUME VInv, [Next]_vars PROVE VInv'
    OBVIOUS
  <2>1. CASE UNCHANGED vars
    BY <2>1, ValuesStutter
  <2>2. ASSUME NEW p \in Procs, Process(p) PROVE VInv'
    BY <2>2, ExclusiveStep, ValuesStep DEF VInv
  <2>3. QED
    BY <2>1, <2>2 DEF Next, Exhausted
<1>2. QED
  BY <1>1, ValuesStart, ValuesReturned, PTL DEF Spec

-----------------------------------------------------------------------------
\* One process: what it has open has its name, and an entry it has looked up
\* is there until it is written anew.
HasOpen == \A p \in Procs : pc[p] \in {"write", "write2", "read"} => dir[at[p]] = fd[p]
Stays(p) ==
    task[p] = "touch" /\ pc[p] \in {"has", "fetch", "read"} => Readable(Contents(path[call[p].key]))
EntryStays == \A p \in Procs : Stays(p)
LInv == EInv /\ HasOpen /\ EntryStays

\* Unless a file could not be read, entries have values.
ValuesFull ==
    /\ clashed # {} => failed
    /\ ~failed =>
         /\ \A q \in Paths : Readable(Contents(q)) => Len(Contents(q)) > 1
         /\ \A p \in Procs : /\ pc[p] \in {"open", "write", "write2"} => write[p].value # <<>>
                             /\ call[p].result # NoValue => call[p].result # <<>>
AInv == LInv /\ ValuesOwn /\ ValuesFull

\* Nobody is there to disturb it.
LEMMA AloneFacts ==
    ASSUME LInv, NEW p, Procs = {p}
    PROVE  /\ p \in Procs /\ TInv /\ TypeOK /\ FilesInOrder /\ AtHand(p) /\ Undisturbed(p)
           /\ pc[p] \in {"write", "write2", "read"} =>
                 /\ at[p] \in Paths /\ fd[p] \in Inodes /\ dir[at[p]] = fd[p]
                 /\ Contents(at[p]) = File(p)
           /\ \A q, i : Holders(p, q, i) = {} /\ Writers(p, q, i) = {}
<1>1. p \in Procs /\ TInv /\ TypeOK /\ FilesInOrder /\ AtHand(p) /\ Undisturbed(p)
  BY DEF LInv, EInv, TInv, Exclusive
<1>2. ASSUME pc[p] \in {"write", "write2", "read"}
      PROVE  /\ at[p] \in Paths /\ fd[p] \in Inodes /\ dir[at[p]] = fd[p]
             /\ Contents(at[p]) = File(p)
  <2>1. fd[p] \in Inodes /\ dir[at[p]] = fd[p]
    BY <1>1, <1>2 DEF AtHand, LInv, HasOpen
  <2>2. at[p] \in Paths
    BY <1>1, <1>2, BytesFacts, DirectoryAssumption DEF AtHand
  <2>3. QED
    BY <2>1, <2>2, DirectoryAssumption DEF Contents, File
<1>3. \A q, i : Holders(p, q, i) = {} /\ Writers(p, q, i) = {}
  BY DEF Holders, Writers
<1>4. QED
  BY <1>1, <1>2, <1>3

\* What a step does to the contents under the names.
Leaves == \A q \in Paths : Contents(q)' = Contents(q)

LEMMA LeavesStep ==
    ASSUME LInv, NEW p, Procs = {p},
           \/ \E k \in Keys : get(p, k) \/ \E v \in Values : set(p, k, v)
           \/ OpenFails(p) \/ has(p) \/ HasThrows(p) \/ OpenToRead(p)
           \/ ReadFile(p) \/ ReadPart(p) \/ CannotRead(p)
           \/ clean_up(p) \/ (\E q \in Paths : ScanFile(p, q)) \/ ListFails(p)
           \/ RemoveFails(p) \/ ScanDone(p) \/ Restart(p)
    PROVE  Leaves /\ dir' = dir
<1>1. p \in Procs /\ TInv
  BY AloneFacts
<1>2. dir' = dir /\ disk' = disk
  <2>1. CASE ReadFile(p) \/ ReadPart(p) \/ CannotRead(p)
    BY <1>1, <2>1, ReadCases
  <2>2. CASE ~(ReadFile(p) \/ ReadPart(p) \/ CannotRead(p))
    BY <2>2 DEF get, set, OpenFails, has, HasThrows, OpenToRead, clean_up, ScanFile, ListFails, RemoveFails,
                ScanDone, Restart, fileVars
  <2>3. QED
    BY <2>1, <2>2
<1>3. QED
  BY <1>2 DEF Leaves, Contents

LEMMA OpenContents ==
    ASSUME LInv, NEW p, Procs = {p}, Open(p)
    PROVE  /\ \A q \in Paths : Contents(q)' = IF q = path[write[p].key] THEN <<>> ELSE Contents(q)
           /\ path[write[p].key] \in Paths /\ clashed' = clashed
           /\ at'[p] = path[write[p].key] /\ dir'[at'[p]] = fd'[p]
<1>1. p \in Procs /\ TypeOK /\ FilesInOrder /\ AtHand(p)
  BY AloneFacts
<1> DEFINE q0 == path[write[p].key]
<1>2. PICK i \in NewFile(q0) : /\ dir' = [dir EXCEPT ![q0] = i]
                               /\ disk' = [disk EXCEPT ![q0][i] = <<>>]
                               /\ at' = [at EXCEPT ![p] = q0]
                               /\ fd' = [fd EXCEPT ![p] = i]
                               /\ Clash(q0, Holders(p, q0, i))
  BY DEF Open
<1>3. q0 \in Paths
  BY <1>1, BytesFacts, DirectoryAssumption DEF AtHand, Open
<1>4. i \in Inodes /\ i # NoFile
  BY <1>1, <1>2, <1>3, DirectoryAssumption DEF NewFile, TypeOK
<1> HIDE DEF q0
<1>5. clashed' = clashed
  BY <1>2, AloneFacts DEF Clash
<1>6. at'[p] = q0 /\ fd'[p] = i /\ dir'[q0] = i /\ disk'[q0][i] = <<>>
  BY <1>1, <1>2, <1>3, <1>4 DEF TypeOK
<1>7. ASSUME NEW q \in Paths, q # q0 PROVE Contents(q)' = Contents(q)
  BY <1>1, <1>2, <1>3, <1>7 DEF Contents, TypeOK
<1>8. ASSUME NEW q \in Paths, q = q0 PROVE Contents(q)' = <<>>
  BY <1>4, <1>6, <1>8 DEF Contents
<1>9. QED
  BY <1>3, <1>5, <1>6, <1>7, <1>8 DEF q0

LEMMA RemoveContents ==
    ASSUME LInv, NEW p, Procs = {p}, Remove(p)
    PROVE  \A q \in Paths : Contents(q)' = IF q = at[p] THEN <<>> ELSE Contents(q)
<1>1. p \in Procs /\ TypeOK /\ AtHand(p)
  BY AloneFacts
<1>2. dir' = [dir EXCEPT ![at[p]] = NoFile] /\ disk' = disk /\ at[p] \in Paths
  BY <1>1 DEF Remove, AtHand
<1>3. QED
  BY <1>1, <1>2 DEF Contents, TypeOK

\* The file then holds the bundle up to where the process has got with it.
LEMMA PutContents ==
    ASSUME LInv, NEW p, Procs = {p}, WritePart(p) \/ Write(p)
    PROVE  \/ Write(p) /\ Leaves
           \/ \E n \in 1 .. Len(Bytes(write[p])) :
                 /\ n > 1 \/ write[p].value = <<>>
                 /\ \A q \in Paths :
                       Contents(q)' = IF q = at[p] THEN SubSeq(Bytes(write[p]), 1, n) ELSE Contents(q)
<1>1. p \in Procs /\ TInv /\ TypeOK /\ FilesInOrder /\ AtHand(p) /\ Undisturbed(p)
  BY AloneFacts
<1>2. pc[p] \in {"write", "write2"} /\ dir' = dir
  BY DEF WritePart, Write
<1>3. at[p] \in Paths /\ fd[p] \in Inodes /\ dir[at[p]] = fd[p] /\ fd[p] # NoFile
  BY <1>2, AloneFacts, DirectoryAssumption
<1> DEFINE e == write[p]
           b == Bytes(e)
<1>4. ASSUME NEW from, NEW to, PutFrom(p, from, to),
             \/ pc[p] = "write" /\ Len(write[p].value) > 1 /\ from = 0 /\ to = 2
             \/ pc[p] = "write" /\ from = 0 /\ to = Len(Bytes(write[p]))
             \/ pc[p] = "write2" /\ from = 2 /\ to = Len(Bytes(write[p]))
      PROVE  \E n \in 1 .. Len(b) :
                 /\ n > 1 \/ e.value = <<>>
                 /\ \A q \in Paths : Contents(q)' = IF q = at[p] THEN SubSeq(b, 1, n) ELSE Contents(q)
  <2> DEFINE f == File(p)
             w == WriteAt(f, from, SubSeq(b, from + 1, to))
  <2>1. /\ e \in Entries /\ f \in Seq(Cells) /\ WellFormed(f)
        /\ from \in {0, 2} /\ to \in Nat /\ from < to /\ to <= Len(b)
    BY <1>1, <1>2, <1>4, PutStep DEF InOrder
  <2>2. /\ From(w, f, b)
        /\ from = 0 /\ f = <<>> => w = SubSeq(b, 1, to)
        /\ from = 2 /\ to = Len(b) /\ f = SubSeq(b, 1, 2) => w = b
    BY <2>1, PutFacts
  <2>3. /\ Len(b) = Len(e.value) + 1 /\ Len(e.value) \in Nat /\ e.value \in Seq(Cells)
    BY <2>1, BytesFacts
  <2>4. to \in 1 .. Len(b) /\ (to > 1 \/ e.value = <<>>)
    BY <1>4, <2>1, <2>3, EmptySeq
  <2>5. w = SubSeq(b, 1, to)
    <3>1. CASE from = 0
      BY <1>1, <1>4, <2>2, <3>1 DEF Undisturbed
    <3>2. CASE from = 2
      <4>1. to = Len(b) /\ f = SubSeq(b, 1, 2)
        BY <1>1, <1>4, <3>2 DEF Undisturbed
      <4>2. SubSeq(b, 1, to) = b
        BY <2>1, <2>4, <4>1, PrefixFacts
      <4>3. QED
        BY <2>2, <3>2, <4>1, <4>2
    <3>3. QED
      BY <2>1, <3>1, <3>2
  <2>6. disk' = [disk EXCEPT ![at[p]][fd[p]] = w]
    BY <1>4 DEF PutFrom, File
  <2> HIDE DEF w, b
  <2>7. ASSUME NEW q \in Paths PROVE Contents(q)' = IF q = at[p] THEN w ELSE Contents(q)
    <3>1. q # at[p] => disk'[q] = disk[q]
      BY <1>1, <1>3, <2>6, <2>7 DEF TypeOK
    <3>2. disk'[at[p]][fd[p]] = w
      BY <1>1, <1>3, <2>6 DEF TypeOK
    <3>3. QED
      BY <1>2, <1>3, <3>1, <3>2 DEF Contents
  <2>8. QED
    BY <2>4, <2>5, <2>7
<1>5. CASE WritePart(p)
  <2>1. pc[p] = "write" /\ Len(write[p].value) > 1 /\ PutFrom(p, 0, 2)
    BY <1>5 DEF WritePart
  <2>2. QED
    BY <1>4, <2>1
<1>6. CASE Write(p)
  <2>1. CASE disk' = disk
    BY <1>2, <1>6, <2>1 DEF Leaves, Contents
  <2>2. CASE pc[p] = "write" /\ PutFrom(p, 0, Len(Bytes(write[p])))
    BY <1>4, <2>2
  <2>3. CASE pc[p] = "write2" /\ PutFrom(p, 2, Len(Bytes(write[p])))
    BY <1>4, <2>3
  <2>4. QED
    BY <1>6, <2>1, <2>2, <2>3 DEF Write
<1>7. QED
  BY <1>5, <1>6

\* What the process, alone, takes for the file it looks at.
LEMMA FoundAlone ==
    ASSUME LInv, NEW p, Procs = {p}, NEW c, Fetched(p, c), pc[p] \in {"fetch", "read"}
    PROVE  /\ Readable(c) => Readable(Contents(at[p])) /\ c[1] = Contents(at[p])[1]
           /\ failed' \/ c = Contents(at[p])
           /\ missed'[p] \/ task[p] # "scan" \/ Readable(c) \/ ~Readable(Contents(at[p]))
           /\ (clashed' = clashed \/ failed') /\ (failed => failed') /\ (missed[p] => missed'[p])
<1>1. p \in Procs /\ TypeOK /\ AtHand(p) /\ Undisturbed(p)
  BY AloneFacts
<1>2. pc[p] = "read" => Contents(at[p]) = File(p) /\ size[p] = Len(File(p))
  BY <1>1, AloneFacts DEF Undisturbed
<1>3. ~Readable(<<>>)
  BY DEF Readable
<1>4. CASE /\ c = <<>> /\ clashed' = clashed
           /\ failed' = (failed \/ Contents(at[p]) # <<>>)
           /\ missed' = [missed EXCEPT ![p] = @ \/ (task[p] = "scan" /\ Contents(at[p]) # <<>>)]
  <2>1. missed'[p] = (missed[p] \/ (task[p] = "scan" /\ Contents(at[p]) # <<>>))
    BY <1>1, <1>4 DEF TypeOK
  <2>2. QED
    BY <1>3, <1>4, <2>1
<1>5. CASE /\ pc[p] = "read"
           /\ size[p] = Len(File(p)) => c = File(p)
           /\ clashed' = clashed /\ failed' = failed /\ missed' = missed
  BY <1>2, <1>5
<1>6. CASE /\ pc[p] = "read"
           /\ size[p] = Len(File(p)) /\ Readable(File(p)) => Readable(c)
           /\ clashed' = clashed \cup {at[p]} /\ failed' = TRUE /\ missed' = missed
  BY <1>2, <1>6 DEF Fetched
<1>7. QED
  BY <1>4, <1>5, <1>6 DEF Fetched

LEMMA LoneStep ==
    ASSUME LInv, NEW p, Procs = {p}, Process(p)
    PROVE  LInv'
<1> USE DEF Goto, WriteOver, openVars, callVars, fileVars, history
<1>1. p \in Procs /\ TInv /\ TypeOK /\ AtHand(p) /\ HasOpen /\ EntryStays
  BY AloneFacts DEF LInv
<1>2. EInv'
  BY <1>1, ExclusiveStep DEF LInv
<1>3. AtHand(p)' /\ TypeOK'
  BY <1>1, <1>2 DEF EInv, TInv
<1>4. SUFFICES /\ pc'[p] \in {"write", "write2", "read"} => dir'[at'[p]] = fd'[p]
               /\ Stays(p)'
  <2>1. HasOpen'
    BY <1>4 DEF HasOpen
  <2>2. EntryStays'
    BY <1>4 DEF EntryStays
  <2>3. QED
    BY <1>2, <2>1, <2>2 DEF LInv
<1>5. CASE Open(p)
  <2>1. pc'[p] = "write"
    BY <1>1, <1>5 DEF Open, TypeOK
  <2>2. QED
    BY <1>5, <2>1, OpenContents DEF Stays
<1>6. CASE WritePart(p) \/ Write(p)
  BY <1>1, <1>6 DEF WritePart, Write, HasOpen, Stays, TypeOK
<1>7. CASE OpenToRead(p)
  <2>1. Leaves /\ dir' = dir
    BY <1>7, LeavesStep
  <2>2. pc'[p] = "read" /\ at' = at /\ fd'[p] = dir[at[p]] /\ task' = task /\ call' = call /\ pc[p] = "fetch"
    BY <1>1, <1>7 DEF OpenToRead, TypeOK
  <2>3. task[p] = "touch" => call[p].key \in Keys /\ path[call[p].key] \in Paths
    BY <1>1, DirectoryAssumption DEF AtHand
  <2>4. QED
    BY <1>1, <2>1, <2>2, <2>3 DEF EntryStays, Stays, Leaves, Contents
<1>8. CASE has(p)
  <2>1. Leaves
    BY <1>8, LeavesStep
  <2>2. pc'[p] \in {"open", "fetch"} /\ task' = task /\ call' = call /\ pc[p] = "has"
    BY <1>1, <1>8 DEF has, TypeOK
  <2>3. task[p] = "touch" => call[p].key \in Keys /\ path[call[p].key] \in Paths
    BY <1>1, DirectoryAssumption DEF AtHand
  <2>4. QED
    BY <1>1, <2>1, <2>2, <2>3 DEF EntryStays, Stays, Leaves, Contents
<1>9. CASE ReadFile(p) \/ ReadPart(p) \/ CannotRead(p)
  <2>1. PICK c : Fetched(p, c) /\ Took(p, c)
    BY <1>1, <1>9, ReadCases
  <2>2. pc[p] \in {"fetch", "read"}
    BY <1>1, <1>9, ReadCases
  <2>3. Leaves
    BY <1>9, LeavesStep
  <2>4. CASE LookedUp(p, c) /\ Readable(c)
    <3>1. /\ pc' = [pc EXCEPT ![p] = "has"]
          /\ call' = [call EXCEPT ![p].result = Tail(c)]
          /\ task[p] = "get"
      BY <2>4 DEF LookedUp
    <3>2. pc'[p] = "has" /\ call'[p].key = call[p].key
      BY <1>1, <3>1 DEF TypeOK
    <3>3. at[p] = path[call[p].key] /\ at[p] \in Paths
      BY <1>1, <2>2, <3>1 DEF AtHand
    <3>4. Readable(Contents(at[p]))
      BY <2>1, <2>2, <2>4, FoundAlone
    <3>5. QED
      BY <2>3, <3>2, <3>3, <3>4 DEF Stays, Leaves, Contents
  <2>5. CASE ~(LookedUp(p, c) /\ Readable(c))
    <3>1. pc'[p] \in {"idle", "open", "scan", "remove"}
      BY <1>1, <2>1, <2>5 DEF Took, LookedUp, ReadAgain, Scanned, TypeOK
    <3>2. QED
      BY <3>1 DEF Stays
  <2>6. QED
    BY <2>4, <2>5
<1>10. CASE \E q \in Paths : ScanFile(p, q)
  BY <1>1, <1>10 DEF Stays, ScanFile, TypeOK
<1>11. CASE \E k \in Keys : get(p, k)
  <2>1. task'[p] # "touch" /\ pc'[p] \notin {"write", "write2", "read"}
    BY <1>1, <1>11 DEF get, AtHand, TypeOK
  <2>2. QED
    BY <2>1 DEF Stays
<1>12. CASE \/ \E k \in Keys : \E v \in Values : set(p, k, v)
            \/ OpenFails(p) \/ HasThrows(p) \/ clean_up(p) \/ ListFails(p)
            \/ Remove(p) \/ RemoveFails(p) \/ ScanDone(p) \/ Restart(p)
  <2>1. pc'[p] \notin {"write", "write2", "has", "fetch", "read"}
    BY <1>1, <1>12 DEF set, OpenFails, HasThrows, clean_up, ListFails, Remove, RemoveFails, ScanDone, Restart,
                       TypeOK
  <2>2. QED
    BY <2>1 DEF Stays
<1>13. QED
  BY <1>5, <1>6, <1>7, <1>8, <1>9, <1>10, <1>11, <1>12 DEF Process

\* Alone, a value is short of what was set only where a read has failed.
LEMMA FullStep ==
    ASSUME LInv, ValuesFull, NEW p, Procs = {p}, Process(p)
    PROVE  ValuesFull'
<1> USE DEF Goto, WriteOver, openVars, callVars, fileVars, history
<1>1. p \in Procs /\ TInv /\ TypeOK /\ FilesInOrder /\ AtHand(p) /\ Undisturbed(p)
  BY AloneFacts
<1>2. /\ clashed # {} => failed
      /\ ~failed =>
           /\ \A q \in Paths : Readable(Contents(q)) => Len(Contents(q)) > 1
           /\ pc[p] \in {"open", "write", "write2"} => write[p].value # <<>>
           /\ call[p].result # NoValue => call[p].result # <<>>
  BY <1>1 DEF ValuesFull
<1>3. SUFFICES ASSUME ~failed'
               PROVE  /\ ~failed => clashed' = clashed
                      /\ ~failed
                      /\ \A q \in Paths : Readable(Contents(q)') => Len(Contents(q)') > 1
                      /\ pc'[p] \in {"open", "write", "write2"} => write'[p].value # <<>>
                      /\ call'[p].result # NoValue => call'[p].result # <<>>
  BY <1>2 DEF ValuesFull, Contents, Readable
<1>4. Leaves /\ ~failed => \A q \in Paths : Readable(Contents(q)') => Len(Contents(q)') > 1
  BY <1>2 DEF Leaves
<1>5. ASSUME NEW k \in Keys, NEW v \in Values, set(p, k, v) PROVE write'[p].value # <<>>
  <2>1. write'[p].value = Text(v)
    BY <1>1, <1>5 DEF set, TypeOK
  <2>2. Text(v) \in Seq(TextCells) /\ Len(Text(v)) \in {1, 2}
    BY TextFacts
  <2>3. Text(v) # <<>>
    BY <2>2, EmptySeq
  <2>4. QED
    BY <2>1, <2>3
<1>6. CASE \/ \E k \in Keys : get(p, k) \/ \E v \in Values : set(p, k, v)
           \/ OpenFails(p) \/ HasThrows(p) \/ clean_up(p) \/ (\E q \in Paths : ScanFile(p, q))
           \/ ListFails(p) \/ RemoveFails(p) \/ ScanDone(p) \/ Restart(p)
  <2>1. Leaves
    BY <1>6, LeavesStep
  <2>2. clashed' = clashed /\ failed' = failed
    BY <1>6 DEF get, set, OpenFails, HasThrows, clean_up, ScanFile, ListFails, RemoveFails, ScanDone, Restart
  <2>3. call' = call \/ call'[p].result = NoValue
    BY <1>1, <1>6 DEF get, set, OpenFails, HasThrows, clean_up, ScanFile, ListFails, RemoveFails, ScanDone,
                      Restart, NoCall, TypeOK
  <2>4. pc'[p] \in {"open", "write", "write2"} => write'[p].value # <<>>
    <3>1. CASE \E k \in Keys : \E v \in Values : set(p, k, v)
      BY <1>5, <3>1
    <3>2. CASE ~(\E k \in Keys : \E v \in Values : set(p, k, v))
      <4>1. pc'[p] \notin {"open", "write", "write2"}
        BY <1>1, <1>6, <3>2 DEF get, OpenFails, HasThrows, clean_up, ScanFile, ListFails, RemoveFails,
                                ScanDone, Restart, TypeOK
      <4>2. QED
        BY <4>1
    <3>3. QED
      BY <3>1, <3>2
  <2>5. QED
    BY <1>2, <1>3, <1>4, <2>1, <2>2, <2>3, <2>4
<1>7. CASE OpenToRead(p) \/ has(p)
  <2>1. Leaves
    BY <1>7, LeavesStep
  <2>2. clashed' = clashed
    <3>1. CASE OpenToRead(p)
      BY <3>1, AloneFacts DEF OpenToRead, Clash
    <3>2. CASE has(p)
      BY <3>2 DEF has
    <3>3. QED
      BY <1>7, <3>1, <3>2
  <2>3. failed' = failed /\ call' = call /\ write' = write
    BY <1>7 DEF OpenToRead, has
  <2>4. pc'[p] \notin {"open", "write", "write2"}
    <3>1. CASE OpenToRead(p)
      BY <1>1, <3>1 DEF OpenToRead, TypeOK
    <3>2. CASE has(p)
      <4>1. pc[p] = "has" /\ task[p] = "touch" /\ path[call[p].key] \in Paths
        BY <1>1, <3>2, DirectoryAssumption DEF has, AtHand
      <4>2. Readable(Contents(path[call[p].key]))
        BY <1>1, <4>1 DEF LInv, EntryStays, Stays
      <4>3. dir[path[call[p].key]] # NoFile
        BY <1>1, <4>1, <4>2, ContentsFacts
      <4>4. QED
        BY <1>1, <3>2, <4>3 DEF has, TypeOK
    <3>3. QED
      BY <1>7, <3>1, <3>2
  <2>5. QED
    BY <1>2, <1>3, <1>4, <2>1, <2>2, <2>3, <2>4
<1>8. CASE Open(p)
  <2>1. /\ \A q \in Paths : Contents(q)' = IF q = path[write[p].key] THEN <<>> ELSE Contents(q)
        /\ clashed' = clashed
    BY <1>8, OpenContents
  <2>2. failed' = failed /\ write' = write /\ call' = call /\ pc[p] = "open"
    BY <1>8 DEF Open
  <2>3. ~Readable(<<>>)
    BY DEF Readable
  <2>4. QED
    BY <1>2, <1>3, <2>1, <2>2, <2>3
<1>9. CASE Remove(p)
  <2>1. \A q \in Paths : Contents(q)' = IF q = at[p] THEN <<>> ELSE Contents(q)
    BY <1>9, RemoveContents
  <2>2. failed' = failed /\ clashed' = clashed /\ call' = call /\ pc'[p] = "scan"
    BY <1>1, <1>9 DEF Remove, TypeOK
  <2>3. ~Readable(<<>>)
    BY DEF Readable
  <2>4. QED
    BY <1>2, <1>3, <2>1, <2>2, <2>3
<1>10. CASE WritePart(p) \/ Write(p)
  <2>1. /\ failed' = failed /\ clashed' = clashed /\ call' = call /\ pc[p] \in {"write", "write2"}
        /\ pc'[p] \in {"write2", "cleanup", "idle"} /\ (pc'[p] = "write2" => write' = write)
    BY <1>1, <1>10 DEF WritePart, Write, TypeOK
  <2>2. write[p] \in Entries /\ write[p].value # <<>>
    BY <1>1, <1>2, <1>3, <2>1 DEF AtHand
  <2>3. \A q \in Paths : Readable(Contents(q)') => Len(Contents(q)') > 1
    <3>1. CASE Leaves
      BY <1>3, <1>4, <2>1, <3>1
    <3>2. CASE \E n \in 1 .. Len(Bytes(write[p])) :
                 /\ n > 1 \/ write[p].value = <<>>
                 /\ \A q \in Paths :
                       Contents(q)' = IF q = at[p] THEN SubSeq(Bytes(write[p]), 1, n) ELSE Contents(q)
      <4>1. PICK n \in 1 .. Len(Bytes(write[p])) :
                 /\ n > 1 \/ write[p].value = <<>>
                 /\ \A q \in Paths :
                       Contents(q)' = IF q = at[p] THEN SubSeq(Bytes(write[p]), 1, n) ELSE Contents(q)
        BY <3>2
      <4>2. Len(SubSeq(Bytes(write[p]), 1, n)) = n
        BY <2>2, PrefixFacts
      <4>3. QED
        BY <1>2, <1>3, <2>1, <2>2, <4>1, <4>2
    <3>3. QED
      BY <1>10, <3>1, <3>2, PutContents
  <2>4. QED
    BY <1>2, <1>3, <2>1, <2>2, <2>3
<1>11. CASE ReadFile(p) \/ ReadPart(p) \/ CannotRead(p)
  <2>1. PICK c : Fetched(p, c) /\ Took(p, c)
    BY <1>1, <1>11, ReadCases
  <2>2. pc[p] \in {"fetch", "read"} /\ at[p] \in Paths
    BY <1>1, <1>11, ReadCases DEF AtHand
  <2>3. Leaves
    BY <1>11, LeavesStep
  <2>4. ~failed /\ clashed' = clashed /\ c = Contents(at[p])
    BY <1>3, <2>1, <2>2, FoundAlone
  <2>5. ASSUME Readable(c) PROVE Tail(c) # <<>>
    <3>1. c \in Seq(Cells) /\ WellFormed(c) /\ c # <<>> /\ Len(c) > 1
      BY <1>2, <2>1, <2>2, <2>4, <2>5 DEF Fetched, Readable
    <3>2. Len(c) \in Nat /\ Len(Tail(c)) = Len(c) - 1
      BY <3>1, TailWritten
    <3>3. Len(Tail(c)) # 0
      BY <3>1, <3>2
    <3>4. QED
      BY <3>3, EmptySeq
  <2>6. CASE LookedUp(p, c)
    <3>1. pc'[p] \notin {"open", "write", "write2"}
      BY <1>1, <2>6 DEF LookedUp, TypeOK
    <3>2. call' = call \/ (Readable(c) /\ call'[p].result = Tail(c))
      BY <1>1, <2>6 DEF LookedUp, TypeOK
    <3>3. QED
      BY <1>2, <1>3, <1>4, <2>3, <2>4, <2>5, <3>1, <3>2
  <2>7. CASE ReadAgain(p, c)
    <3>1. task[p] = "touch" /\ call' = call
      BY <2>7 DEF ReadAgain
    <3>2. at[p] = path[call[p].key]
      BY <1>1, <2>2, <3>1 DEF AtHand
    <3>3. Readable(c)
      BY <1>1, <2>2, <2>4, <3>1, <3>2 DEF LInv, EntryStays, Stays
    <3>4. write'[p].value = Tail(c)
      BY <1>1, <2>7, <3>3 DEF ReadAgain, TypeOK
    <3>5. QED
      BY <1>2, <1>3, <1>4, <2>3, <2>4, <2>5, <3>1, <3>3, <3>4
  <2>8. CASE Scanned(p, c)
    <3>1. pc'[p] \notin {"open", "write", "write2"} /\ call' = call
      BY <1>1, <2>8 DEF Scanned, TypeOK
    <3>2. QED
      BY <1>2, <1>3, <1>4, <2>3, <2>4, <3>1
  <2>9. QED
    BY <2>1, <2>6, <2>7, <2>8 DEF Took
<1>12. QED
  BY <1>6, <1>7, <1>8, <1>9, <1>10, <1>11 DEF Process

LEMMA AloneStart == Init => AInv
<1> SUFFICES ASSUME Init PROVE AInv
  OBVIOUS
<1>1. VInv
  BY ValuesStart
<1>2. \A q \in Paths : Contents(q) = <<>>
  BY DEF Init, Contents
<1>3. ~Readable(<<>>)
  BY DEF Readable
<1>4. HasOpen /\ EntryStays
  BY DEF Init, HasOpen, EntryStays, Stays
<1>5. ValuesFull
  BY <1>2, <1>3 DEF Init, ValuesFull, NoCall
<1>6. QED
  BY <1>1, <1>4, <1>5 DEF AInv, LInv, VInv

LEMMA AloneStep ==
    ASSUME DistinctPaths, AInv, NEW p, Procs = {p}, Process(p)
    PROVE  AInv'
<1>1. p \in Procs /\ LInv /\ VInv /\ ValuesFull
  BY DEF AInv, LInv, VInv
<1>2. LInv' /\ ValuesFull'
  BY <1>1, LoneStep, FullStep
<1>3. ValuesOwn'
  BY <1>1, ValuesStep
<1>4. QED
  BY <1>2, <1>3 DEF AInv

LEMMA AloneStutter ==
    ASSUME UNCHANGED vars
    PROVE  /\ LInv => LInv'
           /\ AInv => AInv'
<1> USE DEF vars, fileVars, openVars, callVars, history
<1>1. EInv => EInv'
  <2>1. TInv => TInv'
    BY DEF TInv, TypeOK, FilesInOrder, InOrder, AtHand
  <2>2. QED
    BY <2>1 DEF EInv, Exclusive, Undisturbed, Holders, Writers, File, Bytes
<1>2. LInv => LInv'
  BY <1>1 DEF LInv, HasOpen, EntryStays, Stays, Contents
<1>3. ValuesOwn => ValuesOwn'
  BY DEF ValuesOwn, OwnFile, OwnWrite, OwnResult, Own, Clean, Filled, Beginning
<1>4. ValuesFull => ValuesFull'
  BY DEF ValuesFull, Contents
<1>5. QED
  BY <1>2, <1>3, <1>4 DEF AInv

LEMMA AloneReturned ==
    ASSUME AInv, Long = {}
    PROVE  GetReturnsSetValue
<1>1. SUFFICES ASSUME NEW p \in Procs, call[p].result # NoValue
               PROVE  \/ \E v \in everSet[call[p].key] : call[p].result = Text(v)
                      \/ failed /\ (call[p].result = Empty \/ path[call[p].key] \in clashed)
  BY DEF GetReturnsSetValue
<1>2. AtHand(p) /\ TypeOK /\ OwnResult(p) /\ ValuesFull
  BY DEF AInv, LInv, EInv, TInv, ValuesOwn
<1>3. call[p].key \in Keys /\ everSet \in [Keys -> SUBSET Values]
  BY <1>1, <1>2 DEF AtHand, TypeOK
<1>4. CASE Clean(call[p].key)
  <2>1. Beginning(call[p].result, call[p].key)
    BY <1>1, <1>2, <1>4 DEF OwnResult
  <2>2. call[p].result = <<>> \/ \E v \in everSet[call[p].key] : call[p].result = Text(v)
    BY <1>3, <2>1, Beginnings
  <2>3. call[p].result = <<>> => failed
    BY <1>1, <1>2 DEF ValuesFull
  <2>4. QED
    BY <2>2, <2>3 DEF Empty
<1>5. CASE ~Clean(call[p].key)
  BY <1>2, <1>5 DEF Clean, ValuesFull
<1>6. QED
  BY <1>4, <1>5

\* One process whose values are written at once never gets anything but what
\* was set for the key, also after it died between the truncation and the write
\* of a file; only a read that failed leaves an empty value, or one that is
\* not what the file held.
THEOREM SetValueReturned ==
    OneProcess /\ DistinctPaths /\ Long = {} => (Spec => []GetReturnsSetValue)
<1> SUFFICES ASSUME OneProcess, DistinctPaths, Long = {}
             PROVE  Spec => []GetReturnsSetValue
  OBVIOUS
<1>1. AInv /\ [Next]_vars => AInv'
  <2> SUFFICES ASSUME AInv, [Next]_vars PROVE AInv'
    OBVIOUS
  <2>1. CASE UNCHANGED vars
    BY <2>1, AloneStutter
  <2>2. ASSUME NEW p \in Procs, Process(p) PROVE AInv'
    <3>1. Procs = {p}
      BY DEF OneProcess
    <3>2. QED
      BY <2>2, <3>1, AloneStep
  <2>3. QED
    BY <2>1, <2>2 DEF Next, Exhausted
<1>2. QED
  BY <1>1, AloneStart, AloneReturned, PTL DEF Spec

-----------------------------------------------------------------------------
Stamp(q) == Contents(q)[1].n
ReadableFiles == {q \in Paths : Readable(Contents(q))}

\* What is about to be written is newer than every other entry.
Newest(p) ==
    /\ \A q \in ReadableFiles : Stamp(q) < next_usage[p]
    /\ task[p] \in {"set", "touch"} =>
         /\ write[p].used < next_usage[p]
         /\ \A q \in ReadableFiles : (pc[p] = "write2" /\ q = at[p]) \/ Stamp(q) < write[p].used
StampsDiffer == \A q, r \in ReadableFiles : Stamp(q) = Stamp(r) => q = r
StampInv == LInv /\ (crashes = 0 => (\A p \in Procs : Newest(p)) /\ StampsDiffer)

\* The stamps of entries are stamps.
LEMMA StampFacts ==
    ASSUME TypeOK, FilesInOrder
    PROVE  /\ MaxUsage \in Nat /\ MaxSize \in Nat
           /\ \A q \in ReadableFiles : Stamp(q) \in 1 .. MaxUsage /\ Stamp(q) \in Nat /\ q \in Paths
           /\ \A p \in Procs : next_usage[p] \in Nat /\ next_usage[p] >= 1
<1>1. MaxUsage \in Nat /\ MaxSize \in Nat
  BY DirectoryAssumption
<1>2. ASSUME NEW q \in ReadableFiles PROVE Stamp(q) \in 1 .. MaxUsage /\ q \in Paths
  <2>1. q \in Paths /\ Readable(Contents(q)) /\ Contents(q) \in Seq(Cells) /\ WellFormed(Contents(q))
    BY <1>2, ContentsFacts DEF ReadableFiles, InOrder
  <2>2. Contents(q)[1] \in Cells /\ Contents(q)[1].kind = "header"
    BY <2>1, TailWritten DEF Readable
  <2>3. QED
    BY <2>1, <2>2, CellFacts DEF Stamp
<1>3. \A p \in Procs : next_usage[p] \in Nat /\ next_usage[p] >= 1
  BY <1>1 DEF TypeOK
<1>4. QED
  BY <1>1, <1>2, <1>3

\* A step that adds no entry.
LEMMA FewerStamps ==
    ASSUME TypeOK, FilesInOrder,
           \A q \in Paths : Readable(Contents(q)') => Contents(q)' = Contents(q)
    PROVE  /\ ReadableFiles' \subseteq ReadableFiles
           /\ \A q \in Paths : q \in ReadableFiles' => Stamp(q)' = Stamp(q)
<1>1. \A q \in Paths : Readable(Contents(q)') => Readable(Contents(q)) /\ Contents(q)'[1].n = Contents(q)[1].n
  OBVIOUS
<1>2. QED
  BY <1>1 DEF ReadableFiles, Stamp, Readable

LEMMA StampStep ==
    ASSUME StampInv, NEW p, Procs = {p}, Process(p)
    PROVE  StampInv'
<1> USE DEF Goto, WriteOver, openVars, callVars, fileVars, history
<1>1. p \in Procs /\ LInv /\ TInv /\ TypeOK /\ FilesInOrder /\ AtHand(p)
  BY AloneFacts DEF StampInv
<1>2. LInv'
  BY <1>1, LoneStep
<1>3. SUFFICES ASSUME crashes' = 0 PROVE Newest(p)' /\ StampsDiffer'
  BY <1>2 DEF StampInv
<1>4. crashes = 0 /\ ~Restart(p)
  <2>1. CASE Restart(p)
    BY <1>1, <1>3, <2>1, DirectoryAssumption DEF Restart, TypeOK
  <2>2. CASE ReadFile(p) \/ ReadPart(p) \/ CannotRead(p)
    <3>1. pc[p] \in {"fetch", "read"} /\ crashes' = crashes
      BY <1>1, <2>2, ReadCases
    <3>2. ASSUME Restart(p) PROVE FALSE
      BY <1>1, <1>3, <3>1, <3>2, DirectoryAssumption DEF Restart, TypeOK
    <3>3. QED
      BY <1>3, <3>1, <3>2
  <2>3. CASE ~Restart(p) /\ ~(ReadFile(p) \/ ReadPart(p) \/ CannotRead(p))
    BY <1>3, <2>3 DEF Process, get, set, Open, OpenFails, WritePart, Write, has, HasThrows, OpenToRead, clean_up,
                      ScanFile, ListFails, Remove, RemoveFails, ScanDone
  <2>4. QED
    BY <2>1, <2>2, <2>3
<1>5. Newest(p) /\ StampsDiffer
  BY <1>1, <1>4 DEF StampInv
<1>6. /\ \A q \in ReadableFiles : Stamp(q) < next_usage[p]
      /\ task[p] \in {"set", "touch"} =>
           /\ write[p].used < next_usage[p]
           /\ \A q \in ReadableFiles : (pc[p] = "write2" /\ q = at[p]) \/ Stamp(q) < write[p].used
  BY <1>5 DEF Newest
<1>7. /\ \A q \in ReadableFiles : Stamp(q) \in Nat /\ q \in Paths
      /\ next_usage[p] \in Nat /\ next_usage[p] >= 1
  BY <1>1, StampFacts
<1>8. ASSUME ReadableFiles' \subseteq ReadableFiles,
             \A q \in Paths : q \in ReadableFiles' => Stamp(q)' = Stamp(q)
      PROVE  /\ StampsDiffer'
             /\ \A q \in ReadableFiles' : q \in ReadableFiles /\ Stamp(q)' = Stamp(q)
  BY <1>5, <1>7, <1>8 DEF StampsDiffer
<1>9. Leaves => ReadableFiles' \subseteq ReadableFiles /\ \A q \in Paths : q \in ReadableFiles' => Stamp(q)' = Stamp(q)
  BY <1>1, FewerStamps DEF Leaves
<1>10. ASSUME \/ \E k \in Keys : get(p, k)
              \/ OpenFails(p) \/ has(p) \/ HasThrows(p) \/ OpenToRead(p)
              \/ clean_up(p) \/ (\E q \in Paths : ScanFile(p, q)) \/ ListFails(p) \/ RemoveFails(p) \/ ScanDone(p)
       PROVE  Newest(p)' /\ StampsDiffer'
  <2>1. Leaves
    BY <1>1, <1>10, LeavesStep
  <2>2. next_usage' = next_usage
    BY <1>10 DEF get, OpenFails, has, HasThrows, OpenToRead, clean_up, ScanFile, ListFails, RemoveFails, ScanDone
  <2>3. task'[p] \in {"set", "touch"} => task'[p] = task[p] /\ write'[p] = write[p] /\ pc[p] # "write2"
    BY <1>1, <1>10 DEF get, OpenFails, has, HasThrows, OpenToRead, clean_up, ScanFile, ListFails, RemoveFails,
                       ScanDone, AtHand, TypeOK
  <2>4. QED
    BY <1>6, <1>8, <1>9, <2>1, <2>2, <2>3 DEF Newest
<1>11. ASSUME NEW k \in Keys, NEW v \in Values, set(p, k, v) PROVE Newest(p)' /\ StampsDiffer'
  <2>1. Leaves
    BY <1>1, <1>11, LeavesStep
  <2>2. next_usage'[p] = next_usage[p] + 1 /\ write'[p].used = next_usage[p]
    BY <1>1, <1>11 DEF set, TypeOK
  <2>3. QED
    BY <1>6, <1>7, <1>8, <1>9, <2>1, <2>2 DEF Newest
<1>12. CASE Open(p)
  <2>1. \A q \in Paths : Contents(q)' = IF q = path[write[p].key] THEN <<>> ELSE Contents(q)
    BY <1>1, <1>12, OpenContents
  <2>2. \A q \in Paths : Readable(Contents(q)') => Contents(q)' = Contents(q)
    BY <2>1 DEF Readable
  <2>3. ReadableFiles' \subseteq ReadableFiles /\ \A q \in Paths : q \in ReadableFiles' => Stamp(q)' = Stamp(q)
    BY <1>1, <2>2, FewerStamps
  <2>4. next_usage' = next_usage /\ task' = task /\ write' = write /\ pc[p] = "open"
    BY <1>12 DEF Open
  <2>5. QED
    BY <1>6, <1>8, <2>3, <2>4 DEF Newest
<1>13. CASE Remove(p)
  <2>1. \A q \in Paths : Contents(q)' = IF q = at[p] THEN <<>> ELSE Contents(q)
    BY <1>1, <1>13, RemoveContents
  <2>2. \A q \in Paths : Readable(Contents(q)') => Contents(q)' = Contents(q)
    BY <2>1 DEF Readable
  <2>3. ReadableFiles' \subseteq ReadableFiles /\ \A q \in Paths : q \in ReadableFiles' => Stamp(q)' = Stamp(q)
    BY <1>1, <2>2, FewerStamps
  <2>4. next_usage' = next_usage /\ task' = task /\ task[p] \notin {"set", "touch"}
    BY <1>1, <1>13 DEF Remove, AtHand
  <2>5. QED
    BY <1>6, <1>8, <2>3, <2>4 DEF Newest
<1>14. CASE WritePart(p) \/ Write(p)
  <2>1. /\ next_usage' = next_usage /\ pc[p] \in {"write", "write2"}
        /\ (WritePart(p) /\ pc'[p] = "write2" /\ task' = task /\ write' = write /\ at' = at)
           \/ (Write(p) /\ task'[p] = "none")
    BY <1>1, <1>14 DEF WritePart, Write, TypeOK
  <2>2. task[p] \in {"set", "touch"} /\ write[p] \in Entries /\ at[p] \in Paths
    BY <1>1, <2>1, AloneFacts DEF AtHand
  <2>3. CASE Write(p) /\ Leaves
    <3>1. task'[p] = "none"
      BY <1>1, <2>3 DEF Write, TypeOK
    <3>2. QED
      BY <1>6, <1>8, <1>9, <2>1, <2>3, <3>1 DEF Newest
  <2>4. CASE \E n \in 1 .. Len(Bytes(write[p])) :
               \A q \in Paths : Contents(q)' = IF q = at[p] THEN SubSeq(Bytes(write[p]), 1, n) ELSE Contents(q)
    <3>1. PICK n \in 1 .. Len(Bytes(write[p])) :
               \A q \in Paths : Contents(q)' = IF q = at[p] THEN SubSeq(Bytes(write[p]), 1, n) ELSE Contents(q)
      BY <2>4
    <3>2. /\ SubSeq(Bytes(write[p]), 1, n)[1] = Bytes(write[p])[1] /\ Bytes(write[p])[1].n = write[p].used
          /\ write[p].used \in Nat
      <4>1. MaxUsage \in Nat
        BY DirectoryAssumption
      <4>2. Bytes(write[p])[1].n = write[p].used /\ write[p].used \in 1 .. MaxUsage
        BY <2>2, BytesFacts
      <4>3. SubSeq(Bytes(write[p]), 1, n)[1] = Bytes(write[p])[1]
        BY <2>2, PrefixFacts
      <4>4. QED
        BY <4>1, <4>2, <4>3
    <3>3. \A q \in Paths : q = at[p] => Stamp(q)' = write[p].used
      BY <3>1, <3>2 DEF Stamp
    <3>4. \A q \in Paths : q # at[p] /\ q \in ReadableFiles' => q \in ReadableFiles /\ Stamp(q)' = Stamp(q)
      BY <3>1 DEF Stamp, ReadableFiles, Readable
    <3>5. \A q \in ReadableFiles' : q \in Paths
      BY DEF ReadableFiles
    <3>6. \A q \in ReadableFiles' : \/ q = at[p] /\ Stamp(q)' = write[p].used
                                    \/ q # at[p] /\ q \in ReadableFiles /\ Stamp(q)' = Stamp(q)
                                       /\ Stamp(q) < write[p].used
      BY <1>6, <2>2, <3>3, <3>4, <3>5
    <3>7. StampsDiffer'
      BY <1>5, <1>7, <3>2, <3>6 DEF StampsDiffer
    <3>8. write[p].used < next_usage[p]
      BY <1>6, <2>2
    <3>9. Newest(p)'
      BY <1>6, <1>7, <2>1, <2>2, <3>2, <3>6, <3>8 DEF Newest
    <3>10. QED
      BY <3>7, <3>9
  <2>5. QED
    BY <1>1, <1>14, <2>3, <2>4, PutContents
<1>15. CASE ReadFile(p) \/ ReadPart(p) \/ CannotRead(p)
  <2>1. PICK c : Fetched(p, c) /\ Took(p, c)
    BY <1>1, <1>15, ReadCases
  <2>2. pc[p] \in {"fetch", "read"}
    BY <1>1, <1>15, ReadCases
  <2>3. Leaves
    BY <1>1, <1>15, LeavesStep
  <2>4. CASE LookedUp(p, c) /\ Readable(c)
    <3>1. next_usage'[p] = next_usage[p] + 1 /\ write'[p].used = next_usage[p]
      BY <1>1, <2>4 DEF LookedUp, TypeOK
    <3>2. QED
      BY <1>6, <1>7, <1>8, <1>9, <2>3, <3>1 DEF Newest
  <2>5. CASE ~(LookedUp(p, c) /\ Readable(c))
    <3>1. /\ next_usage' = next_usage
          /\ task'[p] \in {"set", "touch"} => task[p] = task'[p] /\ write'[p].used = write[p].used
      BY <1>1, <2>1, <2>5 DEF Took, LookedUp, ReadAgain, Scanned, TypeOK
    <3>2. QED
      BY <1>6, <1>8, <1>9, <2>2, <2>3, <3>1 DEF Newest
  <2>6. QED
    BY <2>4, <2>5
<1>16. QED
  BY <1>4, <1>10, <1>11, <1>12, <1>13, <1>14, <1>15 DEF Process

-----------------------------------------------------------------------------
Few(S) == IsFiniteSet(S) /\ Cardinality(S) <= MaxSize

\* The entries, with the one that is being written anew.
Held(p) == ReadableFiles \cup (IF task[p] = "touch" THEN {path[call[p].key]} ELSE {})

\* Between calls there is room, and clean_up makes it, unless it passes over a
\* file: what it has not yet seen to is on its list or new enough to stay.
Spared(p, q) ==
    \/ q \in todo[p]
    \/ pc[p] # "scan" /\ q = at[p]
    \/ Stamp(q) >= break_index(p)
Room(p) ==
    ~missed[p] =>
        /\ pc[p] = "idle" \/ task[p] \in {"get", "touch"} => Few(Held(p))
        /\ pc[p] = "scan" \/ task[p] = "scan" =>
              /\ MaxSize < next_usage[p]
              /\ \A q \in ReadableFiles : Spared(p, q)
RoomInv == StampInv /\ (crashes = 0 => \A p \in Procs : Room(p))

\* Files with stamps of their own between lo and hi are no more than there are
\* stamps.
LEMMA FewStamps ==
    ASSUME TypeOK, StampsDiffer, NEW lo \in Nat, NEW hi \in Nat, hi < lo + MaxSize,
           \A q \in ReadableFiles : Stamp(q) \in lo .. hi
    PROVE  Few(ReadableFiles)
<1> DEFINE S == ReadableFiles
           stamp == [q \in S |-> Stamp(q)]
<1>1. \A q, r \in S : Stamp(q) = Stamp(r) => q = r
  BY DEF StampsDiffer
<1> HIDE DEF S
<1>2. stamp \in Injection(S, lo .. hi)
  BY <1>1 DEF Injection, IsInjective, S
<1>3. IsFiniteSet(lo .. hi) /\ Cardinality(lo .. hi) = IF lo > hi THEN 0 ELSE hi - lo + 1
  BY FS_Interval
<1>4. Cardinality(lo .. hi) <= MaxSize /\ MaxSize \in Nat
  BY <1>3, DirectoryAssumption
<1>5. IsFiniteSet(S) /\ Cardinality(S) <= Cardinality(lo .. hi)
  BY <1>2, <1>3, FS_Injection
<1>6. Cardinality(S) \in Nat
  BY <1>5, FS_CardinalityType
<1>7. QED
  BY <1>3, <1>4, <1>5, <1>6, FS_CardinalityType DEF Few, S

LEMMA FewerAreFew ==
    ASSUME NEW S, NEW T, T \subseteq S, Few(S)
    PROVE  Few(T)
<1>1. IsFiniteSet(S) /\ Cardinality(S) <= MaxSize /\ MaxSize \in Nat
  BY DirectoryAssumption DEF Few
<1>2. IsFiniteSet(T) /\ Cardinality(T) <= Cardinality(S)
  BY <1>1, FS_Subset
<1>3. QED
  BY <1>1, <1>2, FS_CardinalityType DEF Few

\* clean_up leaves no more stamps than max_size, and a lookup adds no file.
LEMMA RoomStep ==
    ASSUME RoomInv, NEW p, Procs = {p}, Process(p)
    PROVE  RoomInv'
<1> USE DEF Goto, WriteOver, openVars, callVars, fileVars, history
<1>1. p \in Procs /\ StampInv /\ LInv /\ TInv /\ TypeOK /\ FilesInOrder /\ AtHand(p)
  BY AloneFacts DEF RoomInv, StampInv
<1>2. StampInv' /\ TypeOK' /\ FilesInOrder' /\ AtHand(p)'
  <2>1. StampInv'
    BY <1>1, StampStep
  <2>2. QED
    BY <1>1, <2>1 DEF StampInv, LInv, EInv, TInv
<1> DEFINE Roomy == /\ pc'[p] = "idle" \/ task'[p] \in {"get", "touch"} => Few(Held(p)')
                    /\ pc'[p] = "scan" \/ task'[p] = "scan" =>
                          /\ MaxSize < next_usage'[p]
                          /\ \A q \in ReadableFiles' : Spared(p, q)'
<1>3. SUFFICES ASSUME crashes' = 0, ~missed'[p] PROVE Roomy
  BY <1>2 DEF RoomInv, Room, Few, Held
<1>4. crashes = 0 /\ ~Restart(p)
  <2>1. ASSUME Restart(p) PROVE FALSE
    BY <1>1, <1>3, <2>1, DirectoryAssumption DEF Restart, TypeOK
  <2>2. CASE ReadFile(p) \/ ReadPart(p) \/ CannotRead(p)
    BY <1>1, <1>3, <2>1, <2>2, ReadCases
  <2>3. CASE ~(ReadFile(p) \/ ReadPart(p) \/ CannotRead(p))
    BY <1>3, <2>1, <2>3 DEF Process, get, set, Open, OpenFails, WritePart, Write, has, HasThrows, OpenToRead,
                            clean_up, ScanFile, ListFails, Remove, RemoveFails, ScanDone
  <2>4. QED
    BY <2>1, <2>2, <2>3
<1>5. ASSUME ~missed[p]
      PROVE  /\ pc[p] = "idle" \/ task[p] \in {"get", "touch"} => Few(Held(p))
             /\ pc[p] = "scan" \/ task[p] = "scan" =>
                   /\ MaxSize < next_usage[p]
                   /\ \A q \in ReadableFiles : Spared(p, q)
  BY <1>1, <1>4, <1>5 DEF RoomInv, Room
<1>6. Newest(p) /\ StampsDiffer
  BY <1>1, <1>4 DEF StampInv
<1>7. /\ MaxSize \in Nat
      /\ \A q \in ReadableFiles : Stamp(q) \in Nat /\ Stamp(q) >= 1 /\ Stamp(q) < next_usage[p]
      /\ next_usage[p] \in Nat /\ next_usage[p] >= 1
  BY <1>1, <1>6, StampFacts DEF Newest
<1>8. Leaves => ReadableFiles' \subseteq ReadableFiles /\ \A q \in Paths : q \in ReadableFiles' => Stamp(q)' = Stamp(q)
  BY <1>1, FewerStamps DEF Leaves
<1>9. \A q \in ReadableFiles' : q \in Paths
  BY DEF ReadableFiles
<1>10. ASSUME \/ \E k \in Keys : get(p, k)
              \/ OpenFails(p) \/ has(p) \/ HasThrows(p) \/ OpenToRead(p)
       PROVE  Roomy
  <2>1. Leaves
    BY <1>1, <1>10, LeavesStep
  <2>2. next_usage' = next_usage /\ todo' = todo /\ missed' = missed
    BY <1>10 DEF get, OpenFails, has, HasThrows, OpenToRead
  <2>3. pc'[p] = "idle" \/ task'[p] \in {"get", "touch"} =>
           /\ pc[p] = "idle" \/ task[p] \in {"get", "touch"}
           /\ task'[p] = "touch" => task[p] = "touch" /\ call'[p] = call[p]
    BY <1>1, <1>10 DEF get, OpenFails, has, HasThrows, OpenToRead, AtHand, TypeOK
  <2>4. pc'[p] = "scan" \/ task'[p] = "scan" => task[p] = "scan" /\ pc[p] # "scan" /\ at'[p] = at[p] /\ pc'[p] # "scan"
    BY <1>1, <1>10 DEF get, OpenFails, has, HasThrows, OpenToRead, AtHand, TypeOK
  <2>5. pc'[p] = "idle" \/ task'[p] \in {"get", "touch"} => Few(Held(p)')
    <3>1. SUFFICES ASSUME pc'[p] = "idle" \/ task'[p] \in {"get", "touch"} PROVE Few(Held(p)')
      OBVIOUS
    <3>2. Held(p)' \subseteq Held(p)
      BY <1>8, <2>1, <2>3, <3>1 DEF Held
    <3>3. Few(Held(p))
      BY <1>3, <1>5, <2>2, <2>3, <3>1
    <3>4. QED
      BY <3>2, <3>3, FewerAreFew
  <2>6. pc'[p] = "scan" \/ task'[p] = "scan" =>
           /\ MaxSize < next_usage'[p]
           /\ \A q \in ReadableFiles' : Spared(p, q)'
    BY <1>3, <1>5, <1>8, <1>9, <2>1, <2>2, <2>4 DEF Spared, break_index
  <2>7. QED
    BY <1>3, <2>5, <2>6
<1>11. ASSUME NEW k \in Keys, NEW v \in Values, set(p, k, v) PROVE Roomy
  <2>1. pc'[p] = "open" /\ task'[p] = "set"
    BY <1>1, <1>11 DEF set, TypeOK
  <2>2. QED
    BY <1>3, <2>1
<1>12. CASE Open(p)
  <2>1. \A q \in Paths : Contents(q)' = IF q = path[write[p].key] THEN <<>> ELSE Contents(q)
    BY <1>1, <1>12, OpenContents
  <2>2. \A q \in Paths : Readable(Contents(q)') => Contents(q)' = Contents(q)
    BY <2>1 DEF Readable
  <2>3. ReadableFiles' \subseteq ReadableFiles
    BY <1>1, <2>2, FewerStamps
  <2>4. /\ task' = task /\ call' = call /\ missed' = missed /\ pc'[p] = "write"
        /\ task[p] \in {"set", "touch"}
    BY <1>1, <1>12 DEF Open, AtHand, TypeOK
  <2>5. Held(p)' \subseteq Held(p)
    BY <2>3, <2>4 DEF Held
  <2>6. QED
    BY <1>3, <1>5, <2>4, <2>5, FewerAreFew
<1>13. CASE WritePart(p) \/ Write(p)
  <2>1. /\ pc[p] \in {"write", "write2"} /\ call' = call /\ missed' = missed
        /\ task'[p] \in {task[p], "none"}
        /\ pc'[p] = "idle" => task[p] # "set"
        /\ pc'[p] # "scan"
    BY <1>1, <1>13 DEF WritePart, Write, TypeOK
  <2>2. task[p] \in {"set", "touch"} /\ at[p] = path[write[p].key]
        /\ (task[p] = "touch" => path[write[p].key] = path[call[p].key])
    BY <1>1, <2>1 DEF AtHand
  <2>3. ReadableFiles' \subseteq ReadableFiles \cup {at[p]}
    <3>1. CASE Leaves
      BY <1>8, <3>1
    <3>2. CASE \E n \in 1 .. Len(Bytes(write[p])) :
               \A q \in Paths : Contents(q)' = IF q = at[p] THEN SubSeq(Bytes(write[p]), 1, n) ELSE Contents(q)
      BY <3>2 DEF ReadableFiles
    <3>3. QED
      BY <1>1, <1>13, <3>1, <3>2, PutContents
  <2>4. CASE task[p] = "set"
    BY <1>3, <2>1, <2>4
  <2>5. CASE task[p] = "touch"
    <3>1. Held(p)' \subseteq Held(p)
      BY <2>1, <2>2, <2>3, <2>5 DEF Held
    <3>2. QED
      BY <1>3, <1>5, <2>1, <2>5, <3>1, FewerAreFew
  <2>6. QED
    BY <2>2, <2>4, <2>5
<1>14. CASE ReadFile(p) \/ ReadPart(p) \/ CannotRead(p)
  <2>1. PICK c : Fetched(p, c) /\ Took(p, c)
    BY <1>1, <1>14, ReadCases
  <2>2. pc[p] \in {"fetch", "read"} /\ todo' = todo /\ at[p] \in Paths
    BY <1>1, <1>14, ReadCases DEF AtHand
  <2>3. Leaves /\ ReadableFiles' \subseteq ReadableFiles
    BY <1>1, <1>8, <1>14, LeavesStep
  <2>4. /\ Readable(c) => Readable(Contents(at[p])) /\ c[1] = Contents(at[p])[1]
        /\ ~missed[p]
        /\ task[p] # "scan" \/ Readable(c) \/ ~Readable(Contents(at[p]))
    BY <1>1, <1>3, <2>1, <2>2, FoundAlone
  <2>5. CASE LookedUp(p, c)
    <3>1. task[p] = "get" /\ task'[p] # "scan" /\ pc'[p] # "scan"
      BY <1>1, <2>5 DEF LookedUp, TypeOK
    <3>2. task'[p] = "touch" => Readable(c) /\ call'[p].key = call[p].key
      BY <1>1, <2>5 DEF LookedUp, TypeOK
    <3>3. at[p] = path[call[p].key]
      BY <1>1, <2>2, <3>1 DEF AtHand
    <3>4. task'[p] = "touch" => at[p] \in ReadableFiles
      BY <2>2, <2>4, <3>2 DEF ReadableFiles
    <3>5. Held(p)' \subseteq Held(p)
      BY <2>3, <3>2, <3>3, <3>4 DEF Held
    <3>6. QED
      BY <1>3, <1>5, <2>4, <3>1, <3>5, FewerAreFew
  <2>6. CASE ReadAgain(p, c)
    <3>1. task[p] = "touch" /\ task' = task /\ call' = call /\ pc'[p] = "open"
      BY <1>1, <2>6 DEF ReadAgain, TypeOK
    <3>2. Held(p)' \subseteq Held(p)
      BY <2>3, <3>1 DEF Held
    <3>3. QED
      BY <1>3, <1>5, <2>4, <3>1, <3>2, FewerAreFew
  <2>7. CASE Scanned(p, c)
    <3>1. /\ task[p] = "scan" /\ task' = task /\ next_usage' = next_usage
          /\ pc'[p] = IF Readable(c) /\ c[1].n < break_index(p) THEN "remove" ELSE "scan"
          /\ pc'[p] = "remove" => at'[p] = at[p]
      BY <1>1, <2>1, <2>7 DEF Took, Scanned, TypeOK
    <3>2. \A q \in ReadableFiles : Spared(p, q)
      BY <1>5, <2>4, <3>1
    <3>3. ASSUME NEW q \in ReadableFiles' PROVE Spared(p, q)'
      <4>1. q \in ReadableFiles /\ q \in Paths /\ Stamp(q)' = Stamp(q) /\ Spared(p, q) /\ Readable(Contents(q))
        BY <1>8, <1>9, <2>3, <3>2, <3>3 DEF ReadableFiles
      <4>2. break_index(p)' = break_index(p) /\ break_index(p) \in Int
        BY <1>7, <3>1 DEF break_index
      <4>3. CASE q # at[p]
        BY <2>2, <4>1, <4>2, <4>3 DEF Spared
      <4>4. CASE q = at[p]
        <5>1. Readable(c) /\ c[1].n = Stamp(q)
          BY <2>4, <3>1, <4>1, <4>4 DEF Stamp
        <5>2. CASE Stamp(q) < break_index(p)
          BY <3>1, <4>4, <5>1, <5>2 DEF Spared
        <5>3. CASE Stamp(q) >= break_index(p)
          BY <4>1, <4>2, <5>3 DEF Spared
        <5>4. QED
          BY <1>7, <4>1, <4>2, <5>2, <5>3
      <4>5. QED
        BY <4>3, <4>4
    <3>4. pc'[p] # "idle" /\ task'[p] \notin {"get", "touch"} /\ MaxSize < next_usage'[p]
      BY <1>5, <2>4, <3>1
    <3>5. QED
      BY <1>3, <3>3, <3>4
  <2>8. QED
    BY <2>1, <2>5, <2>6, <2>7 DEF Took
<1>15. CASE clean_up(p)
  <2>1. Leaves /\ ReadableFiles' \subseteq ReadableFiles
    BY <1>1, <1>8, <1>15, LeavesStep
  <2>2. next_usage' = next_usage /\ task' = task /\ task[p] = "none"
    BY <1>1, <1>15 DEF clean_up, AtHand
  <2>3. CASE next_usage[p] <= MaxSize
    <3>1. pc'[p] = "idle"
      BY <1>1, <1>15, <2>3 DEF clean_up, TypeOK
    <3>2. \A q \in ReadableFiles : Stamp(q) \in 1 .. next_usage[p] - 1
      BY <1>7
    <3>3. Few(ReadableFiles)
      <4>1. 1 \in Nat /\ next_usage[p] - 1 \in Nat /\ next_usage[p] - 1 < 1 + MaxSize
        BY <1>7, <2>3
      <4>2. QED
        BY <1>1, <1>6, <3>2, <4>1, FewStamps
    <3>4. Held(p)' \subseteq ReadableFiles
      BY <2>1, <2>2 DEF Held
    <3>5. QED
      BY <1>3, <2>2, <3>1, <3>3, <3>4, FewerAreFew
  <2>4. CASE ~(next_usage[p] <= MaxSize)
    <3>1. pc'[p] = "scan" /\ {q \in Paths : dir[q] # NoFile} \subseteq todo'[p]
      BY <1>1, <1>15, <2>4 DEF clean_up, TypeOK
    <3>2. MaxSize < next_usage'[p]
      BY <1>7, <2>2, <2>4
    <3>3. \A q \in ReadableFiles : dir[q] # NoFile /\ q \in Paths
      BY <1>1, ContentsFacts DEF ReadableFiles
    <3>4. \A q \in ReadableFiles' : Spared(p, q)'
      BY <2>1, <3>1, <3>3 DEF Spared
    <3>5. QED
      BY <1>3, <2>2, <3>1, <3>2, <3>4
  <2>5. QED
    BY <2>3, <2>4
<1>16. ASSUME NEW q \in Paths, ScanFile(p, q) PROVE Roomy
  <2>1. Leaves
    BY <1>1, <1>16, LeavesStep
  <2>2. /\ next_usage' = next_usage /\ missed' = missed /\ pc[p] = "scan" /\ pc'[p] = "fetch" /\ task'[p] = "scan"
        /\ todo'[p] = todo[p] \ {q} /\ at'[p] = q
    BY <1>1, <1>16 DEF ScanFile, TypeOK
  <2>3. MaxSize < next_usage[p] /\ \A r \in ReadableFiles : Spared(p, r)
    BY <1>3, <1>5, <2>2
  <2>4. ASSUME NEW r \in ReadableFiles' PROVE Spared(p, r)'
    <3>1. r \in ReadableFiles /\ Stamp(r)' = Stamp(r) /\ Spared(p, r) /\ break_index(p)' = break_index(p)
      BY <1>8, <1>9, <2>1, <2>2, <2>3, <2>4 DEF break_index
    <3>2. QED
      BY <2>2, <3>1 DEF Spared
  <2>5. QED
    BY <1>3, <2>2, <2>3, <2>4
<1>17. CASE ListFails(p)
  BY <1>1, <1>3, <1>17 DEF ListFails, TypeOK
<1>18. CASE RemoveFails(p)
  BY <1>1, <1>3, <1>18 DEF RemoveFails, TypeOK
<1>19. CASE Remove(p)
  <2>1. \A q \in Paths : Contents(q)' = IF q = at[p] THEN <<>> ELSE Contents(q)
    BY <1>1, <1>19, RemoveContents
  <2>2. \A q \in Paths : Readable(Contents(q)') => Contents(q)' = Contents(q) /\ q # at[p]
    BY <2>1 DEF Readable
  <2>3. ReadableFiles' \subseteq ReadableFiles /\ \A q \in Paths : q \in ReadableFiles' => Stamp(q)' = Stamp(q)
    BY <1>1, <2>2, FewerStamps
  <2>4. /\ next_usage' = next_usage /\ missed' = missed /\ todo' = todo /\ task' = task
        /\ pc[p] = "remove" /\ pc'[p] = "scan" /\ task[p] = "scan"
    BY <1>1, <1>19 DEF Remove, AtHand, TypeOK
  <2>5. task[p] = "scan" /\ MaxSize < next_usage[p] /\ \A q \in ReadableFiles : Spared(p, q)
    BY <1>1, <1>3, <1>5, <1>19, <2>4 DEF Remove, AtHand
  <2>6. ASSUME NEW q \in ReadableFiles' PROVE Spared(p, q)'
    <3>1. /\ q \in ReadableFiles /\ q # at[p] /\ Stamp(q)' = Stamp(q) /\ Spared(p, q)
          /\ break_index(p)' = break_index(p)
      BY <1>9, <2>2, <2>3, <2>4, <2>5, <2>6 DEF break_index, ReadableFiles
    <3>2. QED
      BY <2>4, <3>1 DEF Spared
  <2>7. QED
    BY <1>3, <2>4, <2>5, <2>6
<1>20. CASE ScanDone(p)
  <2>1. Leaves /\ ReadableFiles' \subseteq ReadableFiles
    BY <1>1, <1>8, <1>20, LeavesStep
  <2>2. /\ pc[p] = "scan" /\ todo[p] = {} /\ pc'[p] = "idle" /\ task'[p] = "none" /\ missed' = missed
    BY <1>1, <1>20 DEF ScanDone, TypeOK
  <2>3. MaxSize < next_usage[p] /\ \A q \in ReadableFiles : Spared(p, q)
    BY <1>3, <1>5, <2>2
  <2>4. \A q \in ReadableFiles : Stamp(q) \in next_usage[p] - MaxSize .. next_usage[p] - 1
    BY <1>7, <2>2, <2>3 DEF Spared, break_index
  <2>5. Few(ReadableFiles)
    <3>1. /\ next_usage[p] - MaxSize \in Nat /\ next_usage[p] - 1 \in Nat
          /\ next_usage[p] - 1 < (next_usage[p] - MaxSize) + MaxSize
      BY <1>7, <2>3
    <3>2. QED
      BY <1>1, <1>6, <2>4, <3>1, FewStamps
  <2>6. Held(p)' \subseteq ReadableFiles
    BY <2>1, <2>2 DEF Held
  <2>7. QED
    BY <1>3, <2>2, <2>5, <2>6, FewerAreFew
<1>21. QED
  BY <1>4, <1>10, <1>11, <1>12, <1>13, <1>14, <1>15, <1>16, <1>17, <1>18, <1>19, <1>20 DEF Process

LEMMA RoomStart == Init => RoomInv
<1> SUFFICES ASSUME Init PROVE RoomInv
  OBVIOUS
<1>1. LInv
  BY AloneStart DEF AInv
<1>2. \A q \in Paths : Contents(q) = <<>>
  BY DEF Init, Contents
<1>3. ReadableFiles = {}
  BY <1>2 DEF ReadableFiles, Readable
<1>4. Few({})
  BY FS_EmptySet, DirectoryAssumption DEF Few
<1>5. ASSUME NEW p \in Procs PROVE Newest(p) /\ Room(p)
  BY <1>3, <1>4 DEF Init, Newest, Room, Held
<1>6. StampsDiffer
  BY <1>3 DEF StampsDiffer
<1>7. QED
  BY <1>1, <1>5, <1>6 DEF RoomInv, StampInv

LEMMA RoomStutter == ASSUME UNCHANGED vars PROVE RoomInv => RoomInv'
<1> USE DEF vars, fileVars, openVars, callVars, history
<1>1. LInv => LInv'
  BY AloneStutter
<1>2. ReadableFiles' = ReadableFiles
  BY DEF ReadableFiles, Contents
<1>3. \A q \in Paths : Stamp(q)' = Stamp(q)
  BY DEF Stamp, Contents
<1>4. \A q \in ReadableFiles : q \in Paths
  BY DEF ReadableFiles
<1>5. StampsDiffer => StampsDiffer'
  BY <1>2, <1>3, <1>4 DEF StampsDiffer
<1>6. ASSUME NEW p \in Procs PROVE (Newest(p) => Newest(p)') /\ (Room(p) => Room(p)')
  <2>1. Newest(p) => Newest(p)'
    BY <1>2, <1>3, <1>4 DEF Newest
  <2>2. Held(p)' = Held(p)
    BY <1>2 DEF Held
  <2>3. \A q \in ReadableFiles : Spared(p, q) => Spared(p, q)'
    BY <1>3, <1>4 DEF Spared, break_index
  <2>4. Room(p) => Room(p)'
    BY <1>2, <2>2, <2>3 DEF Room, Few
  <2>5. QED
    BY <2>1, <2>4
<1>7. QED
  BY <1>1, <1>5, <1>6 DEF RoomInv, StampInv

LEMMA StampsTold ==
    ASSUME StampInv, OneProcess
    PROVE  StampsDistinct
<1>1. PICK p : Procs = {p}
  BY DEF OneProcess
<1>2. SUFFICES ASSUME crashes = 0, NEW q \in Paths, NEW r \in Paths,
                      Readable(Contents(q)), Readable(Contents(r))
               PROVE  /\ Stamp(q) < next_usage[p]
                      /\ Stamp(q) = Stamp(r) => q = r
  BY <1>1 DEF StampsDistinct, Stamp
<1>3. p \in Procs /\ q \in ReadableFiles /\ r \in ReadableFiles
  BY <1>1, <1>2 DEF ReadableFiles
<1>4. QED
  BY <1>2, <1>3 DEF StampInv, Newest, StampsDiffer

LEMMA RoomTold ==
    ASSUME RoomInv, OneProcess
    PROVE  SizeBound
<1>1. PICK p : Procs = {p}
  BY DEF OneProcess
<1>2. SUFFICES ASSUME crashes = 0, pc[p] = "idle", ~missed[p]
               PROVE  Cardinality(ReadableFiles) <= MaxSize
  BY <1>1 DEF SizeBound, ReadableFiles
<1>3. p \in Procs /\ AtHand(p)
  BY <1>1 DEF RoomInv, StampInv, LInv, EInv, TInv
<1>4. Held(p) = ReadableFiles
  BY <1>2, <1>3 DEF AtHand, Held
<1>5. QED
  BY <1>2, <1>3, <1>4 DEF RoomInv, Room, Few

\* Alone in the directory, at every step of every call.
LEMMA RoomInductive == ASSUME OneProcess PROVE Spec => []RoomInv
<1>1. RoomInv /\ [Next]_vars => RoomInv'
  <2> SUFFICES ASSUME RoomInv, [Next]_vars PROVE RoomInv'
    OBVIOUS
  <2>1. CASE UNCHANGED vars
    BY <2>1, RoomStutter
  <2>2. ASSUME NEW p \in Procs, Process(p) PROVE RoomInv'
    <3>1. Procs = {p}
      BY DEF OneProcess
    <3>2. QED
      BY <2>2, <3>1, RoomStep
  <2>3. QED
    BY <2>1, <2>2 DEF Next, Exhausted
<1>2. QED
  BY <1>1, RoomStart, PTL DEF Spec

\* The next_usage stamps of one process that has not restarted never repeat
\* among its files, at any step of a call.
THEOREM StampsAreDistinct == OneProcess => (Spec => []StampsDistinct)
<1> SUFFICES ASSUME OneProcess PROVE Spec => []StampsDistinct
  OBVIOUS
<1>1. RoomInv => StampsDistinct
  BY StampsTold DEF RoomInv
<1>2. QED
  BY <1>1, RoomInductive, PTL

\* Between the calls of one process that has not restarted, clean_up has left
\* no more than max_size readable files, unless a listing, a reading or a
\* removal has failed it.
THEOREM SizeIsBounded == OneProcess => (Spec => []SizeBound)
<1> SUFFICES ASSUME OneProcess PROVE Spec => []SizeBound
  OBVIOUS
<1>1. RoomInv => SizeBound
  BY RoomTold
<1>2. QED
  BY <1>1, RoomInductive, PTL

============================================================================
