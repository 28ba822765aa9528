------------------------------ MODULE Unicode ------------------------------
(* The canonical normal forms of UTF-8 text (unicode/normalization.hpp,    *)
(* hangul.hpp).  The generated tables are parameters.                      *)
EXTENDS UtfText
LOCAL INSTANCE SequencesExt

CONSTANTS
    CccTable,     \* the combining classes that are not 0
    DecompTable,  \* full canonical decompositions
    ComposeTable  \* primary composites: [first][second]

ASSUME UnicodeAssumption ==
    /\ \A c \in DOMAIN CccTable : CccTable[c] \in 1 .. 254
    /\ \A c \in DOMAIN DecompTable : \A i \in DOMAIN DecompTable[c] : DecompTable[c][i] \notin DOMAIN DecompTable

RECURSIVE SiftLeft(_, _, _), ReorderFrom(_, _), Absorb(_, _, _, _, _), ComposeFrom(_, _)

ccc_of(cp) == IF cp \in DOMAIN CccTable THEN CccTable[cp] ELSE 0

SiftLeft(units, back, ccc) ==
    LET prev == prev_code_point(units, back)
    IN IF back = 1 THEN units
       ELSE IF ccc_of(prev.cp) <= ccc THEN units
       ELSE SiftLeft(swap_code_points(units, prev.at, back), prev.at, ccc)

\* Mistake: after a starter two code points are skipped.
ReorderFromSkipping(units, pos) ==
    LET cur == next_code_point(units, pos)
        skipped == cur.next + required_length_of(units[cur.next])
    IN IF pos > Len(units) THEN units
       ELSE IF ccc_of(cur.cp) # 0 THEN ReorderFrom(SiftLeft(units, pos, ccc_of(cur.cp)), cur.next)
       ELSE IF cur.next > Len(units) \/ skipped > Len(units) THEN units
       ELSE ReorderFrom(units, skipped + required_length_of(units[skipped]))

\* After a starter the next code point is skipped: it is not moved before it.
ReorderFrom(units, pos) ==
    LET cur == next_code_point(units, pos)
    IN IF pos > Len(units) THEN units
       ELSE IF ccc_of(cur.cp) # 0 THEN ReorderFrom(SiftLeft(units, pos, ccc_of(cur.cp)), cur.next)
       ELSE IF cur.next > Len(units) THEN units
       ELSE ReorderFrom(units, cur.next + required_length_of(units[cur.next]))

canonical_reorder(units) ==
    IF units = <<>> THEN units ELSE ReorderFrom(units, 1 + required_length_of(units[1]))

\* Hangul syllables are numbered leading by vowel by trailing.
SBase == 44032   LBase == 4352   VBase == 4449   TBase == 4519
LCount == 19     VCount == 21    TCount == 28
is_hangul_code_point(cp) == cp \in SBase .. SBase + LCount * VCount * TCount - 1

decompose_hangul(cp) ==
    LET pos == cp - SBase
    IN <<LBase + pos \div (VCount * TCount), VBase + (pos % (VCount * TCount)) \div TCount>>
         \o IF pos % TCount = 0 THEN <<>> ELSE <<TBase + (pos % TCount)>>

NoCode == 65533     \* replacement_char

\* TBase counts as a trailing consonant.
compose_hangul(lhs, rhs) ==
    IF lhs \in LBase .. LBase + LCount - 1 /\ rhs \in VBase .. VBase + VCount - 1
    THEN SBase + ((lhs - LBase) * VCount + rhs - VBase) * TCount
    ELSE IF is_hangul_code_point(lhs) /\ (lhs - SBase) % TCount = 0 /\ rhs \in TBase .. TBase + TCount - 1
    THEN lhs + rhs - TBase
    ELSE NoCode

canonical_decompose(cps) ==
    FoldLeft(LAMBDA s, cp : s \o IF is_hangul_code_point(cp) THEN decompose_hangul(cp)
                                 ELSE IF cp \in DOMAIN DecompTable THEN DecompTable[cp] ELSE <<cp>>, <<>>, cps)

canonical_composed(lhs, rhs) ==
    IF \E c \in DOMAIN ComposeTable : rhs \in DOMAIN ComposeTable[c]
    THEN IF lhs \in DOMAIN ComposeTable /\ rhs \in DOMAIN ComposeTable[lhs] THEN ComposeTable[lhs][rhs] ELSE NoCode
    ELSE compose_hangul(lhs, rhs)

\* The inner loop of canonical_compose: the starter cp1 takes what composes
\* with it and is not blocked.  prev_ccc is one more than in the code.
Absorb(cps, i, cp1, prev_ccc, marks) ==
    LET ccc == ccc_of(cps[i])
        composed == canonical_composed(cp1, cps[i])
    IN IF i > Len(cps) THEN [out |-> <<cp1>> \o marks, next |-> i]
       ELSE IF prev_ccc < ccc + 1 /\ composed # NoCode THEN Absorb(cps, i + 1, composed, prev_ccc, marks)
       ELSE IF ccc = 0 THEN [out |-> <<cp1>> \o marks, next |-> i]
       ELSE Absorb(cps, i + 1, cp1, ccc + 1, Append(marks, cps[i]))

ComposeFrom(cps, i) ==
    LET run == Absorb(cps, i + 1, cps[i], 0, <<>>)
    IN IF i > Len(cps) THEN <<>> ELSE run.out \o ComposeFrom(cps, run.next)

\* The code points of well-formed units (what iterating them gives).
CodePoints(units) ==
    FoldLeft(LAMBDA s, k : IF s.next > Len(units) THEN s
                           ELSE [out |-> Append(s.out, next_code_point(units, s.next).cp),
                                 next |-> next_code_point(units, s.next).next],
             [out |-> <<>>, next |-> 1], units).out

NFD(cps) == CodePoints(canonical_reorder(Utf8(canonical_decompose(cps))))
NFC(cps) == ComposeFrom(NFD(cps), 1)
-----------------------------------------------------------------------------
\* Canonical ordering: starters stay, marks are sorted by class within their
\* run, and marks of one class keep their order.
ReorderExact(cps) ==
    LET out == CodePoints(canonical_reorder(Utf8(cps)))
        Class(s, k) == SelectSeq(s, LAMBDA cp : ccc_of(cp) = k)
        Runs == {r \in (DOMAIN cps) \X (DOMAIN cps) : \A i \in r[1] .. r[2] : ccc_of(cps[i]) # 0}
        Bounded(r) == /\ r[1] = 1 \/ ccc_of(cps[r[1] - 1]) = 0
                      /\ r[2] = Len(cps) \/ ccc_of(cps[r[2] + 1]) = 0
    IN /\ Len(out) = Len(cps)
       /\ \A i \in DOMAIN cps : ccc_of(cps[i]) = 0 => out[i] = cps[i]
       /\ \A i \in 1 .. Len(out) - 1 : ccc_of(out[i + 1]) = 0 \/ ccc_of(out[i]) <= ccc_of(out[i + 1])
       /\ \A r \in Runs : Bounded(r) =>
            \A k \in {ccc_of(cps[i]) : i \in r[1] .. r[2]} :
              Class(SubSeq(out, r[1], r[2]), k) = Class(SubSeq(cps, r[1], r[2]), k)

\* Texts that are equivalent have one NFD and one NFC: composing loses
\* nothing, and normal forms are fixed points of normalize.
NormalForms(cps) ==
    /\ NFD(NFC(cps)) = NFD(cps)
    /\ NFC(NFC(cps)) = NFC(cps) /\ NFC(NFD(cps)) = NFC(cps)
    /\ NFD(NFD(cps)) = NFD(cps)
=============================================================================
