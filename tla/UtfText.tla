------------------------------ MODULE UtfText ------------------------------
(* UTF-8 text as sequences of code units: writing it, reading it in both   *)
(* directions and swapping code points in place (unicode/unicode.hpp).     *)
(* The pins of utf_reducer are places in a sequence of code points.        *)
EXTENDS Ascii

\* Mistake: the first code point of three units takes two.
AppendUtf8Late(cp) ==
    IF cp < 128 THEN <<cp>>
    ELSE IF cp <= 2048 THEN <<192 + cp \div 64, 128 + (cp % 64)>>
    ELSE IF cp <= 65535 THEN <<224 + cp \div 4096, 128 + ((cp \div 64) % 64), 128 + (cp % 64)>>
    ELSE <<240 + cp \div 262144, 128 + ((cp \div 4096) % 64), 128 + ((cp \div 64) % 64), 128 + (cp % 64)>>

\* unchecked::append: one code point as UTF-8.
AppendUtf8(cp) ==
    IF cp < 128 THEN <<cp>>
    ELSE IF cp <= 2047 THEN <<192 + cp \div 64, 128 + (cp % 64)>>
    ELSE IF cp <= 65535 THEN <<224 + cp \div 4096, 128 + ((cp \div 64) % 64), 128 + (cp % 64)>>
    ELSE <<240 + cp \div 262144, 128 + ((cp \div 4096) % 64), 128 + ((cp \div 64) % 64), 128 + (cp % 64)>>

Utf8Parts(cps) == [i \in DOMAIN cps |-> AppendUtf8(cps[i])]
Utf8(cps) == Chained(Utf8Parts(cps))

Trail == 128 .. 191

\* What a first unit announces, and its share of the value.
LeadLength(unit) ==
    CASE unit \in 192 .. 223 -> 2
      [] unit \in 224 .. 239 -> 3
      [] unit \in 240 .. 247 -> 4
      [] OTHER -> 1
LeadBits(unit, n) == unit % (CASE n = 2 -> 32 [] n = 3 -> 16 [] n = 4 -> 8 [] n = 1 -> 256)

\* 64 to the power of n - 1: six bits for each unit that follows.
Weight(n) == <<1, 64, 4096, 262144>>[n]

\* The value of a first unit of n and of those that follow it, got in all.
Value(units, i, lead, n, got) ==
    LET Share(k) == IF k < got THEN (units[i + k] % 64) * Weight(n - k) ELSE 0
    IN IF n = 1 \/ got = 1 THEN units[i] ELSE lead * Weight(n) + Share(1) + Share(2) + Share(3)

\* next_code_point: a code point the end cuts short counts with the units it
\* has, and a first unit on its own as itself.
next_code_point(units, i) ==
    LET n == LeadLength(units[i])
        rest == Len(units) - i + 1
        got == IF n <= rest THEN n ELSE rest
    IN [cp |-> Value(units, i, LeadBits(units[i], n), n, got), next |-> i + got]

\* prev_code_point: the code point that ends before place i.
prev_code_point(units, i) ==
    LET n == IF units[i - 1] \notin Trail THEN 1 ELSE IF units[i - 2] \notin Trail THEN 2
             ELSE IF units[i - 3] \notin Trail THEN 3 ELSE 4
        at == i - n
        lead == IF n = 4 /\ units[at] \in Trail THEN units[at] % 64 ELSE LeadBits(units[at], n)
    IN [at |-> at, cp |-> Value(units, at, lead, n, n)]

\* utf8_skip: the length the first unit tells, of at most six units.
required_length_of(unit) ==
    CASE unit \in 192 .. 223 -> 2
      [] unit \in 224 .. 239 -> 3
      [] unit \in 240 .. 247 -> 4
      [] unit \in 248 .. 251 -> 5
      [] unit \in 252 .. 253 -> 6
      [] OTHER -> 1

SwapUnits(units, i, j) == [units EXCEPT ![i] = units[j], ![j] = units[i]]

\* swap_ranges: n units from lhs on and n units from rhs on, one by one.
swap_ranges(units, lhs, rhs, n) ==
    LET exchanged[k \in 0 .. n] ==
            IF k = 0 THEN units ELSE SwapUnits(exchanged[k - 1], lhs + k - 1, rhs + k - 1)
    IN exchanged[n]

\* rotate: the units from middle on come first, up to last.
rotate(units, first, middle, last) ==
    SubSeq(units, 1, first - 1) \o SubSeq(units, middle, last - 1)
      \o SubSeq(units, first, middle - 1) \o SubSeq(units, last, Len(units))

\* swap_code_points: the code points at lhs < rhs change places: swap_ranges
\* over the length of the second, then rotate what lies between.  <<>> when
\* the range to rotate is none.
swap_code_points(units, lhs, rhs) ==
    LET l == required_length_of(units[lhs])
        r == required_length_of(units[rhs])
        swapped == swap_ranges(units, lhs, rhs, r)
        middle == (IF l > r THEN lhs ELSE rhs) + l
    IN IF l = r THEN swapped
       ELSE IF middle < lhs + r THEN <<>>
       ELSE rotate(swapped, lhs + r, middle, rhs + r)
-----------------------------------------------------------------------------
\* Where the code points of cps begin in their units.
Starts(cps) == [i \in 1 .. Len(cps) + 1 |-> Len(Chain(Utf8Parts(cps))[i - 1]) + 1]

\* Text is read as it was written, forwards and backwards, and a text that
\* is cut anywhere is never read past its end.
Utf8Exact(cps) ==
    LET units == Utf8(cps)
        at == Starts(cps)
    IN /\ \A i \in DOMAIN cps : /\ next_code_point(units, at[i]) = [cp |-> cps[i], next |-> at[i + 1]]
                                /\ prev_code_point(units, at[i + 1]) = [cp |-> cps[i], at |-> at[i]]
                                /\ required_length_of(units[at[i]]) = at[i + 1] - at[i]
       /\ \A cut \in DOMAIN units, i \in DOMAIN cps :
              at[i] <= cut => next_code_point(SubSeq(units, 1, cut), at[i]).next <= cut + 1

\* Two code points change places and nothing else moves, whatever their
\* lengths, when the ranges given to swap_ranges do not overlap, which is its
\* precondition.  canonical_reorder breaks it (a mark of two units before one
\* of three): that case is ReorderExact's.
SwapExact(cps) ==
    LET units == Utf8(cps)
        at == Starts(cps)
    IN \A i, j \in DOMAIN cps :
         i < j /\ at[i] + required_length_of(units[at[j]]) <= at[j]
           => swap_code_points(units, at[i], at[j]) = Utf8(SwapUnits(cps, i, j))
=============================================================================
