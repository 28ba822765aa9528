------------------------------- MODULE Ascii -------------------------------
(* Texts are sequences of code units, as in the code; this module has the  *)
(* character classes and the conversions the parsers share                 *)
(* (strings/hex.hpp, strings/to_case.hpp, strings/charset.hpp).            *)
EXTENDS Integers, Sequences
LOCAL INSTANCE SequencesExt

Colon == 58   Dot == 46   SlashChar == 47   PercentChar == 37   Backslash == 92
AtSign == 64  Hash == 35  Question == 63    OpenBracket == 91   CloseBracket == 93
Hyphen == 45  Space == 32 PlusChar == 43    Zero == 48

Digits == 48 .. 57
Uppers == 65 .. 90
Lowers == 97 .. 122
Alphas == Uppers \cup Lowers
HexDigits == Digits \cup 65 .. 70 \cup 97 .. 102

\* -1 for a character that is no hex digit.
hex_digit_safe(c) ==
    CASE c \in Digits -> c - 48
      [] c \in 97 .. 102 -> c - 87
      [] c \in 65 .. 70 -> c - 55
      [] OTHER -> -1

HexChar(d) == IF d < 10 THEN 48 + d ELSE 87 + d
UpperHexChar(d) == IF d < 10 THEN 48 + d ELSE 55 + d

to_lower(c) == IF c \in Uppers THEN c + 32 ELSE c
ToLower(text) == [i \in DOMAIN text |-> to_lower(text[i])]
iequals(a, b) == ToLower(a) = ToLower(b)

\* A number written without leading zeros (fmt, append_to).
Decimal(n) ==
    LET digits[k \in Nat] == IF k < 10 THEN <<48 + k>> ELSE Append(digits[k \div 10], 48 + (k % 10))
    IN digits[n]

\* What a run of digits says.
NumberIn(text) == FoldLeft(LAMBDA n, c : 10 * n + c - 48, 0, text)

\* The parts one after the other, as a loop that appends them makes it: after n
\* turns, and in the end.
Chain(parts) ==
    LET upto[n \in 0 .. Len(parts)] == IF n = 0 THEN <<>> ELSE upto[n - 1] \o parts[n] IN upto
Chained(parts) == Chain(parts)[Len(parts)]

AllIn(text, class) == \A i \in DOMAIN text : text[i] \in class
Has(text, c) == \E i \in DOMAIN text : text[i] = c

\* The first place of a character of class from place i on, or one past the
\* end (std::find_if, find_first_of).
FindFrom(text, i, class) ==
    LET found == {j \in i .. Len(text) : text[j] \in class}
    IN IF found = {} THEN Len(text) + 1 ELSE CHOOSE j \in found : \A k \in found : j <= k

\* The text between the places of separator c.
SplitOn(text, c) ==
    FoldLeft(LAMBDA s, x : IF x = c THEN Append(s, <<>>) ELSE [s EXCEPT ![Len(s)] = Append(@, x)],
             <<<<>>>>, text)

Join(texts, c) ==
    FoldLeft(LAMBDA s, i : (IF i = 1 THEN s ELSE Append(s, c)) \o texts[i], <<>>,
             [i \in DOMAIN texts |-> i])
============================================================================
