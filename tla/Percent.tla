------------------------------ MODULE Percent ------------------------------
(* Percent encoding of URI components (uri/encoding.hpp) and the character *)
(* sets of RFC 3986 it is used with (uri/details/constants.hpp).           *)
EXTENDS Ascii

UNRESERVED == Alphas \cup Digits \cup {Hyphen, Dot, 95, 126}
SUB_DELIMS == {33, 36, 38, 39, 40, 41, 42, PlusChar, 44, 59, 61}
SCHEME_NOT_FIRST == Alphas \cup Digits \cup {PlusChar, Hyphen, Dot}
REG_NAME_NOT_PCT_ENCODED == UNRESERVED \cup SUB_DELIMS
USER_INFO_NOT_PCT_ENCODED == REG_NAME_NOT_PCT_ENCODED \cup {Colon}
PCHAR_NOT_PCT_ENCODED == USER_INFO_NOT_PCT_ENCODED \cup {AtSign}
LEGAL_PATH_CHARS == PCHAR_NOT_PCT_ENCODED \cup {SlashChar}
QUERY_OR_FRAGMENT_NOT_PCT_ENCODED == LEGAL_PATH_CHARS \cup {Question}

to_percent_hex(c) == <<PercentChar, UpperHexChar(c \div 16), UpperHexChar(c % 16)>>

\* The characters of chars (policy skip_chars), or all others (encode_chars),
\* stay as they are.
Stays(c, policy, chars) == (c \in chars) = (policy = "skip_chars")

\* Mistake: a percent sign stays.
encode_uri_component_percent(text, policy, chars) ==
    Chained([i \in DOMAIN text |-> IF text[i] = PercentChar \/ Stays(text[i], policy, chars) THEN <<text[i]>>
                                   ELSE to_percent_hex(text[i])])

encode_uri_component(text, policy, chars) ==
    Chained([i \in DOMAIN text |-> IF Stays(text[i], policy, chars) THEN <<text[i]>> ELSE to_percent_hex(text[i])])

\* One turn of the loop.  The digits are shifted and joined before they are
\* compared with ~0, so a bad first digit before a good one passes: its -1
\* gives the character 240 plus the second digit (a char of 8 bits).
decode_step(s, chars, policy, text) ==
    LET c == text[s.pos]
        h == hex_digit_safe(text[s.pos + 1])
        l == hex_digit_safe(text[s.pos + 2])
    IN IF c # PercentChar
         THEN IF Stays(c, policy, chars) THEN [s EXCEPT !.pos = @ + 1, !.out = Append(@, c)]
              ELSE [s EXCEPT !.ok = FALSE]
       ELSE IF s.pos > Len(text) - 2 THEN [s EXCEPT !.ok = FALSE]
       ELSE IF l = -1 \/ 16 * h + l = -1 THEN [s EXCEPT !.ok = FALSE]
       ELSE [s EXCEPT !.pos = @ + 3, !.out = Append(@, (16 * h + l) % 256)]

decode_turn(s, chars, policy, text) ==
    IF s.ok /\ s.pos <= Len(text) THEN decode_step(s, chars, policy, text) ELSE s

\* The loop takes at most one turn for each character.
decode_uri_component(text, policy, chars) ==
    LET after[n \in 0 .. Len(text)] ==
          IF n = 0 THEN [pos |-> 1, out |-> <<>>, ok |-> TRUE] ELSE decode_turn(after[n - 1], chars, policy, text)
    IN after[Len(text)]

\* What the object's getters return: the decoded text, or nothing.
Decoded(text, chars) == LET s == decode_uri_component(text, "skip_chars", chars)
                        IN IF s.ok THEN s.out ELSE <<>>
-----------------------------------------------------------------------------
\* Reading back what encode_uri_component wrote gives the text, whatever
\* characters stay as they are: provided the percent sign does not, and the
\* reader lets the characters through that the writer did.
DecodesEncoded(text, policy, chars) ==
    ~Stays(PercentChar, policy, chars) =>
        decode_uri_component(encode_uri_component(text, policy, chars), policy, chars)
            = [pos |-> Len(encode_uri_component(text, policy, chars)) + 1, out |-> text, ok |-> TRUE]
=============================================================================
