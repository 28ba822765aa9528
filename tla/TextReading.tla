---------------------------- MODULE TextReading ----------------------------
(* The readers of texts: a text grows piece by piece, so that every text   *)
(* of up to so many pieces is read.  What they promise of percent-encoding *)
(* and of UTF-8 is stated here; the readers of MCTexts grow their texts in *)
(* the same way.                                                           *)
EXTENDS Percent, UtfText

\* By reader: what a text starts with, the pieces it grows by, and how many.
CONSTANT Readings

Octets == 0 .. 255
CodePoint == {n \in Nat : n < 17 * 65536}

\* A char is an octet, and a code point in one of 17 planes of 65536.
ASSUME TextsAssumption ==
    /\ "percent" \in DOMAIN Readings =>
          Readings["percent"].starts \cup Readings["percent"].pieces \subseteq Seq(Octets)
    /\ "code points" \in DOMAIN Readings =>
          Readings["code points"].starts \cup Readings["code points"].pieces \subseteq Seq(CodePoint)

VARIABLES reader, text, left
text_vars == <<reader, text, left>>

TextInit == reader \in DOMAIN Readings /\ text \in Readings[reader].starts /\ left = Readings[reader].bound

Grow == /\ left > 0 /\ left' = left - 1
        /\ \E p \in Readings[reader].pieces : text' = text \o p
        /\ UNCHANGED reader

TextSpec == TextInit /\ [][Grow]_text_vars
-----------------------------------------------------------------------------
\* decode_uri_component undoes encode_uri_component.
PercentDecodes ==
    reader = "percent" => /\ DecodesEncoded(text, "skip_chars", LEGAL_PATH_CHARS)
                          /\ DecodesEncoded(text, "encode_chars", {PercentChar, SlashChar, Question})

\* Every UTF-8 text is read forwards and backwards as it was written, and
\* two code points that are swapped in place move nothing else.
CodePointsExact == reader = "code points" => Utf8Exact(text) /\ SwapExact(text)
=============================================================================
