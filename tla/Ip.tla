--------------------------------- MODULE Ip ---------------------------------
(* Addresses and their texts: inet_pton.hpp, inet_ntop.hpp and the parse   *)
(* and string members of ipv4.hpp and ipv6.hpp.  An address is a sequence  *)
(* of octets.                                                              *)
EXTENDS Ascii
LOCAL INSTANCE SequencesExt
LOCAL INSTANCE FiniteSetsExt

Valid == {"valid", "valid_special"}

parse_prefix(text) ==
    IF Len(text) \in 1 .. 3 /\ AllIn(text, Digits) /\ (Len(text) > 1 => text[1] # Zero)
    THEN NumberIn(text) ELSE -1

\* too_many_octets is never returned: a fourth dot is bad_ending.
inet_pton4(src, special) ==
    LET octets(s) == IF s.saw_digit THEN Len(s.out) ELSE Len(s.out) - 1
        Digit(s, c) ==
            LET new == 10 * Last(s.out) + c - 48
            IN IF s.saw_digit /\ Last(s.out) = 0 THEN [s EXCEPT !.status = "invalid_leading_zero"]
               ELSE IF new > 255 THEN [s EXCEPT !.status = "invalid_octet_range"]
               ELSE [s EXCEPT !.out[Len(s.out)] = new, !.saw_digit = TRUE]
        Step(s, c) ==
            CASE s.status # "valid" -> s
              [] s.status = "valid" /\ c \in Digits -> Digit(s, c)
              [] s.status = "valid" /\ c = Dot /\ s.saw_digit ->
                   IF octets(s) = 4 THEN [s EXCEPT !.status = "bad_ending"]
                   ELSE [s EXCEPT !.out = Append(@, 0), !.saw_digit = FALSE]
              [] OTHER -> [s EXCEPT !.status = IF octets(s) = 4 /\ c = special
                                               THEN "valid_special" ELSE "invalid_character"]
        end == FoldLeft(Step, [status |-> "valid", out |-> <<0>>, saw_digit |-> FALSE], src)
    IN IF end.status = "valid" /\ octets(end) # 4 THEN [end EXCEPT !.status = "too_little_octets"] ELSE end

\* The IPv4 tail of an IPv6 address is read to the end or to '/', whatever
\* character the address itself ends at.
MappedTail(s, text) ==
    LET v4 == inet_pton4(text, SlashChar)
    IN CASE v4.status \in Valid -> [s EXCEPT !.out = @ \o v4.out, !.hex_seen = 0, !.going = FALSE,
                                      !.cur = IF v4.status = "valid" THEN Dot ELSE SlashChar]
         [] v4.status \in {"invalid_octet_range", "invalid_character"} -> [s EXCEPT !.status = v4.status]
         [] OTHER -> [s EXCEPT !.status = "bad_ending"]

\* Mistake: a group may have five digits.
Pton6DigitLong(s, d) ==
    IF s.hex_seen = 5 THEN [s EXCEPT !.status = "invalid_octet_range"]
    ELSE [s EXCEPT !.val = (16 * @ + d) % 65536, !.hex_seen = @ + 1]

Pton6Digit(s, d) ==
    IF s.hex_seen = 4 THEN [s EXCEPT !.status = "invalid_octet_range"]
    ELSE [s EXCEPT !.val = 16 * @ + d, !.hex_seen = @ + 1]

TwoOctets(s) == [s EXCEPT !.out = @ \o <<s.val \div 256, s.val % 256>>, !.hex_seen = 0, !.val = 0]

Pton6Colon(s, i, end) ==
    IF s.hex_seen = 0
    THEN IF s.colon # -1 THEN [s EXCEPT !.status = "invalid_colon_usage"] ELSE [s EXCEPT !.colon = Len(s.out)]
    ELSE IF i = end THEN [s EXCEPT !.status = "bad_ending"]
    ELSE IF Len(s.out) + 2 > 16 THEN [s EXCEPT !.status = "invalid_octet_range"]
    ELSE TwoOctets(s)

\* "::" stands for the zeros that are missing.
Pton6End(s, special) ==
    LET grouped == IF s.hex_seen > 0 THEN TwoOctets(s) ELSE s
        n == Len(grouped.out)
        full == IF s.colon = -1 THEN grouped.out
                ELSE SubSeq(grouped.out, 1, s.colon) \o [i \in 1 .. 16 - n |-> 0]
                       \o SubSeq(grouped.out, s.colon + 1, n)
    IN CASE s.status # "valid" -> s
         [] s.status = "valid" /\ n > 16 -> [s EXCEPT !.status = "invalid_octet_range"]
         [] s.status = "valid" /\ n <= 16 /\ (Len(full) # 16 \/ (s.colon # -1 /\ n = 16)) ->
              [s EXCEPT !.status = "bad_ending"]
         [] OTHER -> [s EXCEPT !.status = IF s.cur = special THEN "valid_special" ELSE "valid", !.out = full]

inet_pton6(src, special) ==
    LET first == IF src # <<>> /\ src[1] = Colon THEN 2 ELSE 1
        begin == [status |-> IF src = <<>> THEN "bad_ending"
                             ELSE IF first = 2 /\ (Len(src) = 1 \/ src[2] # Colon) THEN "invalid_colon_usage"
                             ELSE "valid",
                  out |-> <<>>, colon |-> -1, hex_seen |-> 0, val |-> 0, cur |-> 0,
                  token |-> first, going |-> TRUE]
        Char(s, i, c) ==
            CASE c \in HexDigits -> Pton6Digit(s, hex_digit_safe(c))
              [] c = Colon -> [Pton6Colon(s, i, Len(src)) EXCEPT !.token = i + 1]
              [] c = Dot /\ Len(s.out) + 4 <= 16 /\ (s.out # <<>> \/ s.colon # -1) ->
                   MappedTail(s, SubSeq(src, s.token, Len(src)))
              [] OTHER -> IF c = special THEN [s EXCEPT !.going = FALSE]
                          ELSE [s EXCEPT !.status = "invalid_character"]
        Step(s, i) == IF s.status = "valid" /\ s.going /\ i >= first
                      THEN Char([s EXCEPT !.cur = src[i]], i, src[i]) ELSE s
    IN Pton6End(FoldLeftDomain(Step, begin, src), special)

\* The overloads with a prefix; NoPrefix is prefix_status(valid).
NoPrefix == 255
WithPrefix(res, src, max) ==
    LET prefix == parse_prefix(SubSeq(src, FindFrom(src, 1, {SlashChar}) + 1, Len(src)))
    IN IF res.status # "valid_special" THEN [status |-> res.status, out |-> res.out, prefix |-> NoPrefix]
       ELSE IF prefix = -1 \/ prefix > max THEN [status |-> "invalid_prefix", out |-> res.out, prefix |-> NoPrefix]
       ELSE [status |-> res.status, out |-> res.out, prefix |-> prefix]
Ipv4Of(text) == WithPrefix(inet_pton4(text, SlashChar), text, 32)
Ipv6Of(text) == WithPrefix(inet_pton6(text, SlashChar), text, 128)

inet_ntop4(octets) == Join([i \in 1 .. 4 |-> Decimal(octets[i])], Dot)

Hex(n) == LET digits[k \in Nat] == IF k < 16 THEN <<HexChar(k)>> ELSE Append(digits[k \div 16], HexChar(k % 16))
          IN digits[n]

GroupsOf(octets) == [i \in 1 .. 8 |-> 256 * octets[2 * i - 1] + octets[2 * i]]

\* The longest run of zero groups, the last of equals: <<first, length>>.
LongestZeros(groups) ==
    LET Runs == {r \in (1 .. 8) \X (1 .. 8) : /\ r[1] + r[2] <= 9
                                              /\ \A i \in r[1] .. r[1] + r[2] - 1 : groups[i] = 0}
        longest == Max({r[2] : r \in Runs})
    IN IF Runs = {} THEN <<9, 0>> ELSE <<Max({r[1] : r \in {x \in Runs : x[2] = longest}}), longest>>

\* Mistake: a run at the start takes one colon.
inet_ntop6_one_colon(octets) ==
    LET groups == GroupsOf(octets)
        run == LongestZeros(groups)
        before == Join([i \in 1 .. run[1] - 1 |-> Hex(groups[i])], Colon)
        after == Join([i \in 1 .. 9 - run[1] - run[2] |-> Hex(groups[run[1] + run[2] + i - 1])], Colon)
    IN IF run[2] = 0 THEN before ELSE IF run[1] = 1 THEN <<Colon>> \o after ELSE before \o <<Colon, Colon>> \o after

inet_ntop6(octets) ==
    LET groups == GroupsOf(octets)
        run == LongestZeros(groups)
        before == Join([i \in 1 .. run[1] - 1 |-> Hex(groups[i])], Colon)
        after == Join([i \in 1 .. 9 - run[1] - run[2] |-> Hex(groups[run[1] + run[2] + i - 1])], Colon)
    IN IF run[2] = 0 THEN before
       ELSE IF run = <<1, 5>> /\ groups[6] = 65535
       THEN <<Colon, Colon, 102, 102, 102, 102, Colon>> \o inet_ntop4(SubSeq(octets, 13, 16))
       ELSE before \o <<Colon, Colon>> \o after
-----------------------------------------------------------------------------
\* What RFC 4291 and RFC 6943 call an address text, without reading it
\* character by character.
CanonicalOctet(t) == Len(t) \in 1 .. 3 /\ AllIn(t, Digits) /\ NumberIn(t) <= 255 /\ Decimal(NumberIn(t)) = t

Is4(text) == LET parts == SplitOn(text, Dot) IN Len(parts) = 4 /\ \A i \in 1 .. 4 : CanonicalOctet(parts[i])
Octets4(text) == [i \in 1 .. 4 |-> NumberIn(SplitOn(text, Dot)[i])]

\* The octets of a list of groups, the last of which may be an IPv4 address.
ListOctets(parts, tail) ==
    LET Group(t) == LET n == FoldLeft(LAMBDA k, c : 16 * k + hex_digit_safe(c), 0, t) IN <<n \div 256, n % 256>>
    IN FoldLeftDomain(LAMBDA s, i : s \o IF tail /\ i = Len(parts) /\ Has(parts[i], Dot)
                                         THEN Octets4(parts[i]) ELSE Group(parts[i]), <<>>, parts)
IsList(parts, tail) ==
    \A i \in DOMAIN parts : \/ Len(parts[i]) \in 1 .. 4 /\ AllIn(parts[i], HexDigits)
                            \/ tail /\ i = Len(parts) /\ Is4(parts[i])
Fields(t) == IF t = <<>> THEN <<>> ELSE SplitOn(t, Colon)

\* The octets of an IPv6 text, or <<>>.
Address6(text) ==
    LET gaps == {i \in 1 .. Len(text) - 1 : text[i] = Colon /\ text[i + 1] = Colon}
        gap == CHOOSE i \in gaps : \A j \in gaps : i <= j
        left == Fields(SubSeq(text, 1, gap - 1))
        right == Fields(SubSeq(text, gap + 2, Len(text)))
        l == ListOctets(left, FALSE)
        r == ListOctets(right, TRUE)
    IN IF gaps = {}
       THEN IF IsList(Fields(text), Len(Fields(text)) > 1) /\ Len(ListOctets(Fields(text), TRUE)) = 16
            THEN ListOctets(Fields(text), TRUE) ELSE <<>>
       ELSE IF IsList(left, FALSE) /\ IsList(right, TRUE) /\ Len(l) + Len(r) < 16
            THEN l \o [i \in 1 .. 16 - Len(l) - Len(r) |-> 0] \o r ELSE <<>>

\* What precedes and what follows the first '/'.
AddressPart(text) == SubSeq(text, 1, FindFrom(text, 1, {SlashChar}) - 1)
PrefixPart(text) == SubSeq(text, FindFrom(text, 1, {SlashChar}) + 1, Len(text))
HasPrefix(text) == Has(text, SlashChar)
PrefixUpTo(text, max) == HasPrefix(text) => CanonicalOctet(PrefixPart(text)) /\ NumberIn(PrefixPart(text)) <= max
PrefixOf(text) == IF HasPrefix(text) THEN NumberIn(PrefixPart(text)) ELSE NoPrefix

\* The IPv4 parser accepts exactly the dotted decimal texts, alone or with a
\* prefix of at most 32, and reads them.
Pton4Exact(text) ==
    LET v4 == Ipv4Of(text)
    IN /\ (v4.status \in Valid) = (Is4(AddressPart(text)) /\ PrefixUpTo(text, 32))
       /\ v4.status \in Valid => v4.out = Octets4(AddressPart(text)) /\ v4.prefix = PrefixOf(text)

\* The IPv6 parser accepts exactly the texts of RFC 4291, however "::", short
\* groups, an IPv4 tail and a prefix are combined, and reads the octets they
\* mean.  Left out are addresses that end in one colon before a prefix: the
\* parser looks for that only at the end of the text and accepts "::1:/64".
Pton6Exact(text) ==
    LET v6 == Ipv6Of(text)
        address == AddressPart(text)
        n == Len(address)
    IN \/ HasPrefix(text) /\ n > 1 /\ address[n] = Colon /\ address[n - 1] # Colon
       \/ /\ (v6.status \in Valid) = (Address6(address) # <<>> /\ PrefixUpTo(text, 128))
          /\ v6.status \in Valid => v6.out = Address6(address) /\ v6.prefix = PrefixOf(text)

\* An address is read back from the text it is printed as.
PrintedIsRead(octets) ==
    LET v6 == Ipv6Of(inet_ntop6(octets)) IN v6.status = "valid" /\ v6.out = octets
============================================================================
