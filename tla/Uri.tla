-------------------------------- MODULE Uri --------------------------------
(* uri/: parse_uri with the default options and no base URI, for the two   *)
(* outputs that refer to the text: string views (view) and 32-bit indexes  *)
(* (ix, uri_components.hpp).  A place is a number from 1, a view <<begin,  *)
(* end>> with end one past its last character.  Texts hold no tab, newline *)
(* or NUL, and two characters follow each '%'; warnings are left out.      *)
EXTENDS Ip
LOCAL INSTANCE SequencesExt
LOCAL INSTANCE FiniteSetsExt

Lesser(a, b) == IF a < b THEN a ELSE b
Greater(a, b) == IF a > b THEN a ELSE b

Http == <<104, 116, 116, 112>>   Ws == <<119, 115>>   Ftp == <<102, 116, 112>>
Https == Append(Http, 115)       Wss == Append(Ws, 115)
File == <<102, 105, 108, 101>>   Localhost == <<108, 111, 99, 97, 108, 104, 111, 115, 116>>
known_port(scheme) ==
    LET name == ToLower(scheme)
    IN IF name \in {Http, Ws} THEN 80 ELSE IF name \in {Https, Wss} THEN 443 ELSE IF name = Ftp THEN 21 ELSE 0

ForbiddenHost == {32, 60, 62, 94, 124, Hash, SlashChar, Colon, Question, AtSign, OpenBracket, Backslash, CloseBracket}
-----------------------------------------------------------------------------
Omitted == 1000000
NoIndexes == [scheme_end |-> Omitted, authority_start |-> Omitted, password_start |-> Omitted,
              host_start |-> Omitted, port_start |-> Omitted, authority_end |-> Omitted,
              queries_start |-> Omitted, fragment_start |-> Omitted, uri_end |-> Omitted]
AuthorityParts == {"username", "password", "host", "port"}
Parts == {"scheme", "path", "queries", "fragment"} \cup AuthorityParts
Start == [username |-> "authority_start", password |-> "password_start", host |-> "host_start",
          port |-> "port_start", path |-> "authority_end", queries |-> "queries_start",
          fragment |-> "fragment_start"]
AtLeast(old, end) == IF old = Omitted THEN end ELSE Greater(old, end)

\* Mistake: the authority ends where the part that was set last ends.
SetIndexesLast(ix, part, begin, end) ==
    LET started == IF part = "scheme" THEN [ix EXCEPT !.scheme_end = end] ELSE [ix EXCEPT ![Start[part]] = begin]
        bounded == IF part \in AuthorityParts THEN [started EXCEPT !.authority_end = end] ELSE started
    IN [bounded EXCEPT !.uri_end = AtLeast(@, end)]

SetIndexes(ix, part, begin, end) ==
    LET started == IF part = "scheme" THEN [ix EXCEPT !.scheme_end = end] ELSE [ix EXCEPT ![Start[part]] = begin]
        bounded == IF part \in AuthorityParts THEN [started EXCEPT !.authority_end = AtLeast(@, end)] ELSE started
    IN [bounded EXCEPT !.uri_end = AtLeast(@, end)]

ClearIndexes(ix, part) ==
    LET without == [ix EXCEPT ![Start[part]] = Omitted]
        end == IF ix.queries_start = Omitted /\ ix.fragment_start = Omitted
               THEN Lesser(ix.authority_end, ix.uri_end) ELSE ix.uri_end
    IN CASE part = "path" -> [ix EXCEPT !.uri_end = end, !.authority_end = Lesser(@, end)]
         [] part = "fragment" -> [without EXCEPT !.uri_end = Lesser(ix.fragment_start, @)]
         [] part = "queries" -> without
         [] part \in AuthorityParts ->
              IF \A p \in AuthorityParts : without[Start[p]] = Omitted
              THEN [without EXCEPT !.authority_end = Omitted] ELSE without

\* get_username ... get_fragment; an omitted part is the empty view.
GetIndexes(ix, part) ==
    LET size == IF ix.uri_end = Omitted THEN 1 ELSE ix.uri_end
        begin == IF part = "scheme" THEN IF ix.scheme_end = Omitted THEN Omitted ELSE 1 ELSE ix[Start[part]]
        end == CASE part = "scheme" -> Lesser(ix.scheme_end, size)
                 [] part = "username" -> Lesser(ix.password_start, ix.host_start) - 1
                 [] part = "password" -> Lesser(Lesser(ix.host_start, ix.port_start), ix.authority_end) - 1
                 [] part = "host" -> Lesser(Lesser(ix.port_start - 1, ix.authority_end), size)
                 [] part = "port" -> Lesser(ix.authority_end, size)
                 [] part = "path" -> Lesser(Lesser(ix.queries_start, ix.fragment_start) - 1, size)
                 [] part = "queries" -> Lesser(ix.fragment_start - 1, size)
                 [] part = "fragment" -> ix.uri_end
    IN IF begin = Omitted THEN <<1, 1>> ELSE <<begin, end>>

\* The parsing context; a status that is not in GoesOn is "valid" or an error.
GoesOn == {"unparsed", "valid_authority", "valid_file_host", "valid_port", "valid_authority_end",
           "valid_opaque_path", "valid_path", "valid_queries", "valid_fragment"}
Fresh(text) == [text |-> text, pos |-> 1, status |-> "unparsed", scheme |-> "not_special",
                view |-> [p \in Parts |-> <<1, 1>>], ix |-> NoIndexes]
Slice(text, v) == IF 1 <= v[1] /\ v[1] <= v[2] /\ v[2] <= Len(text) + 1
                  THEN SubSeq(text, v[1], v[2] - 1) ELSE <<-1>>
At(c) == IF c.pos > Len(c.text) THEN -1 ELSE c.text[c.pos]
Go(c, status, n) == [c EXCEPT !.status = status, !.pos = @ + n]
set_value(c, part, begin, end) ==
    [c EXCEPT !.view[part] = <<begin, end>>, !.ix = SetIndexes(@, part, begin, end)]
clear(c, part) == [c EXCEPT !.view[part] = <<1, 1>>, !.ix = ClearIndexes(@, part)]
special(c) == c.scheme # "not_special"

\* Each of chars in turn; FALSE, with what did match consumed, also when the
\* text ends right behind them.
safely_inc_if(c, chars) ==
    LET n == Max({k \in 0 .. Len(chars) : \A i \in 1 .. k : At([c EXCEPT !.pos = @ + i - 1]) = chars[i]})
    IN [c |-> Go(c, c.status, n), ok |-> n = Len(chars) /\ c.pos + n <= Len(c.text)]

\* The place behind what validate_percent_encode passes at a '%': itself and
\* characters until one is no hex digit or two are; more if they are not two.
AfterPercent(text, i, more) ==
    CASE text[i + 1] \notin HexDigits -> i + 2 + more
      [] text[i + 1] \in HexDigits /\ text[i + 2] \notin HexDigits -> i + 3 + more
      [] OTHER -> i + 3

\* Where the loops of the path and query parsers stop.
ScanTo(c, stops, more) ==
    LET end == Len(c.text) + 1
        go[i \in c.pos .. end + 3] ==
            IF i >= end THEN i
            ELSE IF c.text[i] = PercentChar THEN go[AfterPercent(c.text, i, more)]
            ELSE IF c.text[i] \in stops THEN i ELSE go[i + 1]
    IN go[c.pos]
-----------------------------------------------------------------------------
\* The slash that follows "file:" or "file://" is left to the host parser.
file_state(c) == IF At(c) = -1 THEN Go(c, "valid", 0) ELSE Go(c, "valid_file_host", 0)

special_authority_ignore_slashes_state(c) ==
    LET end == Len(c.text) + 1
        next == Min({i \in c.pos .. end : i = end \/ c.text[i] \notin {SlashChar, Backslash}})
    IN Go([c EXCEPT !.pos = next], "valid_authority", 0)

parse_scheme(c) ==
    LET stop == FindFrom(c.text, 1, (0 .. 255) \ (Alphas \cup Digits \cup {PlusChar, Hyphen, Dot}))
        name == ToLower(SubSeq(c.text, 1, stop - 1))
        kind == IF name = File THEN "file" ELSE IF known_port(name) # 0 THEN "special_scheme" ELSE "not_special"
        named == [set_value(c, "scheme", 1, stop) EXCEPT !.pos = stop + 1, !.scheme = kind]
        both == safely_inc_if(named, <<SlashChar, SlashChar>>)
        one == safely_inc_if(named, <<SlashChar>>)
        two == safely_inc_if(one.c, <<SlashChar>>)
    IN CASE c.text = <<>> -> Go(c, "empty_string", 0)
         [] c.text # <<>> /\ c.text[1] \notin Alphas -> Go(c, "missing_scheme_non_relative_url", 0)
         [] c.text # <<>> /\ c.text[1] \in Alphas /\ stop > Len(c.text) -> Go(c, "scheme_ended_unexpectedly", 0)
         [] c.text # <<>> /\ c.text[1] \in Alphas /\ stop <= Len(c.text) ->
              CASE c.text[stop] # Colon -> Go(c, "invalid_scheme_character", 0)
                [] c.text[stop] = Colon /\ kind = "file" -> file_state(both.c)
                [] c.text[stop] = Colon /\ kind = "special_scheme" -> special_authority_ignore_slashes_state(both.c)
                [] c.text[stop] = Colon /\ kind = "not_special" ->
                     IF ~one.ok THEN Go(clear(one.c, "path"), "valid_opaque_path", 0)
                     ELSE Go(two.c, IF two.ok THEN "valid_authority" ELSE "valid_path", 0)

parse_port(c) ==
    LET stop == FindFrom(c.text, c.pos, (0 .. 255) \ Digits)
        digits == SubSeq(c.text, c.pos, stop - 1)
        begin == Min({i \in c.pos .. stop : i >= stop - 1 \/ c.text[i] # Zero})
        value == NumberIn(digits)
        read == Go([c EXCEPT !.pos = stop], "valid_authority_end", 0)
    IN IF At(c) = -1 THEN Go(c, "valid", 0)
       ELSE IF value > 65535 THEN Go(read, "port_out_of_range", 0)
       ELSE IF At(read) \notin {-1, SlashChar, Backslash, Question, Hash} THEN Go(read, "port_invalid", 0)
       ELSE IF value = known_port(Slice(c.text, c.view.scheme)) THEN clear(read, "port")
       ELSE set_value(read, "port", begin, stop)

\* Mistake: the password starts at its colon.
parse_credentials_colon(c, begin, colon) ==
    LET named == set_value(clear(c, "username"), "username", begin, Lesser(colon, c.pos))
    IN IF colon > Len(c.text) THEN named ELSE set_value(clear(named, "password"), "password", colon, c.pos)

parse_credentials(c, begin, colon) ==
    LET named == set_value(clear(c, "username"), "username", begin, Lesser(colon, c.pos))
    IN IF colon > Len(c.text) THEN named ELSE set_value(clear(named, "password"), "password", colon + 1, c.pos)

\* Every address in brackets ends the authority, whatever came before it.
parse_host_ipv6(c) ==
    LET close == FindFrom(c.text, c.pos, {CloseBracket})
        read == [set_value(c, "host", c.pos, close + 1) EXCEPT !.pos = close + 1]
        After(status) ==
         CASE status = "valid" -> Go(c, "ipv6_unclosed", 0)
           [] status \notin Valid -> Go(c, status, 0)
           [] status = "valid_special" ->
              CASE At(read) = -1 -> Go(read, "valid", 0)
                [] At(read) = SlashChar -> Go(read, "valid_path", 0)
                [] At(read) = Colon -> Go(read, "valid_port", 1)
                [] At(read) = Hash -> Go(read, "valid_fragment", 1)
                [] At(read) = Question -> Go(read, "valid_queries", 1)
                [] OTHER -> Go(read, "ipv6_char_after_closing", 0)
    IN After(inet_pton6(SubSeq(c.text, c.pos + 1, Len(c.text)), CloseBracket).status)

\* Read from the last character of the host; the first is never looked at.
is_possible_ends_with_ipv4(text, begin, last) ==
    LET end == IF text[last] = Dot THEN last - 1 ELSE last
        stop == Max({begin} \cup {i \in begin + 1 .. end : text[i] \notin HexDigits})
        hex == text[stop] \in {88, 120} /\ stop > begin /\ text[stop - 1] = Zero
                 /\ (stop - 1 = begin \/ text[stop - 2] = Dot)
        letters == \E i \in stop + 1 .. end : text[i] \notin Digits
    IN /\ ~(text[last] = Dot /\ end = begin)
       /\ end >= begin
       /\ IF stop = begin \/ text[stop] = Dot THEN ~letters ELSE hex

\* The parts between dots, the last of which fills what is left of 32 bits; a
\* part that starts with 0 is octal but may have an 8 or a 9.  At most five
\* parts; numbers above Widest are not told apart, which leaves out the bound
\* of a single part, 2^32.
Widest == 2 ^ 24
ValueIn(digits, base) ==
    FoldLeft(LAMBDA n, d : IF n > Widest THEN n ELSE n * base + hex_digit_safe(d), 0, digits)
\* Mistake: a last part one too large is let through.
parse_host_ipv4_wide(host) ==
    LET all == SplitOn(host, Dot)
        parts == IF Len(all) > 1 /\ Last(all) = <<>> THEN Front(all) ELSE all
        IsHex(p) == Len(p) >= 2 /\ p[1] = Zero /\ p[2] \in {88, 120}
        IsNumber(p) == p # <<>> /\ IF IsHex(p) THEN AllIn(SubSeq(p, 3, Len(p)), HexDigits) ELSE AllIn(p, Digits)
        Value(p) == IF IsHex(p) THEN ValueIn(SubSeq(p, 3, Len(p)), 16)
                    ELSE ValueIn(p, IF p[1] = Zero THEN 8 ELSE 10)
    IN /\ \A i \in DOMAIN parts : IsNumber(parts[i])
       /\ \A i \in 1 .. Len(parts) - 1 : Value(parts[i]) <= 255
       /\ Len(parts) > 1 => Value(Last(parts)) <= 256 ^ (5 - Len(parts))

parse_host_ipv4(host) ==
    LET all == SplitOn(host, Dot)
        parts == IF Len(all) > 1 /\ Last(all) = <<>> THEN Front(all) ELSE all
        IsHex(p) == Len(p) >= 2 /\ p[1] = Zero /\ p[2] \in {88, 120}
        IsNumber(p) == p # <<>> /\ IF IsHex(p) THEN AllIn(SubSeq(p, 3, Len(p)), HexDigits) ELSE AllIn(p, Digits)
        Value(p) == IF IsHex(p) THEN ValueIn(SubSeq(p, 3, Len(p)), 16)
                    ELSE ValueIn(p, IF p[1] = Zero THEN 8 ELSE 10)
    IN /\ \A i \in DOMAIN parts : IsNumber(parts[i])
       /\ \A i \in 1 .. Len(parts) - 1 : Value(parts[i]) <= 255
       /\ Len(parts) > 1 => Value(Last(parts)) < 256 ^ (5 - Len(parts))

\* The end of a host that no port follows; skip is the '?' or '#' behind it.
EndHost(c, host, skip) ==
    IF is_possible_ends_with_ipv4(c.text, host, c.pos - 1) /\ ~parse_host_ipv4(SubSeq(c.text, host, c.pos - 1))
    THEN Go(c, "ip_invalid", 0)
    ELSE Go(set_value(c, "host", host, c.pos), c.status, skip)

\* One pass over user name, password, host and port.  a has the place where
\* the authority begins, where the host begins, the first colon, and whether
\* an invalid port makes an '@' necessary.  A file host has no credentials.
RECURSIVE Pieces(_, _)
Pieces(c, a) ==
    LET end == Len(c.text) + 1
        i == FindFrom(c.text, c.pos, ForbiddenHost \cup {PercentChar})
        file == c.scheme = "file"
        at == [c EXCEPT !.pos = i]
        port == parse_port(Go(at, "valid_port", 1))
        named == set_value(port, "host", a.host, i)
        beyond == clear(parse_credentials(at, a.begin, a.colon), "host")
        next == CASE At(at) = Question -> "valid_queries"
                  [] At(at) = Hash -> "valid_fragment"
                  [] At(at) = Backslash /\ ~special(c) -> at.status
                  [] OTHER -> "valid_path"
    IN CASE i = end /\ ~special(c) /\ i = a.begin -> Go(at, "host_missing", 0)
         [] i = end /\ (special(c) \/ i # a.begin) -> EndHost(Go(at, "valid_path", 0), a.host, 0)
         [] At(at) = OpenBracket -> parse_host_ipv6(at)
         [] At(at) = Colon /\ file -> Pieces(Go(at, c.status, 1), a)
         [] At(at) = Colon /\ ~file ->
              IF port.status = "port_invalid"
              THEN Pieces([clear(port, "port") EXCEPT !.pos = i + 1],
                          [a EXCEPT !.must = TRUE, !.colon = Lesser(@, i)])
              ELSE IF i # a.host THEN named
              ELSE IF special(c) THEN Go(named, "host_missing", 0)
              ELSE IF At(named) = -1 THEN Go(named, "valid_path", 0) ELSE named
         [] At(at) = PercentChar ->
              IF special(c) THEN Go(at, "invalid_domain_code_point", 0) 
              ELSE Pieces([at EXCEPT !.pos = AfterPercent(c.text, i, 0)], a)
         [] At(at) = AtSign ->
              IF file THEN at ELSE Pieces(Go(beyond, c.status, 1), [a EXCEPT !.must = FALSE, !.host = i + 1])
         [] At(at) \in {SlashChar, Backslash, Question, Hash} ->
              IF a.must THEN at
              ELSE IF i = a.host /\ special(c) /\ ~file THEN Go(at, "host_missing", 0)
              ELSE EndHost(Go(at, next, 0), a.host, IF At(at) \in {Question, Hash} THEN 1 ELSE 0)
         [] OTHER -> Go(at, "invalid_code_point", 0)

parse_authority_pieces(c) ==
    Pieces(c, [begin |-> c.pos, host |-> c.pos, colon |-> Len(c.text) + 1, must |-> FALSE])

starts_with_windows_driver_letter(c) ==
    LET rest == SubSeq(c.text, c.pos, Len(c.text))
        first == IF Len(rest) = 2 THEN 1
                 ELSE Min({i \in 1 .. Len(rest) + 1 : i > Len(rest) \/ rest[i] \notin {SlashChar, Backslash}})
    IN /\ first + 1 <= Len(rest)
       /\ rest[first] \in Alphas /\ rest[first + 1] \in {Colon, 124}
       /\ Len(rest) > 2 => /\ first + 2 <= Len(rest)
                           /\ rest[first + 2] \in {SlashChar, Backslash, Question, Hash}

\* An '@' ends the host with the status as it was: parse_uri comes back here
\* for ever.
parse_file_host(c) ==
    LET slash == Max({1} \cup {i \in 1 .. c.pos : c.text[i] \in {SlashChar, Backslash}})
        After(parsed) == IF iequals(Slice(c.text, parsed.view.host), Localhost) THEN clear(parsed, "host") ELSE parsed
    IN IF starts_with_windows_driver_letter(c) THEN Go([c EXCEPT !.pos = slash], "valid_path", 0)
       ELSE After(parse_authority_pieces(c))

parse_authority(c) ==
    IF At(c) = -1 THEN Go(c, "host_missing", 0)
    ELSE IF special(c) /\ At(c) \in {Question, Backslash, SlashChar, Hash} THEN Go(c, "host_missing", 0)
    ELSE parse_authority_pieces(IF At(c) \in {Backslash, SlashChar, Hash} THEN Go(c, "valid", 0) ELSE c)

parse_authority_end(c) ==
    CASE At(c) = -1 -> Go(c, "valid", 0)
      [] At(c) = Question /\ ~special(c) -> clear(Go(c, "valid_queries", 1), "queries")
      [] At(c) = Hash /\ ~special(c) -> clear(Go(c, "valid_fragment", 1), "fragment")
      [] OTHER -> IF special(c) THEN Go(c, "valid_path", 0) ELSE clear(Go(c, "valid_path", 0), "path")

\* The '?' or '#' that ends a part is passed over.
EndPart(c, part, stop) ==
    LET read == set_value(c, part, c.pos, stop)
    IN CASE stop > Len(c.text) -> Go([read EXCEPT !.pos = stop], "valid", 0)
         [] stop <= Len(c.text) ->
              Go([read EXCEPT !.pos = stop], IF c.text[stop] = Hash THEN "valid_fragment" ELSE "valid_queries", 1)

parse_opaque_path(c) ==
    LET stop == ScanTo(c, {Question, Hash}, 1)
        cleared == IF stop > Len(c.text) THEN c
                   ELSE clear(c, IF c.text[stop] = Hash THEN "fragment" ELSE "queries")
    IN EndPart(cleared, "path", stop)

\* Dots and drive letters change a path that is copied, not one referred to.
parse_path(c) == IF special(c) THEN EndPart(c, "path", ScanTo(c, {Question, Hash}, 0)) ELSE parse_opaque_path(c)

parse_queries(c) ==
    LET stop == ScanTo(c, {Hash}, 0)
    IN IF At(c) = -1 THEN Go(c, "valid", 0)
       ELSE EndPart(IF stop > Len(c.text) THEN c ELSE clear(c, "fragment"), "queries", stop)

parse_fragment(c) == IF At(c) = -1 THEN Go(c, "valid", 0) ELSE EndPart(c, "fragment", Len(c.text) + 1)

parse_uri_step(c) ==
    CASE c.status = "unparsed" -> parse_scheme(c)
      [] c.status = "valid_authority" /\ c.scheme # "file" -> parse_authority(c)
      [] c.status = "valid_file_host" \/ (c.status = "valid_authority" /\ c.scheme = "file") -> parse_file_host(c)
      [] c.status = "valid_port" -> parse_port(c)
      [] c.status = "valid_authority_end" -> parse_authority_end(c)
      [] c.status = "valid_opaque_path" -> parse_opaque_path(c)
      [] c.status = "valid_path" -> parse_path(c)
      [] c.status = "valid_queries" -> parse_queries(c)
      [] c.status = "valid_fragment" -> parse_fragment(c)

\* No parse that ends takes more than eight steps.
parse_uri(text) ==
    FoldLeft(LAMBDA c, i : IF c.status \in GoesOn THEN parse_uri_step(c) ELSE c, Fresh(text), [i \in 1 .. 9 |-> i])
-----------------------------------------------------------------------------
\* What RFC 3986 says the parts of a text are, read with the grammar of its
\* appendix B and the last '@' of the authority.
SplitAt(text, i) == [before |-> SubSeq(text, 1, i - 1), behind |-> SubSeq(text, i + 1, Len(text))]
Cut(text, char) == SplitAt(text, FindFrom(text, 1, {char}))
LastOf(text, char, else) == Max({else} \cup {i \in DOMAIN text : text[i] = char})
Reference(text) ==
    LET Parted(scheme, rest, queries, fragment) ==
            LET net == Len(rest) >= 2 /\ SubSeq(rest, 1, 2) = <<SlashChar, SlashChar>>
                slash == IF net THEN FindFrom(rest, 3, {SlashChar}) ELSE 1
                authority == IF net THEN SubSeq(rest, 3, slash - 1) ELSE <<>>
                user == Cut(SubSeq(authority, 1, LastOf(authority, AtSign, 0) - 1), Colon)
                hostport == SubSeq(authority, LastOf(authority, AtSign, 0) + 1, Len(authority))
                port == SplitAt(hostport, FindFrom(hostport, LastOf(hostport, CloseBracket, 1), {Colon}))
                number == NumberIn(port.behind)
            IN [net |-> net, number |-> port.behind, colon |-> port.before # hostport,
                scheme |-> scheme, username |-> user.before, password |-> user.behind, host |-> port.before,
                port |-> IF port.behind = <<>> \/ ~AllIn(port.behind, Digits) \/ Len(port.behind) > 5
                            \/ number = known_port(scheme) THEN <<>> ELSE Decimal(number),
                path |-> SubSeq(rest, slash, Len(rest)), queries |-> queries, fragment |-> fragment]
        Queried(scheme, fragment, rest) == Parted(scheme, rest.before, rest.behind, fragment)
        Begun(scheme, rest) == Queried(scheme, rest.behind, Cut(rest.before, Question))
        Named(rest) == Begun(rest.before, Cut(rest.behind, Hash))
    IN Named(Cut(text, Colon))

Alnums == Alphas \cup Digits
LooksLikeIpv4(host) == is_possible_ends_with_ipv4(host, 1, Len(host))
RegName(host) == AllIn(host, Alnums \cup {Hyphen, Dot}) /\ (host # <<>> => ~LooksLikeIpv4(host))
Literal(host) == /\ Len(host) > 2 /\ host[1] = OpenBracket /\ host[Len(host)] = CloseBracket
                 /\ ~Has(host, Dot) /\ Address6(SubSeq(host, 2, Len(host) - 1)) # <<>>

\* The texts the two properties are about.  Left out, because the parser does
\* something else: hosts it takes for IPv4, numbers above 65535 in a password,
\* '%' in an authority, a path of one '/' without an authority, and file.
WellFormed(text, r) ==
    LET known == known_port(r.scheme) # 0
        userinfo == r.username \o <<Colon>> \o r.password
    IN /\ Has(text, Colon) /\ r.scheme # <<>> /\ r.scheme[1] \in Alphas /\ AllIn(r.scheme, Alnums)
       /\ ToLower(r.scheme) # File
       /\ IF r.net THEN /\ known => r.host # <<>>
                        /\ Literal(r.host) \/ RegName(r.host)
                        /\ AllIn(r.number, Digits) /\ Len(r.number) <= 5 /\ NumberIn(r.number) <= 65535
                        /\ AllIn(userinfo, Alnums \cup {Colon})
                        /\ \A p \in ToSet(SplitOn(r.password, Colon)) : Len(p) < 5
          ELSE ~known /\ (r.path # <<>> => r.path[1] # SlashChar)
       /\ AllIn(r.path, Alnums \cup {Dot, Colon, AtSign, SlashChar, PercentChar})
       /\ AllIn(r.queries, Alnums \cup {Dot, Colon, AtSign, SlashChar, Question, PercentChar})

\* A well-formed text is accepted and each part is the characters the grammar
\* gives it, however the single pass has to guess (a colon may begin a port
\* or a password, an '@' makes the host so far a user name); the default port
\* is left out and leading zeros are trimmed.
SplitExact(text, c, r) ==
    WellFormed(text, r) => /\ c.status = "valid"
                           /\ \A part \in Parts : Slice(text, c.view[part]) = r[part]

\* Parsing ends within a fixed number of steps, for every text but those with
\* an '@' in a file host (see parse_file_host), and the parts of any accepted
\* text, well-formed or not, lie in it one behind the other, with a separator
\* between them except before a path.
PartsInOrder(text, c) ==
    LET order == <<"scheme", "username", "password", "host", "port", "path", "queries", "fragment">>
        shown == SelectSeq(order, LAMBDA p : c.view[p][1] # c.view[p][2])
    IN /\ c.status \in GoesOn => c.scheme = "file" /\ At(c) = AtSign
       /\ c.status = "valid" =>
            /\ \A part \in Parts : Slice(text, c.view[part]) # <<-1>>
            /\ \A i \in 1 .. Len(shown) - 1 :
                 c.view[shown[i]][2] + (IF shown[i + 1] = "path" THEN 0 ELSE 1) <= c.view[shown[i + 1]][1]

UriPartsExact(text) ==
    LET Exact(c) == SplitExact(text, c, Reference(text)) /\ PartsInOrder(text, c) IN Exact(parse_uri(text))

\* The indexes, most of which are ends of other parts, give the parts the
\* views give.  A port that is dropped or trimmed is left out: the host then
\* includes the colon.
IndexesAgree(text) ==
    LET Agree(c, r) ==
            WellFormed(text, r) /\ r.port = r.number /\ (r.colon /\ r.port = <<>> => known_port(r.scheme) # 0) =>
              \A part \in Parts : Slice(text, GetIndexes(c.ix, part)) = Slice(text, c.view[part])
    IN Agree(parse_uri(text), Reference(text))

\* What the URL standard says of a host whose last part is a number: it is an
\* IPv4 address of at most four parts or no host.
EndsInNumber(host) ==
    LET all == SplitOn(host, Dot)
        parts == IF Len(all) > 1 /\ Last(all) = <<>> THEN Front(all) ELSE all
        last == Last(parts)
    IN \/ last # <<>> /\ AllIn(last, Digits)
       \/ Len(last) >= 2 /\ last[1] = Zero /\ to_lower(last[2]) = 120 /\ AllIn(SubSeq(last, 3, Len(last)), HexDigits)
NumberOf(p) ==
    LET hex == Len(p) >= 2 /\ p[1] = Zero /\ to_lower(p[2]) = 120
        octal == ~hex /\ Len(p) >= 2 /\ p[1] = Zero
        digits == SubSeq(p, IF hex THEN 3 ELSE IF octal THEN 2 ELSE 1, Len(p))
        base == IF hex THEN 16 ELSE IF octal THEN 8 ELSE 10
    IN IF p = <<>> \/ ~AllIn(digits, {c \in HexDigits : hex_digit_safe(c) < base}) THEN -1 ELSE ValueIn(digits, base)

\* A host that ends in a number is accepted exactly if it is an IPv4 address
\* in any of its notations (decimal, octal, hexadecimal; a last part for the
\* remaining octets; one dot behind it), every other one as a name.  Left out
\* are names of which all but the first character are digits, an 8 or a 9 in
\* an octal part, two dots at the end and more than four parts.
HostNumbersExact(host) ==
    LET all == SplitOn(host, Dot)
        parts == IF Len(all) > 1 /\ Last(all) = <<>> THEN Front(all) ELSE all
        n == Len(parts)
        numbers == [i \in DOMAIN parts |-> NumberOf(parts[i])]
        ipv4 == /\ n <= 4
                /\ \A i \in 1 .. n : numbers[i] >= 0 /\ (i < n => numbers[i] <= 255)
                /\ n > 1 => numbers[n] < 256 ^ (5 - n)
        Octal(p) == Len(p) >= 2 /\ p[1] = Zero /\ AllIn(p, Digits) /\ (Has(p, 56) \/ Has(p, 57))
        name == n = 1 /\ ~EndsInNumber(host) /\ AllIn(Tail(parts[1]), Digits)
    IN \/ host = <<>> \/ n > 4 \/ Last(parts) = <<>> \/ name \/ \E i \in 1 .. n : Octal(parts[i])
       \/ (parse_uri(Http \o <<Colon, SlashChar, SlashChar>> \o host).status = "valid")
            = (EndsInNumber(host) => ipv4)
============================================================================
