----------------------------- MODULE UriString -----------------------------
(* uri_string (uri/uri_string.hpp): a URI as one string, whose parts are   *)
(* looked up when they are asked for.  data is the string and cache the    *)
(* seven offsets found so far; every parse function starts from those an   *)
(* earlier call left, and every setter cuts the string at them and forgets *)
(* them all.  asked is what the parts should be: those the URI was put     *)
(* together from, changed by the setters that keep their promise.          *)
(*                                                                         *)
(* Offsets are size_t: a negative n stands for 2^64 + n.                   *)
EXTENDS Percent
LOCAL INSTANCE SequencesExt
LOCAL INSTANCE FiniteSetsExt
I == INSTANCE Ip

CONSTANTS Uris,      \* the parts of the URIs objects are made from
          Values,    \* [setter -> values it is called with]
          MaxSets    \* setters called on one object

ASSUME UriStringAssumption == MaxSets \in Nat

VARIABLES data, cache, asked, sets
uri_vars == <<data, cache, asked, sets>>

Npos == -1
Less(a, b) == IF (a < 0) = (b < 0) THEN a < b ELSE b < 0
Least(a, b) == IF Less(a, b) THEN a ELSE b
Slashes == <<SlashChar, SlashChar>>
Urn == <<117, 114, 110>>
Unparsed == [scheme_end |-> Npos, authority_start |-> Npos, user_info_end |-> Npos, port_start |-> Npos,
             authority_end |-> Npos, query_start |-> Npos, fragment_start |-> Npos]

\* substr, find_first_of, find_last_of: offsets from 0.
Substr(d, start, n) ==
    IF n = 0 \/ Less(Len(d), start) THEN <<>>
    ELSE SubSeq(d, start + 1, IF Less(Len(d) - start, n) THEN Len(d) ELSE start + n)
From(d, start) == Substr(d, start, Npos)
FirstOf(t, class, start) ==
    LET i == FindFrom(t, start + 1, class) IN IF i > Len(t) THEN Npos ELSE i - 1
LastOf(t, class) == Max({i - 1 : i \in {j \in DOMAIN t : t[j] \in class}} \cup {Npos})
Begins(t, c) == t # <<>> /\ Head(t) = c
Ends(t, c) == t # <<>> /\ Last(t) = c
-----------------------------------------------------------------------------
\* The parse functions: from the text and the offsets known so far to the
\* offsets known after the call.  With and At say what is done with the
\* offsets that the calls inside leave.
parse_scheme(d, c) ==
    LET colon == FirstOf(d, {Colon}, 0)
        named == /\ colon > 0 /\ d[1] \in Alphas
                 /\ colon > 1 => d[2] \in SCHEME_NOT_FIRST
        Known(scheme_end, start) == [c EXCEPT !.scheme_end = scheme_end, !.authority_start = start]
    IN IF c.scheme_end # Npos THEN c
       ELSE IF Substr(d, 0, 2) = Slashes THEN Known(Len(d), 2)
       ELSE IF ~named THEN Known(Len(d), Len(d))
       ELSE Known(colon, IF Substr(d, colon + 1, 2) = Slashes THEN colon + 3 ELSE Len(d))

parse_fragment(d, c) ==
    LET at == FirstOf(d, {Hash}, 0)
    IN IF c.fragment_start # Npos THEN c ELSE [c EXCEPT !.fragment_start = IF at = Npos THEN Len(d) ELSE at]

parse_query(d, c) ==
    LET With(c1) ==
            LET at == FirstOf(Substr(d, 0, c1.fragment_start), {Question}, 0)
            IN [c1 EXCEPT !.query_start = IF at = Npos THEN Len(d) ELSE at]
    IN IF c.query_start # Npos THEN c ELSE With(parse_fragment(d, c))

\* The section is cut at what is already known of the end of the authority.
parse_user_info(d, c) ==
    LET With(c1) ==
            LET start == c1.authority_start
                next == Least(Least(c1.authority_end, c1.query_start), Least(c1.fragment_start, Len(d)))
                section == Substr(d, start, next - start)
                first == FirstOf(section, {Colon, OpenBracket, AtSign}, 0)
                at == FirstOf(section, {AtSign}, first)
            IN [c1 EXCEPT !.user_info_end =
                  IF start = Len(d) \/ first = Npos THEN Len(d)
                  ELSE IF first = 0 THEN IF section[1] = OpenBracket THEN Len(d) ELSE 0
                  ELSE IF section[first + 1] = OpenBracket THEN first
                  ELSE IF at = Npos THEN Len(d) ELSE at + start]
    IN IF c.user_info_end # Npos THEN c ELSE With(parse_scheme(d, c))

\* The search for the path starts at the first '@' of the rest of the text.
parse_path(d, c) ==
    LET With(c1) ==
            LET is_urn == c1.scheme_end # Len(d) /\ iequals(Substr(d, 0, c1.scheme_end), Urn)
                at == FirstOf(d, {AtSign}, c1.authority_start)
                start == IF c1.authority_start = Len(d) THEN c1.scheme_end
                         ELSE IF at # Npos THEN at ELSE c1.authority_start
                found == FirstOf(Substr(d, start, c1.query_start - start), {IF is_urn THEN Colon ELSE SlashChar}, 0)
            IN [c1 EXCEPT !.authority_end =
                  IF c1.authority_start = Len(d) /\ c1.scheme_end = Len(d) THEN 0
                  ELSE IF found = Npos THEN Len(d)
                  ELSE found + start + (IF is_urn THEN 1 ELSE 0)]
    IN IF c.authority_end # Npos THEN c ELSE With(parse_query(d, parse_scheme(d, c)))

parse_port(d, c) ==
    LET Search(c2) ==
            LET start == IF c2.user_info_end # Len(d) THEN c2.user_info_end ELSE c2.authority_start
                host_port == Substr(d, start, c2.authority_end - start)
                last == LastOf(host_port, {Colon, CloseBracket})
                view == Substr(d, last + start + 1, c2.authority_end - (last + start + 1))
            IN [c2 EXCEPT !.port_start =
                  IF last = Npos \/ Ends(host_port, CloseBracket) \/ ~AllIn(view, Digits) THEN Len(d)
                  ELSE last + start]
        With(c1) == IF c1.authority_start = Len(d) THEN [c1 EXCEPT !.port_start = Len(d)]
                    ELSE Search(parse_path(d, c1))
    IN IF c.port_start # Npos THEN c ELSE With(parse_user_info(d, c))

parse_host(d, c) == parse_path(d, parse_port(d, parse_user_info(d, c)))
-----------------------------------------------------------------------------
\* The getters, on the offsets their parse calls leave.
scheme(d, cc) == LET At(c) == IF c.scheme_end = Len(d) THEN <<>> ELSE Substr(d, 0, c.scheme_end)
                 IN At(parse_scheme(d, cc))
user_info_raw(d, cc) ==
    LET At(c) == IF c.user_info_end = Len(d) \/ c.authority_start = Len(d) THEN <<>>
                 ELSE Substr(d, c.authority_start, c.user_info_end - c.authority_start)
    IN At(parse_user_info(d, cc))

HostFrom(d, c, start) ==
    LET ends == SelectSeq(<<c.port_start, c.authority_end, c.query_start, c.fragment_start>>, LAMBDA e : e # Len(d))
    IN IF c.authority_start = Len(d) \/ (ends = <<>> /\ start = Len(d)) THEN <<>>
       ELSE Substr(d, start, IF ends = <<>> THEN Len(d) - 1 ELSE Head(ends) - start)

\* Mistake: the '@' belongs to the host.
HostKeepingAt(d, c) == HostFrom(d, c, IF c.user_info_end = Len(d) THEN c.authority_start ELSE c.user_info_end)

HostAt(d, c) == HostFrom(d, c, IF c.user_info_end = Len(d) THEN c.authority_start
                               ELSE IF d[c.user_info_end + 1] = AtSign THEN c.user_info_end + 1
                               ELSE c.user_info_end)
host_raw(d, cc) == HostAt(d, parse_host(d, cc))

\* A port at the end of the text is given without its last digit.
port(d, cc) ==
    LET At(c) == IF c.port_start = Len(d) THEN <<>>
                 ELSE Substr(d, c.port_start + 1,
                             (IF c.authority_end = Len(d) THEN Len(d) - 1 ELSE c.authority_end) - (c.port_start + 1))
    IN At(parse_port(d, cc))
path_raw(d, cc) ==
    LET At(c) == IF c.authority_end = Len(d) THEN <<>>
                 ELSE Substr(d, c.authority_end, Least(c.query_start, c.fragment_start) - c.authority_end)
    IN At(parse_path(d, cc))
queries_raw(d, cc) ==
    LET At(c) == IF c.query_start = Len(d) THEN <<>> ELSE Substr(d, c.query_start + 1, c.fragment_start - c.query_start - 1)
    IN At(parse_query(d, cc))
fragment(d, cc) == From(d, parse_fragment(d, cc).fragment_start + 1)

is_ip(host) == \/ I!inet_pton4(host, SlashChar).status = "valid"
               \/ Begins(host, OpenBracket) /\ Ends(host, CloseBracket)
\* The names before the first empty one; none in a host that is an address.
Labels(host) ==
    LET all == SplitOn(host, Dot)
        empty == {i \in DOMAIN all : all[i] = <<>>}
    IN IF is_ip(host) THEN <<>> ELSE SubSeq(all, 1, Min(empty \cup {Len(all) + 1}) - 1)
top_level_domain(host) == IF host = <<>> \/ is_ip(host) THEN <<>> ELSE From(host, LastOf(host, {Dot}) + 1)

\* find_last_of('.', last_dot - 1): a leading dot makes it npos, so the dot
\* itself is found again.
DotBefore(host, last_dot) == IF last_dot = 0 THEN LastOf(host, {Dot}) ELSE LastOf(Substr(host, 0, last_dot), {Dot})
second_level_domain(host) ==
    LET dot == LastOf(host, {Dot})
        start == DotBefore(host, dot) + 1
    IN IF host = <<>> \/ is_ip(host) \/ dot = Npos THEN <<>> ELSE Substr(host, start, dot - start)
subdomains(host) ==
    LET dot == LastOf(host, {Dot})
    IN IF host = <<>> \/ is_ip(host) \/ dot = Npos \/ DotBefore(host, dot) = Npos THEN <<>>
       ELSE Substr(host, 0, DotBefore(host, dot))
-----------------------------------------------------------------------------
\* basic_path::remove_dot_segments (uri/path.hpp).  Each turn drops a segment
\* or goes on; after dropping the first two segments it returns, whatever
\* follows.
dot_step(s, leading, no_empty) ==
    LET this == s.segs[s.pos]
        before == s.segs[s.pos - 1]
        Erase(first) == [s EXCEPT !.segs = SubSeq(@, 1, first - 1) \o SubSeq(@, s.pos + 1, Len(@))]
    IN IF s.done \/ s.pos > Len(s.segs) THEN s
       ELSE IF (no_empty /\ this = <<>>) \/ this = <<Dot>> THEN Erase(s.pos)
       ELSE IF this = <<Dot, Dot>> /\ (IF s.pos = 1 THEN leading ELSE before = <<>>) THEN Erase(s.pos)
       ELSE IF this = <<Dot, Dot>> /\ s.pos > 1 /\ before # <<Dot, Dot>>
         THEN [Erase(s.pos - 1) EXCEPT !.done = s.pos = 2, !.pos = s.pos - 2]
       ELSE [s EXCEPT !.pos = @ + 1]

remove_dot_segments(segs, leading, no_empty) ==
    FoldLeft(LAMBDA s, i : dot_step(s, leading, no_empty), [segs |-> segs, pos |-> 1, done |-> FALSE],
             [i \in 1 .. 2 * Len(segs) |-> i]).segs
-----------------------------------------------------------------------------
\* What the setters leave: the text and the offsets.  The setters of the
\* host and of names are given the offsets that parse_host leaves.
\* Mistake: the offsets in front of the change are kept.
replace_value_keeping(d, c, start, len, new) ==
    IF start = Npos \/ len = Npos \/ (len = 0 /\ new = <<>>) THEN [d |-> d, c |-> c]
    ELSE [d |-> Substr(d, 0, start) \o new \o From(d, Least(Len(d), start + len)),
          c |-> [part \in DOMAIN c |-> IF c[part] < start THEN c[part] ELSE Npos]]

replace_value(d, c, start, len, new) ==
    IF start = Npos \/ len = Npos \/ (len = 0 /\ new = <<>>) THEN [d |-> d, c |-> c]
    ELSE [d |-> Substr(d, 0, start) \o new \o From(d, Least(Len(d), start + len)), c |-> Unparsed]

set_scheme(d, cc, v) ==
    LET At(c) ==
            IF c.scheme_end # Len(d)
              THEN replace_value(d, c, 0, c.scheme_end + (IF v = <<>> /\ Len(d) > c.scheme_end + 1 THEN 1 ELSE 0), v)
            ELSE replace_value(d, c, 0, 0, (IF v = <<>> THEN <<>> ELSE Append(v, Colon))
                                             \o (IF c.authority_start # Len(d) /\ Substr(d, 0, 2) # Slashes
                                                 THEN Slashes ELSE <<>>))
    IN At(parse_scheme(d, cc))

\* With no user info: from the authority to the end of the text.  With one:
\* in front of it (the condition is the opposite of its comment).
set_user_info(d, cc, v) ==
    LET At(c, new) ==
            IF c.user_info_end = Len(d) \/ c.authority_start = Len(d)
              THEN replace_value(d, c, c.authority_start, c.user_info_end - c.authority_start, new)
            ELSE replace_value(d, c, c.authority_start, 0, Append(new, AtSign))
    IN At(parse_user_info(d, cc), encode_uri_component(v, "skip_chars", USER_INFO_NOT_PCT_ENCODED))

EncodedHost(v) ==
    LET new == encode_uri_component(v, "skip_chars", REG_NAME_NOT_PCT_ENCODED)
    IN IF I!inet_pton6(v, SlashChar).status = "valid" /\ ~(Begins(v, OpenBracket) /\ Ends(v, CloseBracket))
       THEN <<OpenBracket>> \o new \o <<CloseBracket>> ELSE new

\* From the '@' if there is user info; up to the last character of a text
\* that ends with the host.
set_host(d, c, v) ==
    LET At(new) ==
            LET no_scheme == c.user_info_end = Len(d) /\ c.scheme_end = Len(d)
                start == IF c.user_info_end # Len(d) THEN c.user_info_end
                         ELSE IF c.scheme_end = Len(d) THEN 0 ELSE c.authority_start
                finish == IF c.port_start # Len(d) THEN c.port_start
                          ELSE IF c.authority_end # Len(d) THEN c.authority_end ELSE Len(d) - 1
            IN IF c.authority_start = Len(d)
                 THEN IF new = <<>> THEN [d |-> d, c |-> c]
                      ELSE replace_value(d, c, IF c.scheme_end = Len(d) THEN 0 ELSE c.scheme_end, 0, Slashes \o new)
               ELSE replace_value(d, c, start, finish - start,
                                  (IF no_scheme /\ v # <<>> /\ Substr(new, 0, 2) # Slashes THEN Slashes ELSE <<>>) \o new)
    IN At(EncodedHost(v))

\* A port that is there is replaced over as many characters as the offset of
\* the path says.
set_port(d, cc, v) ==
    LET new == <<Colon>> \o v
        Insert(h) ==
            IF h.authority_end # Len(d) THEN replace_value(d, h, h.authority_end, 0, new)
            ELSE IF h.user_info_end # Len(d) THEN replace_value(d, h, h.user_info_end + 1, h.user_info_end + 1, new)
            ELSE IF h.authority_start # Len(d) THEN replace_value(d, h, h.authority_start + 1, 0, new)
            ELSE replace_value(d, h, IF h.scheme_end = Len(d) THEN 0 ELSE h.scheme_end + 1, 0, Slashes \o new)
        At(c) ==
            IF c.port_start = Len(d) THEN Insert(parse_host(d, c))
            ELSE replace_value(d, c, c.port_start + 1,
                               IF c.authority_end = Len(d) THEN c.authority_end - 1 ELSE c.authority_end, v)
    IN At(parse_port(d, cc))

\* Up to the query, and without one over the fragment too.
set_path_raw(d, cc, v) ==
    LET At(c) ==
            replace_value(d, c, c.authority_end, c.query_start - c.authority_end,
                          (IF Begins(v, SlashChar) THEN <<>> ELSE <<SlashChar>>) \o v)
    IN At(parse_path(d, cc))
set_path(d, cc, v) == set_path_raw(d, cc, encode_uri_component(v, "skip_chars", LEGAL_PATH_CHARS))

normalize(d, cc) ==
    LET Write(c, left) == IF left = <<>> THEN [d |-> d, c |-> c] ELSE set_path_raw(d, c, Join(left, SlashChar))
        At(c, path) == IF path = <<>> THEN [d |-> d, c |-> c]
                       ELSE Write(c, remove_dot_segments(SplitOn(path, SlashChar), Begins(path, SlashChar), FALSE))
    IN At(parse_path(d, cc), path_raw(d, cc))

\* The two branches are exchanged too: a query is put before the fragment or
\* into the path if there is one, and at the end without a '?' if not.
set_queries(d, cc, v) ==
    LET Insert(h, new) ==
            IF h.authority_end # Len(d)
              THEN replace_value(d, h, h.authority_end + 1, 0,
                                 (IF d[h.authority_end + 1] = SlashChar THEN <<>> ELSE <<SlashChar>>) \o new)
            ELSE IF h.authority_start # Len(d) THEN replace_value(d, h, h.authority_start, 0, <<SlashChar>> \o new)
            ELSE IF h.scheme_end # Len(d) THEN replace_value(d, h, h.scheme_end, 0, <<SlashChar>> \o new)
            ELSE replace_value(d, h, 0, 0, Slashes \o <<SlashChar>> \o new)
        At(c, new) ==
            IF c.query_start = Len(d) THEN replace_value(d, c, c.query_start, c.fragment_start - c.query_start, new)
            ELSE IF c.fragment_start # Len(d) THEN replace_value(d, c, c.fragment_start, 0, new)
            ELSE Insert(parse_path(d, c), new)
    IN At(parse_query(d, cc), (IF Begins(v, Question) THEN <<Question>> ELSE <<>>)
                                \o encode_uri_component(v, "skip_chars", QUERY_OR_FRAGMENT_NOT_PCT_ENCODED))

\* At the offset of the fragment if some call has found it, else nothing.
set_fragment(d, c, v) ==
    LET new == (IF v = <<>> \/ Begins(v, Hash) THEN <<>> ELSE <<Hash>>)
                 \o encode_uri_component(v, "skip_chars", QUERY_OR_FRAGMENT_NOT_PCT_ENCODED)
    IN replace_value(d, c, c.fragment_start, Len(d) - c.fragment_start, new)

set_top_level_domain(d, c, v) ==
    LET Of(host) ==
            IF host = <<>> THEN set_host(d, c, v)
            ELSE IF is_ip(host) \/ I!inet_pton4(v, SlashChar).status = "valid" \/ I!inet_pton6(v, SlashChar).status = "valid"
              THEN [d |-> d, c |-> c]
            ELSE set_host(d, c, Substr(host, 0, LastOf(host, {Dot}) + 1) \o v)
    IN Of(HostAt(d, c))

set_second_level_domain(d, c, v) ==
    LET Of(host, dot) ==
            IF host = <<>> \/ is_ip(host) \/ (dot = Npos /\ v = <<>>) THEN [d |-> d, c |-> c]
            ELSE set_host(d, c, IF dot = Npos THEN v \o <<Dot>> \o host
                                ELSE IF v = <<>> THEN From(host, dot + 1)
                                ELSE Substr(host, 0, DotBefore(host, dot) + 1) \o v \o From(host, dot))
    IN Of(HostAt(d, c), LastOf(HostAt(d, c), {Dot}))

set_subdomains(d, c, v) ==
    LET Of(host, before) ==
            IF host = <<>> \/ is_ip(host) \/ ~Has(host, Dot) \/ before = Npos THEN [d |-> d, c |-> c]
            ELSE set_host(d, c, v \o From(host, before + (IF v = <<>> THEN 1 ELSE 0)))
        Before(host) == DotBefore(host, LastOf(host, {Dot}))
    IN Of(HostAt(d, c), Before(HostAt(d, c)))
-----------------------------------------------------------------------------
Assembled(u) ==
    (IF u.scheme = <<>> THEN <<>> ELSE Append(u.scheme, Colon))
      \o (IF ~u.net THEN <<>>
          ELSE Slashes \o (IF u.user_info = <<>> THEN <<>> ELSE Append(u.user_info, AtSign))
                 \o u.host \o (IF u.port = <<>> THEN <<>> ELSE <<Colon>> \o u.port))
      \o u.path
      \o (IF u.queries = <<>> THEN <<>> ELSE <<Question>> \o u.queries)
      \o (IF u.fragment = <<>> THEN <<>> ELSE <<Hash>> \o u.fragment)

UriInit == \E u \in Uris : /\ asked = u @@ [promised |-> TRUE]
                           /\ data = Assembled(u) /\ cache = Unparsed /\ sets = 0

\* A getter: its parse calls are all it does to the object.
Look == /\ cache' \in {parse_scheme(data, cache), parse_user_info(data, cache), parse_path(data, cache),
                       parse_port(data, cache), parse_fragment(data, cache), parse_query(data, cache),
                       parse_host(data, cache)}
        /\ UNCHANGED <<data, asked, sets>>

\* URIs whose parts cannot be mistaken for one another: an '@', ':' or '['
\* behind the authority is taken for the user info's or the port's, and what
\* an authority without a path ends in for a part of it.
Unmistakable(u) ==
    IF u.net THEN /\ Begins(u.path, SlashChar)
                  /\ \A part \in {u.path, u.queries, u.fragment} : \A c \in {AtSign, Colon, OpenBracket} : ~Has(part, c)
    ELSE u.scheme \in {<<>>, Urn} \/ Begins(u.path, SlashChar)

\* A setter.  promised names the cases in which it does what it is for; an
\* object it has done something else to is not written to again.
Put(r, promised, part, value) ==
    /\ asked.promised /\ sets < MaxSets /\ sets' = sets + 1
    /\ data' = r.d /\ cache' = r.c
    /\ asked' = IF promised /\ Unmistakable(asked) THEN [asked EXCEPT ![part] = value]
                 ELSE [asked EXCEPT !.promised = FALSE]

PathCutOff == asked.net /\ (asked.queries # <<>> \/ asked.fragment = <<>>)
HostCutOff == asked.net /\ asked.user_info = <<>> /\ asked.host # <<>>
Named == Labels(asked.host)

SetScheme(v) == AllIn(v, Alphas) /\ Put(set_scheme(data, cache, v), asked.net, "scheme", v)
SetUserInfo(v) == Put(set_user_info(data, cache, v), FALSE, "user_info", v)
SetHost(v) == Put(set_host(data, parse_host(data, cache), v), HostCutOff /\ v # <<>>, "host", EncodedHost(v))
SetPort(v) == /\ v # <<>> /\ AllIn(v, Digits)
              /\ Put(set_port(data, cache, v), asked.net /\ asked.host # <<>> /\ asked.port = <<>>,
                     "port", v)
SetPath(v) == Put(set_path(data, cache, v), PathCutOff, "path",
                  (IF Begins(v, SlashChar) THEN <<>> ELSE <<SlashChar>>)
                     \o encode_uri_component(v, "skip_chars", LEGAL_PATH_CHARS))
SetQueries(v) == /\ AllIn(v, QUERY_OR_FRAGMENT_NOT_PCT_ENCODED)
                 /\ Put(set_queries(data, cache, v), FALSE, "queries", v)
SetFragment(v) == Put(set_fragment(data, cache, v), cache.fragment_start # Npos, "fragment",
                      encode_uri_component(v, "skip_chars", QUERY_OR_FRAGMENT_NOT_PCT_ENCODED))

\* The setters of names set the host that has the other names and the new one.
PutNames(r, names) == Put(r, HostCutOff /\ <<>> \notin ToSet(SplitOn(asked.host, Dot)) /\ Join(names, Dot) # <<>>,
                          "host", Join(names, Dot))
SetTopLevelDomain(v) ==
    PutNames(set_top_level_domain(data, parse_host(data, cache), v), IF Named = <<>> THEN <<asked.host>> ELSE Append(Front(Named), v))
SetSecondLevelDomain(v) ==
    PutNames(set_second_level_domain(data, parse_host(data, cache), v),
             CASE Named = <<>> -> <<asked.host>>
               [] v = <<>> /\ Named # <<>> -> <<Last(Named)>>
               [] OTHER -> SubSeq(Named, 1, Len(Named) - 2) \o <<v, Last(Named)>>)
SetSubdomains(v) ==
    PutNames(set_subdomains(data, parse_host(data, cache), v),
             IF Len(Named) < 3 THEN <<asked.host>>
             ELSE (IF v = <<>> THEN <<>> ELSE <<v>>) \o SubSeq(Named, Len(Named) - 1, Len(Named)))

\* What RFC 3986 leaves of the segments of an absolute path, except that an
\* empty segment is not taken back.
Resolved(path) ==
    LET Step(kept, seg) == IF seg = <<Dot>> \/ (seg = <<Dot, Dot>> /\ Last(kept) = <<>>) THEN kept
                           ELSE IF seg = <<Dot, Dot>> THEN Front(kept) ELSE Append(kept, seg)
        kept == FoldLeft(Step, <<<<>>>>, Tail(SplitOn(path, SlashChar)))
    IN IF kept = <<<<>>>> THEN <<SlashChar>> ELSE Join(kept, SlashChar)
Normalize == Put(normalize(data, cache), PathCutOff, "path", Resolved(asked.path))

UriNext ==
    \/ Look
    \/ \E v \in Values.scheme : SetScheme(v)
    \/ \E v \in Values.user_info : SetUserInfo(v)
    \/ \E v \in Values.host : SetHost(v)
    \/ \E v \in Values.port : SetPort(v)
    \/ \E v \in Values.path : SetPath(v)
    \/ \E v \in Values.queries : SetQueries(v)
    \/ \E v \in Values.fragment : SetFragment(v)
    \/ \E v \in Values.label : SetTopLevelDomain(v) \/ SetSecondLevelDomain(v) \/ SetSubdomains(v)
    \/ Normalize

UriSpec == UriInit /\ [][UriNext]_uri_vars
-----------------------------------------------------------------------------
\* Every getter gives the part the URI was put together with or was last set
\* to, whichever getters and setters were called before it, in any order.
PartsAreRead ==
    asked.promised /\ Unmistakable(asked) =>
        /\ scheme(data, cache) = asked.scheme
        /\ user_info_raw(data, cache) = asked.user_info
        /\ host_raw(data, cache) = asked.host
        /\ port(data, cache) = asked.port
        /\ path_raw(data, cache) = asked.path
        /\ queries_raw(data, cache) = asked.queries
        /\ fragment(data, cache) = asked.fragment

\* The text alone decides these answers: asking twice changes nothing, and
\* neither does what was asked in between, whatever the text is.
SteadyAnswers ==
    /\ scheme(data, cache) = scheme(data, Unparsed)
    /\ path_raw(data, cache) = path_raw(data, Unparsed)
    /\ queries_raw(data, cache) = queries_raw(data, Unparsed)
    /\ fragment(data, cache) = fragment(data, Unparsed)

\* The authority is cut at what is known of its end when it is asked for, so
\* that these answers are steady only if no part can be taken for another: an
\* object then answers as one made from its text now.
AnswersDoNotAge ==
    /\ SteadyAnswers
    /\ Unmistakable(asked) =>
        /\ user_info_raw(data, cache) = user_info_raw(data, Unparsed)
        /\ host_raw(data, cache) = host_raw(data, Unparsed)
        /\ port(data, cache) = port(data, Unparsed)
=============================================================================
