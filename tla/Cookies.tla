------------------------------ MODULE Cookies ------------------------------
(* The Cookie and Set-Cookie headers: reading a name and a value           *)
(* (http/cookies/cookie.hpp), a jar of request cookies                     *)
(* (request_cookie_jar.hpp) and one response cookie with its attributes    *)
(* (response_cookie.hpp).                                                  *)
EXTENDS Ascii
LOCAL INSTANCE SequencesExt

\* VALID_COOKIE_VALUE and standard_whitespaces are searched as C strings,
\* but end without a zero: the characters that follow them in memory up to
\* the next zero belong to the sets as well.
CONSTANTS PastValues, PastSpaces

Semicolon == 59   Equals == 61   Quote == 34
Whitespaces == {9, 10, 11, 12, 13, Space}
OWS == {9, Space}
VALID_COOKIE_NAME == Alphas \cup Digits \cup {33, 35, 36, 37, 38, 39, 42, 43, 45, 46, 94, 95, 96, 124, 126}
VALID_COOKIE_VALUE == VALID_COOKIE_NAME \cup {40, 41, 47, 58, 60, Equals, 62, 63, 64, 91, 93, 123, 125}
ValueChars == VALID_COOKIE_VALUE \cup PastValues

\* The text before and from the first character outside class, at place i or later.
Prefix(text, i, class) == SubSeq(text, i, SelectInSubSeq(Append(text, -1), i, Len(text) + 1, LAMBDA c : c \notin class) - 1)
After(text, i, class) == SubSeq(text, i + Len(Prefix(text, i, class)), Len(text))
ltrim(text) == After(text, 1, Whitespaces)
rtrim(text) == Reverse(After(Reverse(text), 1, Whitespaces \cup PastSpaces))
Starts(text, c) == text # <<>> /\ Head(text) = c
-----------------------------------------------------------------------------
Pair(name, value, rest) == [valid |-> TRUE, name |-> name, value |-> value, rest |-> rest]
NoPair(rest) == [valid |-> FALSE, name |-> <<>>, value |-> <<>>, rest |-> rest]

\* A name must be followed by something, and may be empty.
parse_SE_value(text) ==
    LET str == ltrim(text)
        name == Prefix(str, 1, VALID_COOKIE_NAME)
        spaced == ltrim(After(str, 1, VALID_COOKIE_NAME))
        str1 == ltrim(IF Starts(spaced, Equals) THEN Tail(spaced) ELSE spaced)
        quoted == Prefix(str1, 2, ValueChars)
    IN IF name = str THEN NoPair(str)
       ELSE IF ~Starts(str1, Quote) THEN Pair(name, Prefix(str1, 1, ValueChars), After(str1, 1, ValueChars))
       ELSE IF Starts(After(str1, 2, ValueChars), Quote) THEN Pair(name, quoted, Tail(After(str1, 2, ValueChars)))
       ELSE NoPair(str1)

\* request_cookie_jar::parse.  Text it cannot get past keeps it going round,
\* a cookie with an empty name and value at a time: ended is FALSE then.
jar_step(s) ==
    LET Store(p, rest) ==
            IF ~p.valid THEN [s EXCEPT !.ok = FALSE, !.ended = TRUE]
            ELSE [s EXCEPT !.jar = Append(@, <<p.name, p.value>>), !.rest = rest, !.ended = rest = <<>>]
        Read(p) == Store(p, IF Starts(p.rest, Semicolon) THEN Tail(p.rest) ELSE p.rest)
    IN IF s.ended THEN s ELSE Read(parse_SE_value(s.rest))
parse_jar(text) ==
    FoldLeft(LAMBDA s, i : jar_step(s), [jar |-> <<>>, rest |-> text, ok |-> TRUE, ended |-> FALSE],
             [i \in 1 .. Len(text) + 1 |-> i])
-----------------------------------------------------------------------------
Expires == <<101, 120, 112, 105, 114, 101, 115>>
MaxAge == <<109, 97, 120, 45, 97, 103, 101>>
SameSite == <<115, 97, 109, 101, 115, 105, 116, 101>>
Version == <<118, 101, 114, 115, 105, 111, 110>>
Flags == {<<115, 101, 99, 117, 114, 101>>, <<104, 116, 116, 112, 111, 110, 108, 121>>}   \* secure, httponly
Texts == {<<99, 111, 109, 109, 101, 110, 116>>, <<100, 111, 109, 97, 105, 110>>,         \* comment, domain
          <<112, 97, 116, 104>>, <<112, 114, 105, 111, 114, 105, 116, 121>>}             \* path, priority
SameSites == {<<115, 116, 114, 105, 99, 116>>, <<108, 97, 120>>, <<110, 111, 110, 101>>} \* strict, lax, none
Known == Flags \cup Texts \cup {Expires, MaxAge, SameSite, Version}

\* fields is the attributes that were set (the values of expires and max-age
\* as they are written), attrs the others, of which the first counts.
SetField(c, k, v) == [c EXCEPT !.fields = [x \in DOMAIN @ \cup {k} |-> IF x = k THEN v ELSE @[x]]]
\* Mistake: the last of several counts.
AddOtherLast(c, key, v) == [c EXCEPT !.attrs = [x \in DOMAIN @ \cup {key} |-> IF x = key THEN v ELSE @[x]]]
AddOther(c, key, v) == IF key \in DOMAIN c.attrs THEN c
                       ELSE [c EXCEPT !.attrs = [x \in DOMAIN @ \cup {key} |-> IF x = key THEN v ELSE @[x]]]

\* The cases of the switch.
attribute(c, key, v) ==
    LET k == ToLower(key)
    IN CASE k \in Flags -> SetField(c, k, <<>>)
         [] k \in Texts -> SetField(c, k, rtrim(v))
         [] k = Expires -> SetField(c, k, v)
         [] k = MaxAge -> [SetField(c, k, v) EXCEPT !.fields = [x \in DOMAIN @ \ {Expires} |-> @[x]]]
         [] k = SameSite /\ ToLower(rtrim(v)) \in SameSites -> SetField(c, k, ToLower(rtrim(v)))
         [] k = Version /\ rtrim(v) \in {<<48>>, <<49>>} -> SetField(c, k, rtrim(v))
         [] k \in {SameSite, Version} -> [AddOther(c, key, rtrim(v)) EXCEPT !.valid = FALSE]
         [] OTHER -> AddOther(c, key, v)

\* One turn of response_cookie::parse_set_cookie.  key and value keep what the
\* turn before left in them; a character that is in no name stops the loop
\* from getting on.  (rtrim shortens value itself.)
cookie_step(s) ==
    LET str == After(s.rest, 1, OWS \cup {Semicolon})
        key == Prefix(str, 1, VALID_COOKIE_NAME \cup {0})
        str1 == After(str, 1, VALID_COOKIE_NAME \cup {0})
        assigned == str1 # <<>> /\ Head(str1) \in OWS \cup {Equals}
        str2 == After(str1, 1, OWS \cup {Equals})
        str3 == After(str2, 1, {Semicolon})
        given == assigned /\ str3 # <<>>
        key1 == IF key = <<>> THEN s.key ELSE key
        value == IF given THEN Prefix(str3, 1, 0 .. 255 \ {Semicolon}) ELSE s.value
        c == [s.cookie EXCEPT !.valid = @ /\ key # <<>> /\ (assigned => given)]
    IN IF s.rest = <<>> THEN s
       ELSE [rest |-> IF given THEN After(str3, 1, 0 .. 255 \ {Semicolon}) ELSE IF assigned THEN str2 ELSE str1,
             key |-> key1,
             value |-> IF ToLower(key1) \in Texts \cup {SameSite, Version} THEN rtrim(value) ELSE value,
             cookie |-> IF key1 = <<>> THEN [c EXCEPT !.valid = FALSE] ELSE attribute(c, key1, value)]

parse_set_cookie(text) ==
    LET Start(p) == [rest |-> IF p.valid THEN After(p.rest, 1, OWS \cup {Semicolon}) ELSE <<>>, key |-> <<>>, value |-> <<>>,
                     cookie |-> [valid |-> p.valid, name |-> p.name, value |-> p.value, fields |-> <<>>, attrs |-> <<>>]]
    IN FoldLeft(LAMBDA s, i : cookie_step(s), Start(parse_SE_value(text)), [i \in 1 .. Len(text) + 1 |-> i])
-----------------------------------------------------------------------------
\* The pieces of a header, each with what stands before and after its first
\* '='; a last empty piece is the end of the one before it.
Halves(piece) ==
    LET at == FindFrom(piece, 1, {Equals})
    IN [name |-> rtrim(ltrim(SubSeq(piece, 1, at - 1))), given |-> at <= Len(piece),
        value |-> ltrim(SubSeq(piece, at + 1, Len(piece)))]
PiecesOf(text) ==
    LET all == SplitOn(text, Semicolon)
    IN IF Len(all) > 1 /\ Last(all) = <<>> THEN Front(all) ELSE all
Unquoted(v) == IF Len(v) > 1 /\ Head(v) = Quote /\ Last(v) = Quote THEN SubSeq(v, 2, Len(v) - 1) ELSE v
IsPair(h) == h.given /\ AllIn(h.name, VALID_COOKIE_NAME) /\ AllIn(Unquoted(h.value), VALID_COOKIE_VALUE)
\* An attribute with a value, or a flag with nothing behind it.
IsAttribute(h, piece) == /\ h.name # <<>> /\ AllIn(h.name, VALID_COOKIE_NAME)
                         /\ IF h.given THEN h.value # <<>> /\ Head(h.value) # Equals
                            ELSE ToLower(h.name) \in Flags /\ Last(piece) \notin OWS
                         /\ ToLower(h.name) = SameSite => ToLower(rtrim(h.value)) \in SameSites
                         /\ ToLower(h.name) # Version

\* A well-formed Cookie header gives the jar its pairs in order, without the
\* quotes (the test RequestCookieJarParser).  A well-formed Set-Cookie header
\* gives its name, its value and its attributes: the last of a known one, the
\* first of another, and expires only if no max-age follows it.  (A ';'
\* behind the last attribute makes the header invalid.)
CookiesExact(text) ==
    LET pieces == PiecesOf(text)
        h == [i \in DOMAIN pieces |-> Halves(pieces[i])]
        others == Tail(h)
        Of(k) == {i \in DOMAIN others : ToLower(others[i].name) = k}
        LastOf(k) == CHOOSE i \in Of(k) : \A j \in Of(k) : j <= i
        Value(i) == LET v == rtrim(others[i].value)
                        k == ToLower(others[i].name)
                    IN IF k \in Flags THEN <<>> ELSE IF k = SameSite THEN ToLower(v) ELSE v
        Jar == [jar |-> [i \in DOMAIN h |-> <<h[i].name, Unquoted(h[i].value)>>], rest |-> <<>>, ok |-> TRUE, ended |-> TRUE]
        Set(c) ==
             /\ c.rest = <<>> /\ c.cookie.valid
             /\ c.cookie.name = h[1].name /\ c.cookie.value = Unquoted(rtrim(h[1].value))
             /\ \A k \in Known \ {Expires} : (k \in DOMAIN c.cookie.fields) = (Of(k) # {})
             /\ (Expires \in DOMAIN c.cookie.fields) = (\E i \in Of(Expires) : \A j \in Of(MaxAge) : j < i)
             /\ \A k \in DOMAIN c.cookie.fields : rtrim(c.cookie.fields[k]) = Value(LastOf(k))
             /\ \A i \in DOMAIN others : ToLower(others[i].name) \notin Known =>
                  rtrim(c.cookie.attrs[others[i].name])
                    = Value(CHOOSE j \in DOMAIN others : /\ others[j].name = others[i].name
                                                         /\ \A m \in 1 .. j - 1 : others[m].name # others[j].name)
    IN /\ (\A i \in DOMAIN h : IsPair(h[i])) => parse_jar(text) = Jar
       /\ (/\ IsPair([h[1] EXCEPT !.value = rtrim(@)])
           /\ \A i \in DOMAIN others : IsAttribute(others[i], pieces[i + 1])
           /\ others # <<>> => Last(text) # Semicolon) => Set(parse_set_cookie(text))
=============================================================================
