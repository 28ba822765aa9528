---------------------------- MODULE TextsProofs ----------------------------
(***************************************************************************)
(* Theorems about texts, for every text: a URI object's offsets and the    *)
(* answers that do not depend on what was asked before; decoding undoes    *)
(* percent-encoding; UTF-8 is read as it was written, forwards and         *)
(* backwards, and two code points change places in it.                     *)
(***************************************************************************)
EXTENDS UriString, TextReading, ResponseProofs

\* The offsets a text decides, whatever is asked first.
SchemeEnd(d) == parse_scheme(d, Unparsed).scheme_end
AuthorityStart(d) == parse_scheme(d, Unparsed).authority_start
FragmentStart(d) == parse_fragment(d, Unparsed).fragment_start
QueryStart(d) == parse_query(d, Unparsed).query_start
AuthorityEnd(d) == parse_path(d, Unparsed).authority_end

\* The offsets c found in d so far are those, and with each come those its
\* parse function asked for first.
Settled(d, c) ==
    /\ DOMAIN c = DOMAIN Unparsed
    /\ c.scheme_end \in {Npos, SchemeEnd(d)}
    /\ c.authority_start \in {Npos, AuthorityStart(d)}
    /\ c.fragment_start \in {Npos, FragmentStart(d)}
    /\ c.query_start \in {Npos, QueryStart(d)}
    /\ c.authority_end \in {Npos, AuthorityEnd(d)}
    /\ c.scheme_end # Npos => c.authority_start = AuthorityStart(d)
    /\ c.query_start # Npos => c.fragment_start = FragmentStart(d)
    /\ c.authority_end # Npos =>
          /\ c.scheme_end = SchemeEnd(d) /\ c.authority_start = AuthorityStart(d)
          /\ c.query_start = QueryStart(d) /\ c.fragment_start = FragmentStart(d)

\* No offset c knew is another in r.
Lasting(c, r) ==
    /\ DOMAIN r = DOMAIN c
    /\ \A part \in DOMAIN c : c[part] # Npos => r[part] = c[part]

\* The seven offsets an object keeps.
LEMMA NamesOfOffsets ==
    DOMAIN Unparsed = {"scheme_end", "authority_start", "user_info_end", "port_start", "authority_end",
                       "query_start", "fragment_start"}
  BY DEF Unparsed

\* parse_scheme, when it has to look.
LEMMA SchemeFound ==
    ASSUME NEW d, NEW c, c.scheme_end = Npos
    PROVE  parse_scheme(d, c) = [c EXCEPT !.scheme_end = SchemeEnd(d), !.authority_start = AuthorityStart(d)]
<1> DEFINE colon == FirstOf(d, {Colon}, 0)
           named == /\ colon > 0 /\ d[1] \in Alphas
                    /\ colon > 1 => d[2] \in SCHEME_NOT_FIRST
           second == Substr(d, colon + 1, 2) = Slashes
           first == Substr(d, 0, 2) = Slashes
           e == IF first \/ ~named THEN Len(d) ELSE colon
           a == IF first THEN 2 ELSE IF ~named THEN Len(d) ELSE IF second THEN colon + 3 ELSE Len(d)
<1>1. ASSUME NEW k, k.scheme_end = Npos
      PROVE  parse_scheme(d, k) = [k EXCEPT !.scheme_end = e, !.authority_start = a]
  BY <1>1, Zenon DEF parse_scheme
<1>2. Unparsed.scheme_end = Npos
  BY DEF Unparsed
<1> HIDE DEF e, a
<1>3. parse_scheme(d, Unparsed) = [Unparsed EXCEPT !.scheme_end = e, !.authority_start = a]
  BY <1>1, <1>2
<1>4. SchemeEnd(d) = e /\ AuthorityStart(d) = a
  BY <1>3 DEF SchemeEnd, AuthorityStart, Unparsed
<1>5. QED
  BY <1>1, <1>4

\* parse_fragment, when it has to look.
LEMMA FragmentFound ==
    ASSUME NEW d, NEW c, c.fragment_start = Npos
    PROVE  parse_fragment(d, c) = [c EXCEPT !.fragment_start = FragmentStart(d)]
<1> DEFINE at == FirstOf(d, {Hash}, 0)
           f == IF at = Npos THEN Len(d) ELSE at
<1>1. ASSUME NEW k, k.fragment_start = Npos
      PROVE  parse_fragment(d, k) = [k EXCEPT !.fragment_start = f]
  BY <1>1, Zenon DEF parse_fragment
<1>2. Unparsed.fragment_start = Npos
  BY DEF Unparsed
<1> HIDE DEF f
<1>3. parse_fragment(d, Unparsed) = [Unparsed EXCEPT !.fragment_start = f]
  BY <1>1, <1>2
<1>4. FragmentStart(d) = f
  BY <1>3 DEF FragmentStart, Unparsed
<1>5. QED
  BY <1>1, <1>4

\* After parse_scheme its two offsets are those of the text.
LEMMA SchemeSettles ==
    ASSUME NEW d, NEW c, Settled(d, c)
    PROVE  /\ Settled(d, parse_scheme(d, c)) /\ Lasting(c, parse_scheme(d, c))
           /\ parse_scheme(d, c).scheme_end = SchemeEnd(d)
           /\ parse_scheme(d, c).authority_start = AuthorityStart(d)
           /\ \A part \in DOMAIN c \ {"scheme_end", "authority_start"} : parse_scheme(d, c)[part] = c[part]
<1>1. CASE c.scheme_end # Npos
  <2>1. parse_scheme(d, c) = c
    BY <1>1 DEF parse_scheme
  <2>2. QED
    BY <1>1, <2>1 DEF Settled, Lasting
<1>2. CASE c.scheme_end = Npos
  <2> DEFINE r == parse_scheme(d, c)
  <2>1. r = [c EXCEPT !.scheme_end = SchemeEnd(d), !.authority_start = AuthorityStart(d)]
    BY <1>2, SchemeFound
  <2>2. DOMAIN c = {"scheme_end", "authority_start", "user_info_end", "port_start", "authority_end",
                    "query_start", "fragment_start"}
    BY NamesOfOffsets DEF Settled
  <2>3. /\ DOMAIN r = DOMAIN c
        /\ r.scheme_end = SchemeEnd(d) /\ r.authority_start = AuthorityStart(d)
        /\ \A part \in DOMAIN c \ {"scheme_end", "authority_start"} : r[part] = c[part]
    BY <2>1, <2>2
  <2> HIDE DEF r
  <2>4. r.fragment_start = c.fragment_start /\ r.query_start = c.query_start /\ r.authority_end = c.authority_end
    BY <2>2, <2>3
  <2>5. Settled(d, r)
    BY <2>3, <2>4 DEF Settled
  <2>6. Lasting(c, r)
    BY <1>2, <2>2, <2>3 DEF Settled, Lasting
  <2>7. QED
    BY <2>3, <2>5, <2>6 DEF r
<1>3. QED
  BY <1>1, <1>2

\* After parse_fragment the fragment's offset is that of the text.
LEMMA FragmentSettles ==
    ASSUME NEW d, NEW c, Settled(d, c)
    PROVE  /\ Settled(d, parse_fragment(d, c)) /\ Lasting(c, parse_fragment(d, c))
           /\ parse_fragment(d, c).fragment_start = FragmentStart(d)
           /\ \A part \in DOMAIN c \ {"fragment_start"} : parse_fragment(d, c)[part] = c[part]
<1>1. CASE c.fragment_start # Npos
  <2>1. parse_fragment(d, c) = c
    BY <1>1 DEF parse_fragment
  <2>2. QED
    BY <1>1, <2>1 DEF Settled, Lasting
<1>2. CASE c.fragment_start = Npos
  <2> DEFINE r == parse_fragment(d, c)
  <2>1. r = [c EXCEPT !.fragment_start = FragmentStart(d)]
    BY <1>2, FragmentFound
  <2>2. DOMAIN c = {"scheme_end", "authority_start", "user_info_end", "port_start", "authority_end",
                    "query_start", "fragment_start"}
    BY NamesOfOffsets DEF Settled
  <2>3. /\ DOMAIN r = DOMAIN c
        /\ r.fragment_start = FragmentStart(d)
        /\ \A part \in DOMAIN c \ {"fragment_start"} : r[part] = c[part]
    BY <2>1, <2>2
  <2> HIDE DEF r
  <2>4. /\ r.scheme_end = c.scheme_end /\ r.authority_start = c.authority_start
        /\ r.query_start = c.query_start /\ r.authority_end = c.authority_end
    BY <2>2, <2>3
  <2>5. Settled(d, r)
    BY <2>3, <2>4 DEF Settled
  <2>6. Lasting(c, r)
    BY <1>2, <2>2, <2>3 DEF Settled, Lasting
  <2>7. QED
    BY <2>3, <2>5, <2>6 DEF r
<1>3. QED
  BY <1>1, <1>2

\* A new object knows no offset.
LEMMA UnparsedSettled == ASSUME NEW d PROVE Settled(d, Unparsed)
  BY DEF Settled, Unparsed

\* parse_query looks for the fragment first: the query ends where it begins.
LEMMA QuerySettles ==
    ASSUME NEW d, NEW c, Settled(d, c)
    PROVE  /\ Settled(d, parse_query(d, c)) /\ Lasting(c, parse_query(d, c))
           /\ parse_query(d, c).query_start = QueryStart(d)
           /\ parse_query(d, c).fragment_start = FragmentStart(d)
           /\ \A part \in DOMAIN c \ {"query_start", "fragment_start"} : parse_query(d, c)[part] = c[part]
<1> DEFINE at == FirstOf(Substr(d, 0, FragmentStart(d)), {Question}, 0)
           q == IF at = Npos THEN Len(d) ELSE at
<1>1. ASSUME NEW k, Settled(d, k), k.query_start = Npos
      PROVE  parse_query(d, k) = [parse_fragment(d, k) EXCEPT !.query_start = q]
  <2>1. parse_fragment(d, k).fragment_start = FragmentStart(d)
    BY <1>1, FragmentSettles
  <2>2. QED
    BY <1>1, <2>1, Zenon DEF parse_query
<1> HIDE DEF q
<1>2. QueryStart(d) = q
  <2>1. Settled(d, Unparsed) /\ Unparsed.query_start = Npos
    BY UnparsedSettled DEF Unparsed
  <2>2. parse_query(d, Unparsed) = [parse_fragment(d, Unparsed) EXCEPT !.query_start = q]
    BY <1>1, <2>1
  <2>3. "query_start" \in DOMAIN parse_fragment(d, Unparsed)
    BY <2>1, FragmentSettles, NamesOfOffsets DEF Lasting
  <2>4. QED
    BY <2>2, <2>3 DEF QueryStart
<1>3. CASE c.query_start # Npos
  <2>1. parse_query(d, c) = c
    BY <1>3 DEF parse_query
  <2>2. QED
    BY <1>3, <2>1 DEF Settled, Lasting
<1>4. CASE c.query_start = Npos
  <2> DEFINE f == parse_fragment(d, c)
             r == parse_query(d, c)
  <2>1. r = [f EXCEPT !.query_start = QueryStart(d)]
    BY <1>1, <1>2, <1>4
  <2>2. /\ Settled(d, f) /\ Lasting(c, f) /\ f.fragment_start = FragmentStart(d)
        /\ \A part \in DOMAIN c \ {"fragment_start"} : f[part] = c[part]
    BY FragmentSettles
  <2> HIDE DEF f, r
  <2>3. /\ DOMAIN f = DOMAIN c
        /\ DOMAIN c = {"scheme_end", "authority_start", "user_info_end", "port_start", "authority_end",
                       "query_start", "fragment_start"}
    BY <2>2, NamesOfOffsets DEF Settled
  <2>4. /\ DOMAIN r = DOMAIN c
        /\ r.query_start = QueryStart(d)
        /\ \A part \in DOMAIN c \ {"query_start"} : r[part] = f[part]
    BY <2>1, <2>3
  <2>5. /\ r.scheme_end = f.scheme_end /\ r.authority_start = f.authority_start
        /\ r.fragment_start = FragmentStart(d) /\ r.authority_end = f.authority_end
    BY <2>2, <2>3, <2>4
  <2>6. Settled(d, r)
    BY <2>2, <2>3, <2>4, <2>5 DEF Settled
  <2>7. Lasting(c, r)
    BY <1>4, <2>2, <2>3, <2>4 DEF Lasting
  <2>8. QED
    BY <2>2, <2>3, <2>4, <2>5, <2>6, <2>7 DEF r
<1>5. QED
  BY <1>3, <1>4

\* Lasting is transitive.
LEMMA LastsLonger ==
    ASSUME NEW a, NEW b, NEW c, Lasting(a, b), Lasting(b, c)
    PROVE  Lasting(a, c)
  BY DEF Lasting

\* parse_path looks for the scheme and the query first.
LEMMA PathSettles ==
    ASSUME NEW d, NEW c, Settled(d, c)
    PROVE  /\ Settled(d, parse_path(d, c)) /\ Lasting(c, parse_path(d, c))
           /\ parse_path(d, c).authority_end = AuthorityEnd(d)
           /\ parse_path(d, c).query_start = QueryStart(d)
           /\ parse_path(d, c).fragment_start = FragmentStart(d)
<1> DEFINE is_urn == SchemeEnd(d) # Len(d) /\ iequals(Substr(d, 0, SchemeEnd(d)), Urn)
           at == FirstOf(d, {AtSign}, AuthorityStart(d))
           start == IF AuthorityStart(d) = Len(d) THEN SchemeEnd(d)
                    ELSE IF at # Npos THEN at ELSE AuthorityStart(d)
           found == FirstOf(Substr(d, start, QueryStart(d) - start), {IF is_urn THEN Colon ELSE SlashChar}, 0)
           e == IF AuthorityStart(d) = Len(d) /\ SchemeEnd(d) = Len(d) THEN 0
                ELSE IF found = Npos THEN Len(d)
                ELSE found + start + (IF is_urn THEN 1 ELSE 0)
           Before(k) == parse_query(d, parse_scheme(d, k))
<1>1. ASSUME NEW k, Settled(d, k)
      PROVE  /\ Settled(d, Before(k)) /\ Lasting(k, Before(k))
             /\ Before(k).scheme_end = SchemeEnd(d) /\ Before(k).authority_start = AuthorityStart(d)
             /\ Before(k).query_start = QueryStart(d) /\ Before(k).fragment_start = FragmentStart(d)
  <2> DEFINE k1 == parse_scheme(d, k)
             k2 == parse_query(d, k1)
  <2>1. /\ Settled(d, k1) /\ Lasting(k, k1)
        /\ k1.scheme_end = SchemeEnd(d) /\ k1.authority_start = AuthorityStart(d)
    BY <1>1, SchemeSettles
  <2> HIDE DEF k1
  <2>2. /\ Settled(d, k2) /\ Lasting(k1, k2)
        /\ k2.query_start = QueryStart(d) /\ k2.fragment_start = FragmentStart(d)
        /\ \A part \in DOMAIN k1 \ {"query_start", "fragment_start"} : k2[part] = k1[part]
    BY <2>1, QuerySettles
  <2>3. "scheme_end" \in DOMAIN k1 /\ "authority_start" \in DOMAIN k1
    BY <2>1, NamesOfOffsets DEF Settled
  <2> HIDE DEF k2
  <2>4. k2.scheme_end = k1.scheme_end /\ k2.authority_start = k1.authority_start
    BY <2>2, <2>3
  <2>5. Lasting(k, k2)
    BY <2>1, <2>2, LastsLonger
  <2>6. QED
    BY <2>1, <2>2, <2>4, <2>5 DEF k1, k2
<1>2. ASSUME NEW k, Settled(d, k), k.authority_end = Npos
      PROVE  parse_path(d, k) = [Before(k) EXCEPT !.authority_end = e]
  <2> DEFINE b == Before(k)
  <2>1. /\ b.scheme_end = SchemeEnd(d) /\ b.authority_start = AuthorityStart(d)
        /\ b.query_start = QueryStart(d)
    BY <1>1, <1>2
  <2>2. QED
    BY <1>2, <2>1, Zenon DEF parse_path
<1> HIDE DEF e, Before
<1>3. AuthorityEnd(d) = e
  <2>1. Settled(d, Unparsed) /\ Unparsed.authority_end = Npos
    BY UnparsedSettled DEF Unparsed
  <2>2. parse_path(d, Unparsed) = [Before(Unparsed) EXCEPT !.authority_end = e]
    BY <1>2, <2>1
  <2>3. "authority_end" \in DOMAIN Before(Unparsed)
    BY <1>1, <2>1, NamesOfOffsets DEF Settled
  <2>4. QED
    BY <2>2, <2>3 DEF AuthorityEnd
<1>4. CASE c.authority_end # Npos
  <2>1. parse_path(d, c) = c
    BY <1>4 DEF parse_path
  <2>2. QED
    BY <1>4, <2>1 DEF Settled, Lasting
<1>5. CASE c.authority_end = Npos
  <2> DEFINE b == Before(c)
             r == parse_path(d, c)
  <2>1. r = [b EXCEPT !.authority_end = AuthorityEnd(d)]
    BY <1>2, <1>3, <1>5
  <2>2. /\ Settled(d, b) /\ Lasting(c, b)
        /\ b.scheme_end = SchemeEnd(d) /\ b.authority_start = AuthorityStart(d)
        /\ b.query_start = QueryStart(d) /\ b.fragment_start = FragmentStart(d)
    BY <1>1
  <2> HIDE DEF b, r
  <2>3. /\ DOMAIN b = DOMAIN c
        /\ DOMAIN b = {"scheme_end", "authority_start", "user_info_end", "port_start", "authority_end",
                       "query_start", "fragment_start"}
    BY <2>2, NamesOfOffsets DEF Settled
  <2>4. /\ DOMAIN r = DOMAIN c
        /\ r.authority_end = AuthorityEnd(d)
        /\ \A part \in DOMAIN c \ {"authority_end"} : r[part] = b[part]
    BY <2>1, <2>3
  <2>5. /\ r.scheme_end = b.scheme_end /\ r.authority_start = b.authority_start
        /\ r.query_start = b.query_start /\ r.fragment_start = b.fragment_start
    BY <2>3, <2>4
  <2>6. Settled(d, r)
    BY <2>2, <2>3, <2>4, <2>5 DEF Settled
  <2>7. Lasting(c, r)
    BY <1>5, <2>2, <2>3, <2>4 DEF Lasting
  <2>8. QED
    BY <2>2, <2>4, <2>5, <2>6, <2>7 DEF r
<1>6. QED
  BY <1>4, <1>5

\* The offsets of the user info and of the port are found beside the others.
LEMMA BesidesSettles ==
    ASSUME NEW d, NEW first, NEW c, NEW r, NEW part \in {"user_info_end", "port_start"}, NEW x,
           Lasting(first, c), first[part] = Npos, Settled(d, c), r = [c EXCEPT ![part] = x]
    PROVE  Settled(d, r) /\ Lasting(first, r)
<1>1. DOMAIN c = {"scheme_end", "authority_start", "user_info_end", "port_start", "authority_end",
                  "query_start", "fragment_start"}
  BY NamesOfOffsets DEF Settled
<1>2. DOMAIN r = DOMAIN c /\ \A other \in DOMAIN c \ {part} : r[other] = c[other]
  BY <1>1
<1>3. /\ r.scheme_end = c.scheme_end /\ r.authority_start = c.authority_start
      /\ r.query_start = c.query_start /\ r.fragment_start = c.fragment_start
      /\ r.authority_end = c.authority_end
  BY <1>1, <1>2
<1>4. Settled(d, r)
  BY <1>2, <1>3 DEF Settled
<1>5. Lasting(first, r)
  BY <1>2 DEF Lasting
<1>6. QED
  BY <1>4, <1>5

\* An object's offsets last longer than any call that knows them.
LEMMA LastsItself == ASSUME NEW c PROVE Lasting(c, c)
  BY DEF Lasting

\* parse_user_info looks for the scheme first.
LEMMA UserInfoSettles ==
    ASSUME NEW d, NEW c, Settled(d, c)
    PROVE  Settled(d, parse_user_info(d, c)) /\ Lasting(c, parse_user_info(d, c))
<1>1. CASE c.user_info_end # Npos
  <2>1. parse_user_info(d, c) = c
    BY <1>1 DEF parse_user_info
  <2>2. QED
    BY <2>1, LastsItself
<1>2. CASE c.user_info_end = Npos
  <2> DEFINE k == parse_scheme(d, c)
  <2>1. Settled(d, k) /\ Lasting(c, k)
    BY SchemeSettles
  <2>2. \E x : parse_user_info(d, c) = [k EXCEPT !.user_info_end = x]
    BY <1>2, Zenon DEF parse_user_info
  <2> HIDE DEF k
  <2>3. PICK x : parse_user_info(d, c) = [k EXCEPT !["user_info_end"] = x]
    BY <2>2
  <2>4. QED
    BY <1>2, <2>1, <2>3, BesidesSettles
<1>3. QED
  BY <1>1, <1>2

\* parse_port looks for the user info and, in an authority, for the path.
LEMMA PortSettles ==
    ASSUME NEW d, NEW c, Settled(d, c)
    PROVE  Settled(d, parse_port(d, c)) /\ Lasting(c, parse_port(d, c))
<1>1. CASE c.port_start # Npos
  <2>1. parse_port(d, c) = c
    BY <1>1 DEF parse_port
  <2>2. QED
    BY <2>1, LastsItself
<1>2. CASE c.port_start = Npos
  <2> DEFINE k == parse_user_info(d, c)
             p == parse_path(d, k)
  <2>1. Settled(d, k) /\ Lasting(c, k)
    BY UserInfoSettles
  <2>2. Settled(d, p) /\ Lasting(c, p)
    <3> HIDE DEF k
    <3>1. Settled(d, p) /\ Lasting(k, p)
      BY <2>1, PathSettles
    <3>2. QED
      BY <2>1, <3>1, LastsLonger
  <2>3. \E x : \/ parse_port(d, c) = [k EXCEPT !.port_start = x]
               \/ parse_port(d, c) = [p EXCEPT !.port_start = x]
    <3>1. CASE k.authority_start = Len(d)
      <4>1. parse_port(d, c) = [k EXCEPT !.port_start = Len(d)]
        BY <1>2, <3>1, Zenon DEF parse_port
      <4>2. QED
        BY <4>1
    <3>2. CASE k.authority_start # Len(d)
      <4> DEFINE from == IF p.user_info_end # Len(d) THEN p.user_info_end ELSE p.authority_start
                 host_port == Substr(d, from, p.authority_end - from)
                 last == LastOf(host_port, {Colon, CloseBracket})
                 view == Substr(d, last + from + 1, p.authority_end - (last + from + 1))
                 x == IF last = Npos \/ Ends(host_port, CloseBracket) \/ ~AllIn(view, Digits) THEN Len(d)
                      ELSE last + from
      <4>1. parse_port(d, c) = [p EXCEPT !.port_start = x]
        BY <1>2, <3>2, Zenon DEF parse_port
      <4> HIDE DEF x, p
      <4>2. QED
        BY <4>1
    <3>3. QED
      BY <3>1, <3>2
  <2> HIDE DEF k, p
  <2>4. PICK x : \/ parse_port(d, c) = [k EXCEPT !["port_start"] = x]
                 \/ parse_port(d, c) = [p EXCEPT !["port_start"] = x]
    BY <2>3
  <2>5. CASE parse_port(d, c) = [k EXCEPT !["port_start"] = x]
    BY <1>2, <2>1, <2>5, BesidesSettles
  <2>6. CASE parse_port(d, c) = [p EXCEPT !["port_start"] = x]
    BY <1>2, <2>2, <2>6, BesidesSettles
  <2>7. QED
    BY <2>4, <2>5, <2>6
<1>3. QED
  BY <1>1, <1>2

\* parse_host is three of the other calls.
LEMMA HostSettles ==
    ASSUME NEW d, NEW c, Settled(d, c)
    PROVE  Settled(d, parse_host(d, c)) /\ Lasting(c, parse_host(d, c))
<1> DEFINE u == parse_user_info(d, c)
           p == parse_port(d, u)
<1>1. Settled(d, u) /\ Lasting(c, u)
  BY UserInfoSettles
<1> HIDE DEF u
<1>2. Settled(d, p) /\ Lasting(u, p)
  BY <1>1, PortSettles
<1> HIDE DEF p
<1>3. Settled(d, parse_path(d, p)) /\ Lasting(p, parse_path(d, p))
  BY <1>2, PathSettles
<1>4. Lasting(c, parse_path(d, p))
  BY <1>1, <1>2, <1>3, LastsLonger
<1>5. QED
  BY <1>3, <1>4 DEF parse_host, u, p

-----------------------------------------------------------------------------
\* What a setter leaves: a text nothing is known of, or the text d it was
\* given with the offsets first that were known and perhaps more.
Fresh(d, first, r) ==
    r.c = Unparsed \/ (r.d = d /\ Settled(d, r.c) /\ Lasting(first, r.c))

\* replace_value forgets every offset, or changes nothing.
LEMMA ReplaceIsFresh ==
    ASSUME NEW d, NEW first, NEW c, Settled(d, c), Lasting(first, c)
    PROVE  /\ Fresh(d, first, [d |-> d, c |-> c])
           /\ \A start, len, new : Fresh(d, first, replace_value(d, c, start, len, new))
  BY DEF Fresh, replace_value

\* The setters cut the text at offsets their parse calls left, all of which
\* they forget: the setter of the scheme.
LEMMA SetSchemeIsFresh ==
    ASSUME NEW d, NEW first, NEW v, Settled(d, first)
    PROVE  Fresh(d, first, set_scheme(d, first, v))
<1> DEFINE c == parse_scheme(d, first)
<1>1. Settled(d, c) /\ Lasting(first, c)
  BY SchemeSettles
<1> HIDE DEF c
<1>2. \A start, len, new : Fresh(d, first, replace_value(d, c, start, len, new))
  BY <1>1, ReplaceIsFresh
<1>3. \E start, len, new : set_scheme(d, first, v) = replace_value(d, c, start, len, new)
  BY Zenon DEF set_scheme, c
<1>4. QED
  BY <1>2, <1>3

\* The setter of the user info.
LEMMA SetUserInfoIsFresh ==
    ASSUME NEW d, NEW first, NEW v, Settled(d, first)
    PROVE  Fresh(d, first, set_user_info(d, first, v))
<1> DEFINE c == parse_user_info(d, first)
<1>1. Settled(d, c) /\ Lasting(first, c)
  BY UserInfoSettles
<1> HIDE DEF c
<1>2. \A start, len, new : Fresh(d, first, replace_value(d, c, start, len, new))
  BY <1>1, ReplaceIsFresh
<1>3. \E start, len, new : set_user_info(d, first, v) = replace_value(d, c, start, len, new)
  BY Zenon DEF set_user_info, c
<1>4. QED
  BY <1>2, <1>3

\* The setter of the host, which is given the offsets parse_host left.
LEMMA SetHostIsFresh ==
    ASSUME NEW d, NEW first, NEW c, NEW v, Settled(d, c), Lasting(first, c)
    PROVE  Fresh(d, first, set_host(d, c, v))
<1>1. /\ Fresh(d, first, [d |-> d, c |-> c])
      /\ \A start, len, new : Fresh(d, first, replace_value(d, c, start, len, new))
  BY ReplaceIsFresh
<1>2. \/ set_host(d, c, v) = [d |-> d, c |-> c]
      \/ \E start, len, new : set_host(d, c, v) = replace_value(d, c, start, len, new)
  BY Zenon DEF set_host
<1>3. QED
  BY <1>1, <1>2

\* The setter of the port, which asks for the host if there is no port.
LEMMA SetPortIsFresh ==
    ASSUME NEW d, NEW first, NEW v, Settled(d, first)
    PROVE  Fresh(d, first, set_port(d, first, v))
<1> DEFINE c == parse_port(d, first)
           h == parse_host(d, c)
<1>1. Settled(d, c) /\ Lasting(first, c)
  BY PortSettles
<1> HIDE DEF c
<1>2. Settled(d, h) /\ Lasting(first, h)
  BY <1>1, HostSettles, LastsLonger
<1> HIDE DEF h
<1>3. \A start, len, new : /\ Fresh(d, first, replace_value(d, c, start, len, new))
                           /\ Fresh(d, first, replace_value(d, h, start, len, new))
  BY <1>1, <1>2, ReplaceIsFresh
<1>4. \E start, len, new : \/ set_port(d, first, v) = replace_value(d, c, start, len, new)
                           \/ set_port(d, first, v) = replace_value(d, h, start, len, new)
  BY Zenon DEF set_port, c, h
<1>5. QED
  BY <1>3, <1>4

\* The setter of the path.
LEMMA SetPathIsFresh ==
    ASSUME NEW d, NEW first, NEW c, NEW v, Settled(d, c), Lasting(first, c)
    PROVE  Fresh(d, first, set_path_raw(d, c, v))
<1> DEFINE p == parse_path(d, c)
<1>1. Settled(d, p) /\ Lasting(c, p)
  BY PathSettles
<1> HIDE DEF p
<1>2. Lasting(first, p)
  BY <1>1, LastsLonger
<1>3. \A start, len, new : Fresh(d, first, replace_value(d, p, start, len, new))
  BY <1>1, <1>2, ReplaceIsFresh
<1>4. \E start, len, new : set_path_raw(d, c, v) = replace_value(d, p, start, len, new)
  BY Zenon DEF set_path_raw, p
<1>5. QED
  BY <1>3, <1>4

\* normalize sets the path it has read.
LEMMA NormalizeIsFresh ==
    ASSUME NEW d, NEW first, Settled(d, first)
    PROVE  Fresh(d, first, normalize(d, first))
<1> DEFINE p == parse_path(d, first)
<1>1. Settled(d, p) /\ Lasting(first, p)
  BY PathSettles
<1> HIDE DEF p
<1>2. Fresh(d, first, [d |-> d, c |-> p])
  BY <1>1, ReplaceIsFresh
<1>3. \A v : Fresh(d, first, set_path_raw(d, p, v))
  BY <1>1, SetPathIsFresh
<1>4. normalize(d, first) = [d |-> d, c |-> p] \/ \E v : normalize(d, first) = set_path_raw(d, p, v)
  BY Zenon DEF normalize, p
<1>5. QED
  BY <1>2, <1>3, <1>4

\* The setter of the queries, which asks for the path if there are none.
LEMMA SetQueriesIsFresh ==
    ASSUME NEW d, NEW first, NEW v, Settled(d, first)
    PROVE  Fresh(d, first, set_queries(d, first, v))
<1> DEFINE c == parse_query(d, first)
           h == parse_path(d, c)
<1>1. Settled(d, c) /\ Lasting(first, c)
  BY QuerySettles
<1> HIDE DEF c
<1>2. Settled(d, h) /\ Lasting(first, h)
  BY <1>1, PathSettles, LastsLonger
<1> HIDE DEF h
<1>3. \A start, len, new : /\ Fresh(d, first, replace_value(d, c, start, len, new))
                           /\ Fresh(d, first, replace_value(d, h, start, len, new))
  BY <1>1, <1>2, ReplaceIsFresh
<1>4. \E start, len, new : \/ set_queries(d, first, v) = replace_value(d, c, start, len, new)
                           \/ set_queries(d, first, v) = replace_value(d, h, start, len, new)
  BY Zenon DEF set_queries, c, h
<1>5. QED
  BY <1>3, <1>4

\* The setter of the fragment, which asks for nothing.
LEMMA SetFragmentIsFresh ==
    ASSUME NEW d, NEW first, NEW v, Settled(d, first)
    PROVE  Fresh(d, first, set_fragment(d, first, v))
  BY ReplaceIsFresh, LastsItself DEF set_fragment

\* The setters of names set the host, or nothing.
LEMMA SetNamesIsFresh ==
    ASSUME NEW d, NEW first, NEW c, NEW v, Settled(d, c), Lasting(first, c)
    PROVE  /\ Fresh(d, first, set_top_level_domain(d, c, v))
           /\ Fresh(d, first, set_second_level_domain(d, c, v))
           /\ Fresh(d, first, set_subdomains(d, c, v))
<1>1. Fresh(d, first, [d |-> d, c |-> c]) /\ \A new : Fresh(d, first, set_host(d, c, new))
  BY ReplaceIsFresh, SetHostIsFresh
<1>2. set_top_level_domain(d, c, v) = [d |-> d, c |-> c] \/ \E new : set_top_level_domain(d, c, v) = set_host(d, c, new)
  BY Zenon DEF set_top_level_domain
<1>3. set_second_level_domain(d, c, v) = [d |-> d, c |-> c] \/ \E new : set_second_level_domain(d, c, v) = set_host(d, c, new)
  BY Zenon DEF set_second_level_domain
<1>4. set_subdomains(d, c, v) = [d |-> d, c |-> c] \/ \E new : set_subdomains(d, c, v) = set_host(d, c, new)
  BY Zenon DEF set_subdomains
<1>5. QED
  BY <1>1, <1>2, <1>3, <1>4
-----------------------------------------------------------------------------
UriInv == Settled(data, cache)

\* What a step leaves of the offsets it finds.
UriFresh == Fresh(data, cache, [d |-> data', c |-> cache'])

\* A getter leaves the text and the offsets that are known.
LEMMA LookIsFresh == UriInv /\ Look => UriFresh
<1> SUFFICES ASSUME UriInv, Look PROVE UriFresh
  OBVIOUS
<1>1. Settled(data, cache)
  BY DEF UriInv
<1>2. data' = data /\ Settled(data, cache') /\ Lasting(cache, cache')
  BY <1>1, SchemeSettles, UserInfoSettles, PathSettles, PortSettles, FragmentSettles, QuerySettles, HostSettles
     DEF Look
<1>3. QED
  BY <1>2 DEF UriFresh, Fresh

\* So does a setter, or it forgets every offset.
LEMMA PutIsFresh ==
    ASSUME NEW r, NEW promised, NEW part, NEW value, Fresh(data, cache, r), Put(r, promised, part, value)
    PROVE  UriFresh
  BY DEF Put, Fresh, UriFresh

\* Every call leaves the text with offsets it had and more, or with none.
LEMMA UriStep == UriInv /\ [UriNext]_uri_vars => UriFresh
<1> SUFFICES ASSUME UriInv, [UriNext]_uri_vars PROVE UriFresh
  OBVIOUS
<1>1. Settled(data, cache)
  BY DEF UriInv
<1> DEFINE h == parse_host(data, cache)
<1>2. Settled(data, h) /\ Lasting(cache, h)
  BY <1>1, HostSettles
<1>3. CASE Look
  BY <1>3, LookIsFresh
<1>4. ASSUME NEW v, SetScheme(v) PROVE UriFresh
  BY <1>1, <1>4, SetSchemeIsFresh, PutIsFresh DEF SetScheme
<1>5. ASSUME NEW v, SetUserInfo(v) PROVE UriFresh
  BY <1>1, <1>5, SetUserInfoIsFresh, PutIsFresh DEF SetUserInfo
<1>6. ASSUME NEW v, SetHost(v) PROVE UriFresh
  BY <1>2, <1>6, SetHostIsFresh, PutIsFresh DEF SetHost
<1>7. ASSUME NEW v, SetPort(v) PROVE UriFresh
  BY <1>1, <1>7, SetPortIsFresh, PutIsFresh DEF SetPort
<1>8. ASSUME NEW v, SetPath(v) PROVE UriFresh
  BY <1>1, <1>8, SetPathIsFresh, LastsItself, PutIsFresh DEF SetPath, set_path
<1>9. ASSUME NEW v, SetQueries(v) PROVE UriFresh
  BY <1>1, <1>9, SetQueriesIsFresh, PutIsFresh DEF SetQueries
<1>10. ASSUME NEW v, SetFragment(v) PROVE UriFresh
  BY <1>1, <1>10, SetFragmentIsFresh, PutIsFresh DEF SetFragment
<1>11. ASSUME NEW v, SetTopLevelDomain(v) \/ SetSecondLevelDomain(v) \/ SetSubdomains(v) PROVE UriFresh
  <2>1. /\ Fresh(data, cache, set_top_level_domain(data, h, v))
        /\ Fresh(data, cache, set_second_level_domain(data, h, v))
        /\ Fresh(data, cache, set_subdomains(data, h, v))
    BY <1>2, SetNamesIsFresh
  <2>2. SetTopLevelDomain(v) => UriFresh
    BY <2>1, PutIsFresh DEF SetTopLevelDomain, PutNames
  <2>3. SetSecondLevelDomain(v) => UriFresh
    BY <2>1, PutIsFresh DEF SetSecondLevelDomain, PutNames
  <2>4. SetSubdomains(v) => UriFresh
    BY <2>1, PutIsFresh DEF SetSubdomains, PutNames
  <2>5. QED
    BY <1>11, <2>2, <2>3, <2>4
<1>12. CASE Normalize
  BY <1>1, <1>12, NormalizeIsFresh, PutIsFresh DEF Normalize
<1>13. CASE UNCHANGED uri_vars
  BY <1>1, <1>13, LastsItself DEF uri_vars, UriFresh, Fresh
<1>14. QED
  BY <1>3, <1>4, <1>5, <1>6, <1>7, <1>8, <1>9, <1>10, <1>11, <1>12, <1>13 DEF UriNext

\* The scheme, the path, the queries and the fragment of any URI are what
\* its text says, whatever was asked and set before.
THEOREM AnswersAreSteady == UriSpec => []SteadyAnswers
<1>1. UriInit => UriInv
  BY UnparsedSettled DEF UriInit, UriInv
<1>2. UriInv /\ [UriNext]_uri_vars => UriInv'
  <2>1. UriFresh => UriInv'
    BY UnparsedSettled DEF UriFresh, Fresh, UriInv
  <2>2. QED
    BY <2>1, UriStep
<1>3. UriInv => SteadyAnswers
  <2> SUFFICES ASSUME Settled(data, cache) PROVE SteadyAnswers
    BY DEF UriInv
  <2>1. Settled(data, Unparsed)
    BY UnparsedSettled
  <2>2. scheme(data, cache) = scheme(data, Unparsed)
    BY <2>1, SchemeSettles DEF scheme
  <2>3. path_raw(data, cache) = path_raw(data, Unparsed)
    BY <2>1, PathSettles DEF path_raw
  <2>4. queries_raw(data, cache) = queries_raw(data, Unparsed)
    BY <2>1, QuerySettles DEF queries_raw
  <2>5. fragment(data, cache) = fragment(data, Unparsed)
    BY <2>1, FragmentSettles DEF fragment
  <2>6. QED
    BY <2>2, <2>3, <2>4, <2>5 DEF SteadyAnswers
<1>4. QED
  BY <1>1, <1>2, <1>3, PTL DEF UriSpec

\* An offset, once found, is the same until a setter changes the text, which
\* forgets them all: const getters never move what another one relies on.
OffsetsLast ==
    [][cache' = Unparsed \/ (data' = data /\ \A part \in DOMAIN cache : cache[part] # Npos => cache'[part] = cache[part])]_uri_vars

\* No call of a getter or setter moves an offset of a text that stays.
THEOREM FoundOffsetsLast == UriSpec => OffsetsLast
<1>1. UriInit => UriInv
  BY UnparsedSettled DEF UriInit, UriInv
<1>2. UriInv /\ [UriNext]_uri_vars => UriInv'
  <2>1. UriFresh => UriInv'
    BY UnparsedSettled DEF UriFresh, Fresh, UriInv
  <2>2. QED
    BY <2>1, UriStep
<1>3. UriInv /\ [UriNext]_uri_vars =>
          \/ cache' = Unparsed
          \/ data' = data /\ \A part \in DOMAIN cache : cache[part] # Npos => cache'[part] = cache[part]
  BY UriStep DEF UriFresh, Fresh, Lasting
<1>4. QED
  BY <1>1, <1>2, <1>3, PTL DEF UriSpec, OffsetsLast

-----------------------------------------------------------------------------
(* Loops that append to a text, and percent-encoding.                      *)

\* What Chain(parts) is when the parts are sequences of S.
LEMMA ChainTurns ==
    ASSUME NEW S, NEW parts \in Seq(Seq(S))
    PROVE  /\ Chain(parts) \in [0 .. Len(parts) -> Seq(S)]
           /\ Chain(parts)[0] = <<>>
           /\ \A n \in 1 .. Len(parts) : Chain(parts)[n] = Chain(parts)[n - 1] \o parts[n]
<1> DEFINE N == Len(parts)
           T == Seq(S)
           e == <<>>
           F == [n \in 1 .. N |-> [s \in T |-> s \o parts[n]]]
           Is(g) == g = [n \in 0 .. N |-> IF n = 0 THEN e ELSE g[n - 1] \o parts[n]]
<1>1. N \in Nat /\ \A n \in 1 .. N : parts[n] \in T
  OBVIOUS
<1>2. e \in T
  OBVIOUS
<1>3. Chain(parts) = CHOOSE g : Is(g)
  BY DEF Chain
<1>4. \A s, t \in T : s \o t \in T
  OBVIOUS
<1> HIDE DEF N, T, e
<1>5. \A n \in 1 .. N : \A s \in T : F[n][s] = s \o parts[n]
  OBVIOUS
<1>6. F \in [1 .. N -> [T -> T]]
  BY <1>1, <1>4
<1> HIDE DEF F
<1>7. PICK f \in [0 .. N -> T] : f[0] = e /\ \A n \in 1 .. N : f[n] = F[n][f[n - 1]]
  <2>1. \E g : g \in TurnsOf(N, T, e, F)
    BY <1>1, <1>2, <1>6, TurnsExist
  <2> QED
    BY <2>1 DEF TurnsOf
<1>8. \A n \in 1 .. N : f[n - 1] \in T
  BY <1>1, <1>7
<1>9. \A n \in 1 .. N : f[n] = f[n - 1] \o parts[n]
  BY <1>5, <1>7, <1>8
<1>10. \A n \in 0 .. N : f[n] = IF n = 0 THEN e ELSE f[n - 1] \o parts[n]
  <2>1. \A n \in 0 .. N : n = 0 \/ n \in 1 .. N
    BY <1>1
  <2> QED
    BY <2>1, <1>7, <1>9
<1>11. Is(f)
  BY <1>7, <1>10
<1> HIDE DEF Is
<1>12. Is(Chain(parts))
  BY <1>3, <1>11
<1> DEFINE c == Chain(parts)
<1> HIDE DEF c
<1>13. c = [n \in 0 .. N |-> IF n = 0 THEN e ELSE c[n - 1] \o parts[n]]
  BY <1>12 DEF Is, c
<1>14. \A n \in 0 .. N : c[n] = IF n = 0 THEN e ELSE c[n - 1] \o parts[n]
  BY <1>13
<1>15. c[0] = e /\ \A n \in 1 .. N : c[n] = c[n - 1] \o parts[n]
  <2>1. 0 \in 0 .. N
    BY <1>1
  <2>2. c[0] = e
    BY <2>1, <1>14
  <2>3. \A n \in 1 .. N : n \in 0 .. N /\ n # 0
    BY <1>1
  <2>4. ASSUME NEW n \in 1 .. N PROVE c[n] = c[n - 1] \o parts[n]
    BY <2>3, <1>14
  <2> QED
    BY <2>2, <2>4
<1> DEFINE G == {n \in 0 .. N : c[n] \in T}
<1>16. 0 \in G
  BY <1>1, <1>2, <1>15
<1>17. ASSUME NEW n \in 0 .. N - 1, n \in G PROVE n + 1 \in G
  <2>1. n + 1 \in 1 .. N /\ (n + 1) - 1 = n /\ n + 1 \in 0 .. N
    BY <1>1
  <2>2. c[n + 1] = c[n] \o parts[n + 1]
    BY <1>15, <2>1
  <2> QED
    BY <1>1, <1>4, <1>17, <2>1, <2>2
<1>18. 0 .. N \subseteq G
  <2> HIDE DEF G
  <2> QED
    BY <1>1, <1>16, <1>17, CountingTo
<1>19. c \in [0 .. N -> T]
  BY <1>13, <1>18
<1> QED
  BY <1>15, <1>19 DEF c, N, T, e

\* The parts stand in the whole one after the other: what the first n make is
\* its beginning.
LEMMA ChainPrefix ==
    ASSUME NEW S, NEW parts \in Seq(Seq(S)), NEW n \in 0 .. Len(parts)
    PROVE  /\ Len(Chain(parts)[n]) <= Len(Chained(parts))
           /\ \A i \in 1 .. Len(Chain(parts)[n]) : Chained(parts)[i] = Chain(parts)[n][i]
<1> DEFINE N == Len(parts)
           c == Chain(parts)
           Begun(m) == /\ Len(c[n]) <= Len(c[m])
                       /\ \A i \in 1 .. Len(c[n]) : c[m][i] = c[n][i]
           G == {k \in 0 .. N - n : Begun(n + k)}
<1>1. /\ c \in [0 .. N -> Seq(S)]
      /\ \A k \in 1 .. N : c[k] = c[k - 1] \o parts[k]
  BY ChainTurns
<1>2. N \in Nat /\ n \in 0 .. N /\ \A k \in 1 .. N : parts[k] \in Seq(S)
  OBVIOUS
<1>3. Chained(parts) = c[N]
  BY DEF Chained
<1> HIDE DEF c, N
<1>4. 0 \in G
  BY <1>1, <1>2
<1>5. ASSUME NEW k \in 0 .. N - n - 1, k \in G PROVE k + 1 \in G
  <2>1. n + k + 1 \in 1 .. N /\ n + k \in 0 .. N /\ (n + k + 1) - 1 = n + k /\ n + k + 1 = n + (k + 1)
    BY <1>2
  <2>2. c[n + k + 1] = c[n + k] \o parts[n + k + 1]
    BY <1>1, <2>1
  <2>3. c[n + k] \in Seq(S) /\ parts[n + k + 1] \in Seq(S) /\ c[n] \in Seq(S)
    BY <1>1, <1>2, <2>1
  <2>4. Begun(n + k)
    BY <1>5
  <2>5. Begun(n + k + 1)
    <3> DEFINE a == c[n + k]
               b == parts[n + k + 1]
    <3>1. a \in Seq(S) /\ b \in Seq(S)
      BY <2>3
    <3> HIDE DEF a, b
    <3>2. Len(a \o b) >= Len(a) /\ \A i \in 1 .. Len(a) : (a \o b)[i] = a[i]
      BY <3>1
    <3>3. Len(c[n]) \in Nat /\ Len(a) \in Nat /\ Len(a \o b) \in Nat
      BY <2>3, <3>1
    <3> QED
      <4>1. Len(c[n]) <= Len(a) /\ \A i \in 1 .. Len(c[n]) : a[i] = c[n][i]
        BY <2>4 DEF a
      <4>2. Len(c[n]) <= Len(a \o b) /\ \A i \in 1 .. Len(c[n]) : (a \o b)[i] = c[n][i]
        BY <3>2, <3>3, <4>1
      <4> QED
        BY <2>2, <4>2 DEF a, b
  <2> QED
    BY <1>2, <2>1, <2>5
<1>6. N - n \in Nat
  BY <1>2
<1>7. 0 .. N - n \subseteq G
  <2> HIDE DEF G
  <2> QED
    BY <1>4, <1>5, <1>6, CountingTo
<1>8. n + (N - n) = N /\ N - n \in 0 .. N - n
  BY <1>2, <1>6
<1>9. Begun(n + (N - n))
  BY <1>7, <1>8
<1> QED
  BY <1>3, <1>8, <1>9 DEF c

\* Part n stands behind the parts before it, all of it inside the whole.
LEMMA PartInChain ==
    ASSUME NEW S, NEW parts \in Seq(Seq(S)), NEW n \in 1 .. Len(parts)
    PROVE  /\ Len(Chain(parts)[n - 1]) \in Nat /\ Len(parts[n]) \in Nat
           /\ Len(Chain(parts)[n]) = Len(Chain(parts)[n - 1]) + Len(parts[n])
           /\ Len(Chain(parts)[n]) <= Len(Chained(parts))
           /\ \A i \in 1 .. Len(parts[n]) : Chained(parts)[Len(Chain(parts)[n - 1]) + i] = parts[n][i]
<1> DEFINE a == Chain(parts)[n - 1]
           b == parts[n]
           w == Chained(parts)
<1>1. n \in 0 .. Len(parts) /\ n - 1 \in 0 .. Len(parts)
  OBVIOUS
<1>2. a \in Seq(S) /\ b \in Seq(S)
  <2>1. Chain(parts) \in [0 .. Len(parts) -> Seq(S)]
    BY ChainTurns
  <2>2. b \in Seq(S)
    OBVIOUS
  <2> QED
    BY <1>1, <2>1, <2>2
<1>3. Chain(parts)[n] = a \o b
  BY ChainTurns
<1>4. /\ Len(Chain(parts)[n]) <= Len(w)
      /\ \A i \in 1 .. Len(Chain(parts)[n]) : w[i] = Chain(parts)[n][i]
  BY <1>1, ChainPrefix
<1> HIDE DEF a, b, w
<1>5. /\ Len(a) \in Nat /\ Len(b) \in Nat /\ Len(a \o b) = Len(a) + Len(b)
      /\ \A i \in 1 .. Len(b) : (a \o b)[Len(a) + i] = b[i]
  BY <1>2
<1>6. \A i \in 1 .. Len(b) : Len(a) + i \in 1 .. Len(a \o b)
  BY <1>5
<1>7. \A i \in 1 .. Len(b) : w[Len(a) + i] = b[i]
  BY <1>3, <1>4, <1>5, <1>6
<1> QED
  BY <1>3, <1>4, <1>5, <1>7 DEF a, b, w

\* The whole is a sequence too, at least as long as the parts are many when
\* none is empty.
LEMMA ChainLong ==
    ASSUME NEW S, NEW parts \in Seq(Seq(S)), \A n \in 1 .. Len(parts) : parts[n] # <<>>
    PROVE  /\ Chained(parts) \in Seq(S) /\ Chained(parts) = Chain(parts)[Len(parts)]
           /\ \A n \in 0 .. Len(parts) : Len(Chain(parts)[n]) \in Nat /\ n <= Len(Chain(parts)[n])
<1> DEFINE N == Len(parts)
           c == Chain(parts)
           G == {n \in 0 .. N : Len(c[n]) \in Nat /\ n <= Len(c[n])}
<1>1. c \in [0 .. N -> Seq(S)] /\ c[0] = <<>> /\ Len(<<>>) = 0
  BY ChainTurns
<1>2. \A n \in 1 .. N : Len(c[n - 1]) \in Nat /\ Len(parts[n]) \in Nat /\ Len(c[n]) = Len(c[n - 1]) + Len(parts[n])
  BY PartInChain
<1>3. \A n \in 1 .. N : Len(parts[n]) > 0
  OBVIOUS
<1>4. N \in Nat
  OBVIOUS
<1>5. Chained(parts) = c[N]
  BY DEF Chained
<1> HIDE DEF c, N
<1>6. 0 \in G
  BY <1>1, <1>4
<1>7. ASSUME NEW n \in 0 .. N - 1, n \in G PROVE n + 1 \in G
  <2>1. n + 1 \in 1 .. N /\ (n + 1) - 1 = n /\ n + 1 \in 0 .. N
    BY <1>4
  <2>2. Len(c[n]) \in Nat /\ Len(parts[n + 1]) \in Nat /\ Len(c[n + 1]) = Len(c[n]) + Len(parts[n + 1])
    BY <1>2, <2>1
  <2>3. Len(parts[n + 1]) > 0
    BY <1>3, <2>1
  <2>4. n <= Len(c[n])
    BY <1>7
  <2>5. n + 1 <= Len(c[n + 1]) /\ Len(c[n + 1]) \in Nat
    <3> DEFINE p == Len(c[n])
               q == Len(parts[n + 1])
    <3>1. p \in Nat /\ q \in Nat /\ q > 0 /\ n <= p /\ n \in Nat /\ Len(c[n + 1]) = p + q
      BY <1>4, <2>2, <2>3, <2>4
    <3> HIDE DEF p, q
    <3> QED
      BY <3>1
  <2> QED
    BY <2>1, <2>5
<1>8. 0 .. N \subseteq G
  <2> HIDE DEF G
  <2> QED
    BY <1>4, <1>6, <1>7, CountingTo
<1>9. c[N] \in Seq(S)
  BY <1>1, <1>4
<1> QED
  BY <1>5, <1>8, <1>9 DEF c, N

-----------------------------------------------------------------------------
\* The states of the decoding loop.
DecodeStates == [pos : Nat \ {0}, out : Seq(0 .. 255), ok : BOOLEAN]
DecodeStart == [pos |-> 1, out |-> <<>>, ok |-> TRUE]

\* A digit that to_percent_hex writes is read as what it was written for, and
\* what is no digit as -1.
LEMMA HexRead ==
    /\ \A d \in 0 .. 15 : UpperHexChar(d) \in 0 .. 255 /\ hex_digit_safe(UpperHexChar(d)) = d
    /\ \A c : hex_digit_safe(c) \in -1 .. 15
<1>1. ASSUME NEW d \in 0 .. 15 PROVE UpperHexChar(d) \in 0 .. 255 /\ hex_digit_safe(UpperHexChar(d)) = d
  <2>1. CASE d < 10
    BY <2>1 DEF UpperHexChar, hex_digit_safe, Digits
  <2>2. CASE ~(d < 10)
    BY <2>2 DEF UpperHexChar, hex_digit_safe, Digits
  <2> QED
    BY <2>1, <2>2
<1>2. ASSUME NEW c PROVE hex_digit_safe(c) \in -1 .. 15
  <2>1. CASE c \in 48 .. 57
    BY <2>1 DEF hex_digit_safe, Digits
  <2>2. CASE c \in 97 .. 102
    BY <2>2 DEF hex_digit_safe, Digits
  <2>3. CASE c \in 65 .. 70
    BY <2>3 DEF hex_digit_safe, Digits
  <2>4. CASE c \notin 48 .. 57 /\ c \notin 97 .. 102 /\ c \notin 65 .. 70
    <3>1. hex_digit_safe(c) = -1
      BY <2>4 DEF hex_digit_safe, Digits
    <3> QED
      BY <3>1
  <2> QED
    BY <2>1, <2>2, <2>3, <2>4
<1> QED
  BY <1>1, <1>2

\* A turn of the decoding loop leaves one of its states, whatever the text says.
LEMMA DecodeTurnTyped ==
    ASSUME NEW txt \in Seq(0 .. 255), NEW s \in DecodeStates, NEW policy, NEW chars
    PROVE  decode_turn(s, chars, policy, txt) \in DecodeStates
<1> DEFINE B == 0 .. 255
           h == hex_digit_safe(txt[s.pos + 1])
           l == hex_digit_safe(txt[s.pos + 2])
           x == (16 * h + l) % 256
           failed == [s EXCEPT !.ok = FALSE]
           Onward(n, c) == [s EXCEPT !.pos = @ + n, !.out = Append(@, c)]
<1>1. s.pos \in Nat \ {0} /\ s.out \in Seq(B) /\ s.ok \in BOOLEAN
  BY DEF DecodeStates
<1>2. x \in B
  <2>1. h \in -1 .. 15 /\ l \in -1 .. 15
    BY HexRead
  <2> HIDE DEF h, l
  <2> QED
    BY <2>1
<1>3. failed \in DecodeStates
  BY DEF DecodeStates
<1>4. ASSUME NEW n \in {1, 3}, NEW c \in B PROVE Onward(n, c) \in DecodeStates
  <2>1. s.pos + n \in Nat \ {0}
    BY <1>1
  <2>2. Append(s.out, c) \in Seq(B)
    BY <1>1
  <2> DEFINE np == s.pos + n
             no == Append(s.out, c)
             P == Nat \ {0}
             O == Seq(B)
  <2>3. s \in [pos : P, out : O, ok : BOOLEAN] /\ np \in P /\ no \in O
    BY <2>1, <2>2 DEF DecodeStates
  <2>4. [s EXCEPT !.pos = np, !.out = no] \in [pos : P, out : O, ok : BOOLEAN]
    <3> HIDE DEF np, no, P, O
    <3> QED
      BY <2>3
  <2> QED
    BY <2>4 DEF DecodeStates
<1>5. ASSUME s.pos <= Len(txt) PROVE txt[s.pos] \in B
  <2>1. s.pos \in 1 .. Len(txt)
    BY <1>1, <1>5
  <2>2. txt \in Seq(B)
    OBVIOUS
  <2> HIDE DEF B
  <2> QED
    BY <2>1, <2>2
<1>6. decode_step(s, chars, policy, txt) \in {failed, Onward(1, txt[s.pos]), Onward(3, x)}
  BY Zenon DEF decode_step
<1>7. decode_step(s, chars, policy, txt) = Onward(1, txt[s.pos]) => txt[s.pos] \in B \/ ~(s.pos <= Len(txt))
  BY <1>5
<1> HIDE DEF failed, Onward, x, B
<1>8. s.pos <= Len(txt) => decode_step(s, chars, policy, txt) \in DecodeStates
  <2>1. s.pos <= Len(txt) => Onward(1, txt[s.pos]) \in DecodeStates
    BY <1>4, <1>5
  <2>2. Onward(3, x) \in DecodeStates
    BY <1>2, <1>4
  <2> QED
    BY <1>3, <1>6, <2>1, <2>2
<1> QED
  BY <1>8 DEF decode_turn

\* The loop of decode_uri_component has its states, from the first on.
LEMMA DecodeTurns ==
    ASSUME NEW txt \in Seq(0 .. 255), NEW policy, NEW chars
    PROVE  \E d : /\ d[0] = DecodeStart
                  /\ \A n \in 1 .. Len(txt) : d[n] = decode_turn(d[n - 1], chars, policy, txt)
                  /\ decode_uri_component(txt, policy, chars) = d[Len(txt)]
<1> DEFINE N == Len(txt)
           F == [n \in 1 .. N |-> [s \in DecodeStates |-> decode_turn(s, chars, policy, txt)]]
           Is(g) == g = [n \in 0 .. N |-> IF n = 0 THEN DecodeStart ELSE decode_turn(g[n - 1], chars, policy, txt)]
           d == CHOOSE g : Is(g)
<1>1. decode_uri_component(txt, policy, chars) = d[N]
  BY DEF decode_uri_component, DecodeStart
<1>2. N \in Nat
  OBVIOUS
<1>3. DecodeStart \in DecodeStates
  <2>1. <<>> \in Seq(0 .. 255)
    OBVIOUS
  <2> QED
    BY <2>1 DEF DecodeStart, DecodeStates
<1>4. \A s \in DecodeStates : decode_turn(s, chars, policy, txt) \in DecodeStates
  BY DecodeTurnTyped
<1> HIDE DEF N
<1>5. F \in [1 .. N -> [DecodeStates -> DecodeStates]]
  BY <1>4
<1>6. \A n \in 1 .. N : \A s \in DecodeStates : F[n][s] = decode_turn(s, chars, policy, txt)
  OBVIOUS
<1> HIDE DEF F
<1>7. PICK f \in [0 .. N -> DecodeStates] : f[0] = DecodeStart /\ \A n \in 1 .. N : f[n] = F[n][f[n - 1]]
  <2>1. \E g : g \in TurnsOf(N, DecodeStates, DecodeStart, F)
    BY <1>2, <1>3, <1>5, TurnsExist
  <2> QED
    BY <2>1 DEF TurnsOf
<1>8. \A n \in 1 .. N : f[n - 1] \in DecodeStates
  BY <1>2, <1>7
<1>9. \A n \in 1 .. N : f[n] = decode_turn(f[n - 1], chars, policy, txt)
  BY <1>6, <1>7, <1>8
<1>10. \A n \in 0 .. N : f[n] = IF n = 0 THEN DecodeStart ELSE decode_turn(f[n - 1], chars, policy, txt)
  <2>1. \A n \in 0 .. N : n = 0 \/ n \in 1 .. N
    BY <1>2
  <2> QED
    BY <2>1, <1>7, <1>9
<1>11. Is(f)
  BY <1>7, <1>10
<1>12. Is(d)
  <2> HIDE DEF Is
  <2> QED
    BY <1>11
<1> HIDE DEF d
<1>13. \A n \in 0 .. N : d[n] = IF n = 0 THEN DecodeStart ELSE decode_turn(d[n - 1], chars, policy, txt)
  BY <1>12
<1>14. d[0] = DecodeStart
  BY <1>2, <1>13
<1>15. ASSUME NEW n \in 1 .. N PROVE d[n] = decode_turn(d[n - 1], chars, policy, txt)
  <2>1. n \in 0 .. N /\ n # 0
    BY <1>2
  <2> QED
    BY <1>13, <2>1
<1> QED
  BY <1>1, <1>14, <1>15 DEF N

\* An octet is the number of its two hexadecimal digits, and stays itself in a
\* char of eight bits.
LEMMA OctetDigits ==
    \A c \in 0 .. 255 : /\ c \div 16 \in 0 .. 15 /\ c % 16 \in 0 .. 15
                         /\ 16 * (c \div 16) + (c % 16) = c /\ c % 256 = c
  OBVIOUS

\* What a turn leaves, field by field.
LEMMA StateChanged ==
    ASSUME NEW s \in DecodeStates, NEW n \in Nat \ {0}, NEW o \in Seq(0 .. 255)
    PROVE  [s EXCEPT !.pos = n, !.out = o] = [pos |-> n, out |-> o, ok |-> s.ok]
<1> DEFINE P == Nat \ {0}
           O == Seq(0 .. 255)
           r == [s EXCEPT !.pos = n, !.out = o]
           q == [pos |-> n, out |-> o, ok |-> s.ok]
<1>1. s \in [pos : P, out : O, ok : BOOLEAN] /\ n \in P /\ o \in O
  BY DEF DecodeStates
<1> HIDE DEF P, O
<1>2. r.pos = n /\ r.out = o /\ r.ok = s.ok
  BY <1>1
<1>3. q.pos = n /\ q.out = o /\ q.ok = s.ok
  OBVIOUS
<1>4. r \in [pos : P, out : O, ok : BOOLEAN] /\ q \in [pos : P, out : O, ok : BOOLEAN]
  BY <1>1
<1> HIDE DEF r, q
<1>5. r = q
  BY <1>2, <1>3, <1>4
<1> QED
  BY <1>5 DEF r, q

\* What encode_uri_component writes of a character.
PartOf(c, policy, chars) == IF Stays(c, policy, chars) THEN <<c>> ELSE to_percent_hex(c)

\* part stands in w from place p on.
StandsAt(part, w, p) ==
    /\ p + Len(part) - 1 <= Len(w)
    /\ \A i \in 1 .. Len(part) : w[p - 1 + i] = part[i]

\* What the loop has when it is at place p and has read o.
Reading(p, o) == [pos |-> p, out |-> o, ok |-> TRUE]

\* Texts of octets, and places in texts.
OctetTexts == Seq(Octets)
Places == Nat \ {0}

\* One turn reads what encode_uri_component wrote of one character c.
LEMMA DecodeTurnReads ==
    ASSUME NEW w \in OctetTexts, NEW p \in Places, NEW o \in OctetTexts, NEW c \in Octets,
           NEW policy, NEW chars,
           ~Stays(PercentChar, policy, chars),
           StandsAt(PartOf(c, policy, chars), w, p)
    PROVE  decode_turn(Reading(p, o), chars, policy, w) = Reading(p + Len(PartOf(c, policy, chars)), Append(o, c))
<1> DEFINE part == PartOf(c, policy, chars)
<1>0. /\ part = IF Stays(c, policy, chars) THEN <<c>> ELSE to_percent_hex(c)
      /\ p + Len(part) - 1 <= Len(w)
      /\ \A i \in 1 .. Len(part) : w[p - 1 + i] = part[i]
  BY DEF PartOf, StandsAt
<1> HIDE DEF part
<1> USE DEF OctetTexts, Octets, Places
<1> DEFINE s == [pos |-> p, out |-> o, ok |-> TRUE]
           B == 0 .. 255
           Onward(n, e) == [s EXCEPT !.pos = @ + n, !.out = Append(@, e)]
           h == hex_digit_safe(w[s.pos + 1])
           l == hex_digit_safe(w[s.pos + 2])
<1>1. s.pos = p /\ s.out = o /\ s.ok = TRUE
  OBVIOUS
<1>2. ASSUME NEW n \in {1, 3} PROVE Onward(n, c) = [pos |-> p + n, out |-> Append(o, c), ok |-> TRUE]
  <2> DEFINE np == p + n
             no == Append(o, c)
  <2>1. np \in Nat \ {0}
    OBVIOUS
  <2>2. no \in Seq(B)
    <3>1. o \in Seq(B) /\ c \in B
      OBVIOUS
    <3> HIDE DEF B
    <3> QED
      BY <3>1
  <2>3. Onward(n, c) = [s EXCEPT !.pos = np, !.out = no]
    BY <1>1
  <2>4. s \in DecodeStates
    BY DEF DecodeStates
  <2> HIDE DEF np, no, Onward, s
  <2>5. [s EXCEPT !.pos = np, !.out = no] = [pos |-> np, out |-> no, ok |-> s.ok]
    BY <2>1, <2>2, <2>4, StateChanged
  <2> QED
    BY <1>1, <2>3, <2>5 DEF np, no
<1> HIDE DEF Onward
<1>3. ASSUME Len(part) \in {1, 3}
      PROVE  decode_turn(s, chars, policy, w) = decode_step(s, chars, policy, w)
  <2>1. p <= Len(w)
    <3> DEFINE n == Len(part)
               m == Len(w)
    <3>1. n \in {1, 3} /\ m \in Nat /\ p + n - 1 <= m
      BY <1>0, <1>3
    <3> HIDE DEF n, m
    <3> QED
      BY <3>1 DEF m
  <2> QED
    BY <1>1, <2>1 DEF decode_turn
<1>4. CASE Stays(c, policy, chars)
  <2>1. part = <<c>> /\ Len(part) = 1 /\ part[1] = c
    BY <1>0, <1>4
  <2>2. w[p] = c
    <3>1. w[p - 1 + 1] = part[1] /\ p - 1 + 1 = p
      BY <1>0, <2>1
    <3> QED
      BY <2>1, <3>1
  <2>3. c # PercentChar
    BY <1>4
  <2>4. decode_step(s, chars, policy, w) = Onward(1, c)
    BY <1>1, <1>4, <2>2, <2>3, Zenon DEF decode_step, Onward
  <2> QED
    <3>1. Len(part) = 1
      BY <2>1
    <3>2. decode_step(s, chars, policy, w) = [pos |-> p + 1, out |-> Append(o, c), ok |-> TRUE]
      BY <1>2, <2>4
    <3>3. decode_turn(s, chars, policy, w) = decode_step(s, chars, policy, w)
      BY <1>3, <3>1
    <3> QED
      BY <3>1, <3>2, <3>3 DEF part, Reading
<1>5. CASE ~Stays(c, policy, chars)
  <2>1. part = <<PercentChar, UpperHexChar(c \div 16), UpperHexChar(c % 16)>>
    BY <1>0, <1>5 DEF to_percent_hex
  <2>2. /\ Len(part) = 3 /\ part[1] = PercentChar
        /\ part[2] = UpperHexChar(c \div 16) /\ part[3] = UpperHexChar(c % 16)
    BY <2>1
  <2>3. /\ 1 \in 1 .. Len(part) /\ 2 \in 1 .. Len(part) /\ 3 \in 1 .. Len(part)
        /\ p - 1 + 1 = p /\ p - 1 + 2 = p + 1 /\ p - 1 + 3 = p + 2
    BY <2>2
  <2>4. w[p] = PercentChar /\ w[p + 1] = UpperHexChar(c \div 16) /\ w[p + 2] = UpperHexChar(c % 16)
    <3>1. w[p - 1 + 1] = part[1] /\ w[p - 1 + 2] = part[2] /\ w[p - 1 + 3] = part[3]
      BY <1>0, <2>3
    <3> QED
      BY <2>2, <2>3, <3>1
  <2>5. c \div 16 \in 0 .. 15 /\ c % 16 \in 0 .. 15 /\ 16 * (c \div 16) + (c % 16) = c
    BY OctetDigits
  <2>6. h = c \div 16 /\ l = c % 16
    BY <1>1, <2>4, <2>5, HexRead
  <2>7. (16 * h + l) % 256 = c /\ ~(l = -1) /\ ~(16 * h + l = -1)
    <3>1. (16 * (c \div 16) + (c % 16)) % 256 = c
      <4>1. c % 256 = c
        BY OctetDigits
      <4> QED
        BY <2>5, <4>1
    <3>2. ~(c % 16 = -1) /\ ~(16 * (c \div 16) + (c % 16) = -1)
      BY <2>5
    <3> HIDE DEF h, l
    <3> QED
      BY <2>6, <3>1, <3>2
  <2>8. ~(s.pos > Len(w) - 2)
    <3> DEFINE m == Len(w)
    <3>1. m \in Nat /\ p + 3 - 1 <= m
      BY <1>0, <2>2
    <3> HIDE DEF m
    <3>2. ~(p > m - 2)
      BY <3>1
    <3> QED
      BY <1>1, <3>2 DEF m
  <2> HIDE DEF h, l
  <2>9. decode_step(s, chars, policy, w)
          = IF w[s.pos] # PercentChar
              THEN IF Stays(w[s.pos], policy, chars) THEN Onward(1, w[s.pos]) ELSE [s EXCEPT !.ok = FALSE]
            ELSE IF s.pos > Len(w) - 2 THEN [s EXCEPT !.ok = FALSE]
            ELSE IF l = -1 \/ 16 * h + l = -1 THEN [s EXCEPT !.ok = FALSE]
            ELSE Onward(3, (16 * h + l) % 256)
    BY Zenon DEF decode_step, Onward, h, l
  <2>10. decode_step(s, chars, policy, w) = Onward(3, c)
    <3> HIDE DEF s
    <3> QED
      BY <1>1, <2>4, <2>7, <2>8, <2>9, Zenon
  <2> QED
    <3>1. Len(part) = 3
      BY <2>2
    <3>2. decode_step(s, chars, policy, w) = [pos |-> p + 3, out |-> Append(o, c), ok |-> TRUE]
      BY <1>2, <2>10
    <3>3. decode_turn(s, chars, policy, w) = decode_step(s, chars, policy, w)
      BY <1>3, <3>1
    <3> QED
      BY <3>1, <3>2, <3>3 DEF part, Reading
<1> QED
  BY <1>4, <1>5 DEF part

\* The parts encode_uri_component writes, one for each character.
Written(txt, policy, chars) ==
    [i \in DOMAIN txt |-> PartOf(txt[i], policy, chars)]

\* They are sequences of octets, none empty.
LEMMA WrittenTyped ==
    ASSUME NEW txt \in Seq(0 .. 255), NEW policy, NEW chars
    PROVE  /\ Written(txt, policy, chars) \in Seq(Seq(0 .. 255))
           /\ Len(Written(txt, policy, chars)) = Len(txt)
           /\ \A n \in 1 .. Len(txt) :
                 /\ Written(txt, policy, chars)[n] # <<>>
                 /\ Written(txt, policy, chars)[n] = PartOf(txt[n], policy, chars)
<1> DEFINE B == 0 .. 255
           T == Seq(B)
           Part(c) == PartOf(c, policy, chars)
           ps == Written(txt, policy, chars)
           N == Len(txt)
<1>1. ASSUME NEW c \in B PROVE Part(c) \in T /\ Part(c) # <<>>
  <2>1. CASE Stays(c, policy, chars)
    <3>1. <<c>> \in Seq(B)
      <4> HIDE DEF B
      <4> QED
        OBVIOUS
    <3> QED
      BY <2>1, <3>1 DEF PartOf
  <2>2. CASE ~Stays(c, policy, chars)
    <3>1. c \div 16 \in 0 .. 15 /\ c % 16 \in 0 .. 15 /\ PercentChar \in B
      BY DEF PercentChar
    <3>2. UpperHexChar(c \div 16) \in B /\ UpperHexChar(c % 16) \in B
      BY <3>1, HexRead
    <3>3. to_percent_hex(c) \in Seq(B) /\ to_percent_hex(c) # <<>>
      <4> HIDE DEF B
      <4> QED
        BY <3>1, <3>2 DEF to_percent_hex
    <3> QED
      BY <2>2, <3>3 DEF PartOf
  <2> QED
    BY <2>1, <2>2
<1>2. N \in Nat /\ DOMAIN txt = 1 .. N /\ \A n \in 1 .. N : txt[n] \in B
  <2>1. txt \in Seq(B)
    OBVIOUS
  <2> HIDE DEF B
  <2> QED
    BY <2>1
<1>3. ps = [n \in 1 .. N |-> Part(txt[n])]
  BY <1>2 DEF Written
<1> HIDE DEF Part, B, T, ps, N
<1>4. ps \in [1 .. N -> T]
  BY <1>1, <1>2, <1>3
<1>5. ps \in Seq(T) /\ Len(ps) = N
  BY <1>2, <1>4
<1>6. \A n \in 1 .. N : ps[n] # <<>> /\ ps[n] = Part(txt[n])
  BY <1>1, <1>2, <1>3
<1> QED
  BY <1>5, <1>6 DEF Part, B, T, ps, N


\* decode_uri_component undoes encode_uri_component (uri/encoding.hpp), for
\* every text of octets and every set of characters that stay as they are,
\* the percent sign not among them.
THEOREM PercentRoundTrip ==
    ASSUME NEW txt \in Seq(0 .. 255), NEW policy, NEW chars
    PROVE  DecodesEncoded(txt, policy, chars)
<1> DEFINE B == 0 .. 255
           ps == Written(txt, policy, chars)
           w == encode_uri_component(txt, policy, chars)
           at == Chain(ps)
           M == Len(txt)
           L == Len(w)
           State(k) == [pos |-> Len(at[k]) + 1, out |-> SubSeq(txt, 1, k), ok |-> TRUE]
<1>1. SUFFICES ASSUME ~Stays(PercentChar, policy, chars)
               PROVE  decode_uri_component(w, policy, chars) = [pos |-> L + 1, out |-> txt, ok |-> TRUE]
  BY DEF DecodesEncoded
<1>2. /\ ps \in Seq(Seq(B)) /\ Len(ps) = M
      /\ \A n \in 1 .. M : /\ ps[n] # <<>>
                           /\ ps[n] = PartOf(txt[n], policy, chars)
  BY WrittenTyped
<1>3. w = Chained(ps)
  BY DEF encode_uri_component, Written, PartOf
<1>4. M \in Nat /\ txt \in Seq(B) /\ \A n \in 1 .. M : txt[n] \in B
  <2>1. txt \in Seq(B)
    OBVIOUS
  <2> HIDE DEF B
  <2> QED
    BY <2>1
<1> HIDE DEF ps
<1>5. /\ w \in Seq(B) /\ w = at[M]
      /\ \A n \in 0 .. M : Len(at[n]) \in Nat /\ n <= Len(at[n])
  <2> HIDE DEF B, w
  <2> QED
    BY <1>2, <1>3, ChainLong
<1>6. \A n \in 1 .. M : /\ Len(ps[n]) \in Nat
                        /\ Len(at[n]) = Len(at[n - 1]) + Len(ps[n])
                        /\ Len(at[n]) <= L
                        /\ \A i \in 1 .. Len(ps[n]) : w[Len(at[n - 1]) + i] = ps[n][i]
  <2> HIDE DEF B, w
  <2>1. ASSUME NEW n \in 1 .. M
        PROVE  /\ Len(ps[n]) \in Nat
               /\ Len(at[n]) = Len(at[n - 1]) + Len(ps[n])
               /\ Len(at[n]) <= Len(Chained(ps))
               /\ \A i \in 1 .. Len(ps[n]) : Chained(ps)[Len(at[n - 1]) + i] = ps[n][i]
    <3>1. n \in 1 .. Len(ps)
      BY <1>2
    <3> QED
      BY <1>2, <3>1, PartInChain
  <2> QED
    BY <1>3, <2>1
<1>7. at[0] = <<>> /\ Len(at[0]) = 0
  <2>1. Len(<<>>) = 0
    OBVIOUS
  <2> HIDE DEF B, w
  <2>2. at[0] = <<>>
    BY <1>2, ChainTurns
  <2> QED
    BY <2>1, <2>2
<1>8. L \in Nat /\ M <= L /\ L = Len(at[M])
  BY <1>4, <1>5
<1> HIDE DEF B, w, at, M, L
<1>9. PICK d : /\ d[0] = DecodeStart
               /\ \A n \in 1 .. L : d[n] = decode_turn(d[n - 1], chars, policy, w)
               /\ decode_uri_component(w, policy, chars) = d[L]
  <2>1. w \in Seq(0 .. 255)
    BY <1>5 DEF B
  <2>2. \E d : /\ d[0] = DecodeStart
               /\ \A n \in 1 .. Len(w) : d[n] = decode_turn(d[n - 1], chars, policy, w)
               /\ decode_uri_component(w, policy, chars) = d[Len(w)]
    BY <2>1, DecodeTurns
  <2> QED
    BY <2>2 DEF L
<1>10. \A k \in 0 .. M : SubSeq(txt, 1, k) \in Seq(B)
  BY <1>4 DEF M
<1>11. \A k \in 0 .. M - 1 : SubSeq(txt, 1, k + 1) = Append(SubSeq(txt, 1, k), txt[k + 1])
  BY <1>4 DEF M
<1>12. SubSeq(txt, 1, M) = txt /\ SubSeq(txt, 1, 0) = <<>>
  BY <1>4 DEF M
<1> DEFINE G == {k \in 0 .. M : d[k] = State(k)}
<1>13. 0 \in G
  <2>1. State(0) = DecodeStart
    <3>1. Len(at[0]) + 1 = 1
      BY <1>7
    <3> QED
      BY <1>12, <3>1 DEF DecodeStart
  <2> HIDE DEF State
  <2> QED
    BY <1>4, <1>9, <2>1
<1>14. ASSUME NEW k \in 0 .. M - 1, k \in G PROVE k + 1 \in G
  <2> DEFINE p == Len(at[k]) + 1
             o == SubSeq(txt, 1, k)
             c == txt[k + 1]
             part == ps[k + 1]
  <2>1. k + 1 \in 1 .. M /\ k + 1 \in 0 .. M /\ (k + 1) - 1 = k /\ k \in 0 .. M /\ k + 1 \in 1 .. L
    BY <1>4, <1>8
  <2>2. d[k] = [pos |-> p, out |-> o, ok |-> TRUE]
    BY <1>14
  <2>3. p \in Nat \ {0} /\ p - 1 = Len(at[k])
    BY <1>5, <2>1
  <2>4. o \in Seq(B) /\ c \in B
    BY <1>4, <1>10, <2>1
  <2>5. part = PartOf(c, policy, chars)
    BY <1>2, <2>1
  <2>6. /\ Len(part) \in Nat /\ Len(at[k + 1]) = Len(at[k]) + Len(part) /\ Len(at[k + 1]) <= L
        /\ \A i \in 1 .. Len(part) : w[Len(at[k]) + i] = part[i]
    BY <1>6, <2>1
  <2> HIDE DEF p, o, c, part
  <2>7. p + Len(part) - 1 <= L /\ Len(at[k + 1]) + 1 = p + Len(part)
    <3> DEFINE a == Len(at[k])
               b == Len(part)
    <3>1. Len(at[k + 1]) = a + b /\ a + b <= L /\ p \in Nat /\ p - 1 = a /\ b \in Nat /\ a \in Nat
      BY <1>5, <2>1, <2>3, <2>6
    <3> HIDE DEF a, b
    <3>2. p + b - 1 <= L /\ a + b + 1 = p + b
      BY <1>8, <3>1
    <3> QED
      BY <3>1, <3>2 DEF b
  <2>8. \A i \in 1 .. Len(part) : w[p - 1 + i] = part[i]
    BY <2>3, <2>6
  <2>9. decode_turn([pos |-> p, out |-> o, ok |-> TRUE], chars, policy, w)
          = [pos |-> p + Len(part), out |-> Append(o, c), ok |-> TRUE]
    <3>1. w \in OctetTexts /\ p \in Places /\ o \in OctetTexts /\ c \in Octets
      BY <1>5, <2>3, <2>4 DEF B, OctetTexts, Octets, Places
    <3>2. p + Len(part) - 1 <= Len(w)
      BY <2>7 DEF L
    <3> QED
      <4> DEFINE q == PartOf(c, policy, chars)
      <4>1. StandsAt(q, w, p)
        BY <2>5, <2>8, <3>2 DEF StandsAt
      <4>2. decode_turn(Reading(p, o), chars, policy, w) = Reading(p + Len(q), Append(o, c))
        BY <1>1, <3>1, <4>1, DecodeTurnReads
      <4> QED
        BY <2>5, <4>2 DEF Reading
  <2>10. d[k + 1] = decode_turn(d[k], chars, policy, w)
    BY <1>9, <2>1
  <2>11. Append(o, c) = SubSeq(txt, 1, k + 1)
    BY <1>11 DEF o, c
  <2>12. d[k + 1] = State(k + 1)
    BY <2>2, <2>7, <2>9, <2>10, <2>11
  <2> QED
    BY <2>1, <2>12
<1>15. d[M] = [pos |-> L + 1, out |-> txt, ok |-> TRUE]
  <2>1. 0 .. M \subseteq G
    <3> HIDE DEF G
    <3> QED
      BY <1>4, <1>13, <1>14, CountingTo
  <2>2. M \in 0 .. M
    BY <1>4
  <2>3. d[M] = State(M)
    BY <2>1, <2>2
  <2> QED
    BY <1>8, <1>12, <2>3
<1> DEFINE End == [pos |-> L + 1, out |-> txt, ok |-> TRUE]
           H == {k \in 0 .. L - M : d[M + k] = End}
<1>16. 0 \in H
  BY <1>4, <1>8, <1>15
<1>17. ASSUME NEW k \in 0 .. L - M - 1, k \in H PROVE k + 1 \in H
  <2>1. M + k + 1 \in 1 .. L /\ (M + k + 1) - 1 = M + k /\ M + (k + 1) = M + k + 1 /\ k + 1 \in 0 .. L - M
    BY <1>4, <1>8
  <2>2. d[M + k + 1] = decode_turn(d[M + k], chars, policy, w)
    BY <1>9, <2>1
  <2>3. d[M + k] = End
    BY <1>17
  <2>4. ~(End.pos <= L)
    BY <1>8
  <2>5. decode_turn(End, chars, policy, w) = End
    <3> HIDE DEF End
    <3> QED
      BY <2>4 DEF decode_turn, L
  <2> QED
    BY <2>1, <2>2, <2>3, <2>5
<1>18. d[L] = End
  <2>1. L - M \in Nat
    BY <1>4, <1>8
  <2>2. 0 .. L - M \subseteq H
    <3> HIDE DEF H
    <3> QED
      BY <1>16, <1>17, <2>1, CountingTo
  <2>3. L - M \in 0 .. L - M /\ M + (L - M) = L
    BY <1>4, <1>8, <2>1
  <2>4. d[M + (L - M)] = End
    BY <2>2, <2>3
  <2> HIDE DEF End
  <2> QED
    BY <2>3, <2>4
<1> QED
  BY <1>9, <1>18

-----------------------------------------------------------------------------
\* Whatever the texts start with and grow by, if it consists of octets.
TextTyped ==
    /\ reader \in DOMAIN Readings
    /\ reader = "percent" => text \in Seq(Octets)
    /\ reader = "code points" => text \in Seq(CodePoint)

\* Every text that is read consists of octets, or of code points.
LEMMA TextsTyped == TextSpec => []TextTyped
<1>1. TextInit => TextTyped
  BY TextsAssumption DEF TextInit, TextTyped
<1>2. TextTyped /\ [Grow]_text_vars => TextTyped'
  <2> SUFFICES ASSUME TextTyped, [Grow]_text_vars
               PROVE  TextTyped'
    OBVIOUS
  <2>1. CASE Grow
    <3>1. PICK p \in Readings[reader].pieces : text' = text \o p
      BY <2>1 DEF Grow
    <3>2. reader' = reader
      BY <2>1 DEF Grow
    <3>3. ASSUME reader = "percent" PROVE text \o p \in Seq(Octets)
      <4>1. text \in Seq(Octets) /\ reader \in DOMAIN Readings
        BY <3>3 DEF TextTyped
      <4>2. p \in Seq(Octets)
        BY <3>3, <4>1, TextsAssumption
      <4> QED
        BY <4>1, <4>2
    <3>4. ASSUME reader = "code points" PROVE text \o p \in Seq(CodePoint)
      <4>1. text \in Seq(CodePoint) /\ reader \in DOMAIN Readings
        BY <3>4 DEF TextTyped
      <4>2. p \in Seq(CodePoint)
        BY <3>4, <4>1, TextsAssumption
      <4> QED
        BY <4>1, <4>2
    <3> QED
      BY <3>1, <3>2, <3>3, <3>4 DEF TextTyped
  <2>2. CASE UNCHANGED text_vars
    BY <2>2 DEF text_vars, TextTyped
  <2> QED
    BY <2>1, <2>2
<1> QED
  BY <1>1, <1>2, PTL DEF TextSpec

\* decode_uri_component undoes encode_uri_component, with the two sets of
\* characters of uri_string.hpp and of any length of text.
THEOREM PercentDecodesAll == TextSpec => []PercentDecodes
<1>1. TextTyped => PercentDecodes
  BY PercentRoundTrip DEF TextTyped, PercentDecodes, Octets
<1> QED
  BY <1>1, TextsTyped, PTL
-----------------------------------------------------------------------------
\* A code point as append writes it: its units are octets, the first says how
\* many, and the others are trailing units.
LEMMA Appended ==
    ASSUME NEW cp \in CodePoint
    PROVE  /\ cp < 128 => AppendUtf8(cp) = <<cp>>
           /\ cp >= 128 /\ cp <= 2047 => AppendUtf8(cp) = <<192 + cp \div 64, 128 + (cp % 64)>>
           /\ cp >= 2048 /\ cp <= 65535 =>
                AppendUtf8(cp) = <<224 + cp \div 4096, 128 + ((cp \div 64) % 64), 128 + (cp % 64)>>
           /\ cp > 65535 =>
                AppendUtf8(cp) = <<240 + cp \div 262144, 128 + ((cp \div 4096) % 64),
                                   128 + ((cp \div 64) % 64), 128 + (cp % 64)>>
  BY DEF CodePoint, AppendUtf8

\* How many units it takes.
LEMMA AppendedLength ==
    ASSUME NEW cp \in CodePoint
    PROVE  /\ cp \in Nat
           /\ AppendUtf8(cp) \in Seq(Octets) /\ AppendUtf8(cp) # <<>>
           /\ Len(AppendUtf8(cp)) = IF cp < 128 THEN 1 ELSE IF cp < 2048 THEN 2 ELSE IF cp < 65536 THEN 3 ELSE 4
<1>0. cp \in Nat /\ cp < 17 * 65536
  BY DEF CodePoint
<1>1. CASE cp < 128
  <2>1. cp \in 0 .. 255
    BY <1>0, <1>1
  <2>2. AppendUtf8(cp) = <<cp>>
    BY <1>0, <1>1, Appended
  <2>3. cp \in Octets
    BY <2>1 DEF Octets
  <2>4. <<cp>> \in Seq(Octets) /\ <<cp>> # <<>> /\ Len(<<cp>>) = 1
    BY <2>3
  <2> QED
    BY <1>0, <1>1, <2>2, <2>4
<1>2. CASE cp >= 128 /\ cp <= 2047
  <2> DEFINE a == 192 + cp \div 64
             b == 128 + (cp % 64)
  <2>1. a \in 0 .. 255 /\ b \in 0 .. 255
    BY <1>0, <1>2
  <2>2. AppendUtf8(cp) = <<a, b>>
    BY <1>0, <1>2, Appended
  <2> HIDE DEF a, b
  <2>3. a \in Octets /\ b \in Octets
    BY <2>1 DEF Octets
  <2>4. <<a, b>> \in Seq(Octets) /\ <<a, b>> # <<>> /\ Len(<<a, b>>) = 2
    BY <2>3
  <2> QED
    BY <1>0, <1>2, <2>2, <2>4
<1>3. CASE cp >= 2048 /\ cp <= 65535
  <2> DEFINE a == 224 + cp \div 4096
             b == 128 + ((cp \div 64) % 64)
             c == 128 + (cp % 64)
  <2>1. a \in 0 .. 255 /\ b \in 0 .. 255 /\ c \in 0 .. 255
    BY <1>0, <1>3
  <2>2. AppendUtf8(cp) = <<a, b, c>>
    BY <1>0, <1>3, Appended
  <2> HIDE DEF a, b, c
  <2>3. a \in Octets /\ b \in Octets /\ c \in Octets
    BY <2>1 DEF Octets
  <2>4. <<a, b, c>> \in Seq(Octets) /\ <<a, b, c>> # <<>> /\ Len(<<a, b, c>>) = 3
    BY <2>3
  <2> QED
    BY <1>0, <1>3, <2>2, <2>4
<1>4. CASE cp > 65535
  <2> DEFINE a == 240 + cp \div 262144
             b == 128 + ((cp \div 4096) % 64)
             c == 128 + ((cp \div 64) % 64)
             e == 128 + (cp % 64)
  <2>1. a \in 0 .. 255 /\ b \in 0 .. 255 /\ c \in 0 .. 255 /\ e \in 0 .. 255
    BY <1>0, <1>4
  <2>2. AppendUtf8(cp) = <<a, b, c, e>>
    BY <1>0, <1>4, Appended
  <2> HIDE DEF a, b, c, e
  <2>3. a \in Octets /\ b \in Octets /\ c \in Octets /\ e \in Octets
    BY <2>1 DEF Octets
  <2>4. <<a, b, c, e>> \in Seq(Octets) /\ <<a, b, c, e>> # <<>> /\ Len(<<a, b, c, e>>) = 4
    BY <2>3
  <2> QED
    BY <1>0, <1>4, <2>2, <2>4
<1> QED
  BY <1>0, <1>1, <1>2, <1>3, <1>4

\* The units of a part that stands in a text, place by place.
LEMMA PartUnits ==
    ASSUME NEW w \in OctetTexts, NEW p \in Places, NEW u, Len(u) \in 1 .. 4, StandsAt(u, w, p)
    PROVE  /\ Len(w) \in Nat /\ p + Len(u) - 1 <= Len(w)
           /\ w[p] = u[1]
           /\ Len(u) >= 2 => w[p + 1] = u[2]
           /\ Len(u) >= 3 => w[p + 2] = u[3]
           /\ Len(u) = 4 => w[p + 3] = u[4]
<1>1. Len(w) \in Nat
  BY DEF OctetTexts
<1>2. p + Len(u) - 1 <= Len(w) /\ \A i \in 1 .. Len(u) : w[p - 1 + i] = u[i]
  BY DEF StandsAt
<1>3. p - 1 + 1 = p /\ p - 1 + 2 = p + 1 /\ p - 1 + 3 = p + 2 /\ p - 1 + 4 = p + 3
  BY DEF Places
<1> DEFINE n == Len(u)
<1>4. n \in 1 .. 4
  OBVIOUS
<1>5. \A i \in 1 .. n : w[p - 1 + i] = u[i]
  BY <1>2
<1> HIDE DEF n
<1>6. w[p - 1 + 1] = u[1] /\ (n >= 2 => w[p - 1 + 2] = u[2]) /\ (n >= 3 => w[p - 1 + 3] = u[3])
      /\ (n = 4 => w[p - 1 + 4] = u[4])
  BY <1>4, <1>5
<1> QED
  BY <1>1, <1>2, <1>3, <1>6 DEF n

\* What the first unit and the units that follow it say.
LEMMA UnitsTold ==
    ASSUME NEW cp \in CodePoint, NEW u, u = AppendUtf8(cp)
    PROVE  /\ LeadLength(u[1]) = Len(u) /\ required_length_of(u[1]) = Len(u) /\ u[1] \notin Trail
           /\ Len(u) = 1 => u[1] = cp
           /\ Len(u) = 2 => /\ LeadBits(u[1], 2) \in Nat /\ u[2] \in Trail
                            /\ LeadBits(u[1], 2) * 64 + (u[2] % 64) = cp
           /\ Len(u) = 3 => /\ LeadBits(u[1], 3) \in Nat /\ u[2] \in Trail /\ u[3] \in Trail
                            /\ LeadBits(u[1], 3) * 4096 + (u[2] % 64) * 64 + (u[3] % 64) = cp
           /\ Len(u) = 4 => /\ LeadBits(u[1], 4) \in Nat /\ u[2] \in Trail /\ u[3] \in Trail /\ u[4] \in Trail
                            /\ LeadBits(u[1], 4) * 262144 + (u[2] % 64) * 4096 + (u[3] % 64) * 64 + (u[4] % 64) = cp
<1>0. cp \in Nat /\ cp < 17 * 65536
  BY DEF CodePoint
<1>1. CASE cp < 128
  <2>1. u = <<cp>>
    BY <1>1, Appended
  <2>2. u[1] = cp /\ Len(u) = 1
    BY <2>1
  <2>3. LeadLength(cp) = 1 /\ required_length_of(cp) = 1 /\ cp \notin Trail
    BY <1>0, <1>1 DEF LeadLength, required_length_of, Trail
  <2> QED
    BY <2>2, <2>3
<1>2. CASE cp >= 128 /\ cp <= 2047
  <2> DEFINE a == 192 + cp \div 64
             b == 128 + (cp % 64)
  <2>1. u = <<a, b>>
    BY <1>2, Appended
  <2>2. u[1] = a /\ u[2] = b /\ Len(u) = 2
    BY <2>1
  <2>3. a \in 192 .. 223 /\ b \in 128 .. 191 /\ (a % 32) * 64 + (b % 64) = cp
    BY <1>0, <1>2
  <2> HIDE DEF a, b
  <2>4. LeadLength(a) = 2 /\ required_length_of(a) = 2 /\ a \notin Trail /\ b \in Trail /\ LeadBits(a, 2) = a % 32
        /\ LeadBits(a, 2) \in Nat
    BY <2>3 DEF LeadLength, required_length_of, Trail, LeadBits
  <2> QED
    BY <2>2, <2>3, <2>4
<1>3. CASE cp >= 2048 /\ cp <= 65535
  <2> DEFINE a == 224 + cp \div 4096
             b == 128 + ((cp \div 64) % 64)
             c == 128 + (cp % 64)
  <2>1. u = <<a, b, c>>
    BY <1>3, Appended
  <2>2. u[1] = a /\ u[2] = b /\ u[3] = c /\ Len(u) = 3
    BY <2>1
  <2>3. /\ a \in 224 .. 239 /\ b \in 128 .. 191 /\ c \in 128 .. 191
        /\ (a % 16) * 4096 + (b % 64) * 64 + (c % 64) = cp
    BY <1>0, <1>3
  <2> HIDE DEF a, b, c
  <2>4. /\ LeadLength(a) = 3 /\ required_length_of(a) = 3 /\ a \notin Trail /\ b \in Trail /\ c \in Trail
        /\ LeadBits(a, 3) = a % 16 /\ LeadBits(a, 3) \in Nat
    BY <2>3 DEF LeadLength, required_length_of, Trail, LeadBits
  <2> QED
    BY <2>2, <2>3, <2>4
<1>4. CASE cp > 65535
  <2> DEFINE a == 240 + cp \div 262144
             b == 128 + ((cp \div 4096) % 64)
             c == 128 + ((cp \div 64) % 64)
             e == 128 + (cp % 64)
  <2>1. u = <<a, b, c, e>>
    BY <1>4, Appended
  <2>2. u[1] = a /\ u[2] = b /\ u[3] = c /\ u[4] = e /\ Len(u) = 4
    BY <2>1
  <2>3. /\ a \in 240 .. 247 /\ b \in 128 .. 191 /\ c \in 128 .. 191 /\ e \in 128 .. 191
        /\ (a % 8) * 262144 + (b % 64) * 4096 + (c % 64) * 64 + (e % 64) = cp
    BY <1>0, <1>4
  <2> HIDE DEF a, b, c, e
  <2>4. /\ LeadLength(a) = 4 /\ required_length_of(a) = 4 /\ a \notin Trail /\ b \in Trail /\ c \in Trail /\ e \in Trail
        /\ LeadBits(a, 4) = a % 8 /\ LeadBits(a, 4) \in Nat
    BY <2>3 DEF LeadLength, required_length_of, Trail, LeadBits
  <2> QED
    BY <2>2, <2>3, <2>4
<1> QED
  BY <1>0, <1>1, <1>2, <1>3, <1>4

\* The value that n units give, written out.
LEMMA ValueOf ==
    ASSUME NEW w, NEW i, NEW lead
    PROVE  /\ Value(w, i, lead, 1, 1) = w[i]
           /\ Value(w, i, lead, 2, 2) = lead * 64 + (w[i + 1] % 64) * 1 + 0 + 0
           /\ Value(w, i, lead, 3, 3) = lead * 4096 + (w[i + 1] % 64) * 64 + (w[i + 2] % 64) * 1 + 0
           /\ Value(w, i, lead, 4, 4)
                = lead * 262144 + (w[i + 1] % 64) * 4096 + (w[i + 2] % 64) * 64 + (w[i + 3] % 64) * 1
<1>1. Weight(1) = 1 /\ Weight(2) = 64 /\ Weight(3) = 4096 /\ Weight(4) = 262144
  BY DEF Weight
<1>2. 2 - 1 = 1 /\ 3 - 1 = 2 /\ 3 - 2 = 1 /\ 4 - 1 = 3 /\ 4 - 2 = 2 /\ 4 - 3 = 1
  OBVIOUS
<1> QED
  BY <1>1, <1>2 DEF Value

\* A code point that stands in a text is read where it stands, forwards and
\* backwards, and its first unit says how long it is.
LEMMA CodePointRead ==
    ASSUME NEW w \in OctetTexts, NEW p \in Places, NEW cp \in CodePoint, StandsAt(AppendUtf8(cp), w, p)
    PROVE  /\ next_code_point(w, p) = [cp |-> cp, next |-> p + Len(AppendUtf8(cp))]
           /\ prev_code_point(w, p + Len(AppendUtf8(cp))) = [at |-> p, cp |-> cp]
           /\ required_length_of(w[p]) = Len(AppendUtf8(cp))
<1> DEFINE u == AppendUtf8(cp)
           n == Len(u)
<1>1. cp \in Nat /\ n \in 1 .. 4
  BY AppendedLength
<1>2. /\ Len(w) \in Nat /\ p + n - 1 <= Len(w)
      /\ w[p] = u[1]
      /\ n >= 2 => w[p + 1] = u[2]
      /\ n >= 3 => w[p + 2] = u[3]
      /\ n = 4 => w[p + 3] = u[4]
  BY <1>1, PartUnits
<1>3. /\ LeadLength(u[1]) = n /\ required_length_of(u[1]) = n /\ u[1] \notin Trail
      /\ n = 1 => u[1] = cp
      /\ n = 2 => LeadBits(u[1], 2) \in Nat /\ u[2] \in Trail /\ LeadBits(u[1], 2) * 64 + (u[2] % 64) = cp
      /\ n = 3 => /\ LeadBits(u[1], 3) \in Nat /\ u[2] \in Trail /\ u[3] \in Trail
                  /\ LeadBits(u[1], 3) * 4096 + (u[2] % 64) * 64 + (u[3] % 64) = cp
      /\ n = 4 => /\ LeadBits(u[1], 4) \in Nat /\ u[2] \in Trail /\ u[3] \in Trail /\ u[4] \in Trail
                  /\ LeadBits(u[1], 4) * 262144 + (u[2] % 64) * 4096 + (u[3] % 64) * 64 + (u[4] % 64) = cp
  BY UnitsTold
<1>4. p \in Nat \ {0}
  BY DEF Places
<1> HIDE DEF u, n
<1>5. \A x \in Trail : x \in Nat /\ x % 64 \in 0 .. 63
  BY DEF Trail
<1>6. Value(w, p, LeadBits(w[p], n), n, n) = cp
  <2>1. CASE n = 1
    BY <1>2, <1>3, <2>1, ValueOf
  <2>2. CASE n = 2
    <3> DEFINE a == LeadBits(u[1], 2)
               b == u[2] % 64
    <3>1. Value(w, p, a, 2, 2) = a * 64 + (w[p + 1] % 64) * 1 + 0 + 0
      BY ValueOf
    <3>2. w[p + 1] = u[2]
      BY <1>2, <2>2
    <3>3. a \in Nat /\ b \in Nat /\ a * 64 + b = cp
      BY <1>3, <1>5, <2>2
    <3>4. Value(w, p, a, 2, 2) = a * 64 + b * 1 + 0 + 0
      BY <3>1, <3>2
    <3> HIDE DEF a, b
    <3>5. Value(w, p, a, 2, 2) = cp
      BY <1>1, <3>3, <3>4
    <3> QED
      BY <1>2, <2>2, <3>5 DEF a
  <2>3. CASE n = 3
    <3> DEFINE a == LeadBits(u[1], 3)
               b == u[2] % 64
               c == u[3] % 64
    <3>1. Value(w, p, a, 3, 3) = a * 4096 + (w[p + 1] % 64) * 64 + (w[p + 2] % 64) * 1 + 0
      BY ValueOf
    <3>2. w[p + 1] = u[2] /\ w[p + 2] = u[3]
      BY <1>2, <2>3
    <3>3. a \in Nat /\ b \in Nat /\ c \in Nat /\ a * 4096 + b * 64 + c = cp
      BY <1>3, <1>5, <2>3
    <3>4. Value(w, p, a, 3, 3) = a * 4096 + b * 64 + c * 1 + 0
      BY <3>1, <3>2
    <3> HIDE DEF a, b, c
    <3>5. Value(w, p, a, 3, 3) = cp
      BY <1>1, <3>3, <3>4
    <3> QED
      BY <1>2, <2>3, <3>5 DEF a
  <2>4. CASE n = 4
    <3> DEFINE a == LeadBits(u[1], 4)
               b == u[2] % 64
               c == u[3] % 64
               e == u[4] % 64
    <3>1. Value(w, p, a, 4, 4)
            = a * 262144 + (w[p + 1] % 64) * 4096 + (w[p + 2] % 64) * 64 + (w[p + 3] % 64) * 1
      BY ValueOf
    <3>2. w[p + 1] = u[2] /\ w[p + 2] = u[3] /\ w[p + 3] = u[4]
      BY <1>2, <2>4
    <3>3. a \in Nat /\ b \in Nat /\ c \in Nat /\ e \in Nat /\ a * 262144 + b * 4096 + c * 64 + e = cp
      BY <1>3, <1>5, <2>4
    <3>4. Value(w, p, a, 4, 4) = a * 262144 + b * 4096 + c * 64 + e * 1
      BY <3>1, <3>2
    <3> HIDE DEF a, b, c, e
    <3>5. Value(w, p, a, 4, 4) = cp
      BY <1>1, <3>3, <3>4
    <3> QED
      BY <1>2, <2>4, <3>5 DEF a
  <2> QED
    BY <1>1, <2>1, <2>2, <2>3, <2>4
<1>7. next_code_point(w, p) = [cp |-> cp, next |-> p + n]
  <2>1. LeadLength(w[p]) = n
    BY <1>2, <1>3
  <2>2. n <= Len(w) - p + 1
    BY <1>1, <1>2, <1>4
  <2> QED
    BY <1>6, <2>1, <2>2 DEF next_code_point
<1>8. prev_code_point(w, p + n) = [at |-> p, cp |-> cp]
  <2> DEFINE q == p + n
             m == IF w[q - 1] \notin Trail THEN 1 ELSE IF w[q - 2] \notin Trail THEN 2
                  ELSE IF w[q - 3] \notin Trail THEN 3 ELSE 4
  <2>1. m = n
    <3>1. CASE n = 1
      <4>1. q - 1 = p
        BY <1>4, <3>1
      <4> QED
        BY <1>2, <1>3, <3>1, <4>1
    <3>2. CASE n = 2
      <4>1. q - 1 = p + 1 /\ q - 2 = p
        BY <1>4, <3>2
      <4> QED
        BY <1>2, <1>3, <3>2, <4>1
    <3>3. CASE n = 3
      <4>1. q - 1 = p + 2 /\ q - 2 = p + 1 /\ q - 3 = p
        BY <1>4, <3>3
      <4> QED
        BY <1>2, <1>3, <3>3, <4>1
    <3>4. CASE n = 4
      <4>1. q - 1 = p + 3 /\ q - 2 = p + 2 /\ q - 3 = p + 1
        BY <1>4, <3>4
      <4> QED
        BY <1>2, <1>3, <3>4, <4>1
    <3> QED
      BY <1>1, <3>1, <3>2, <3>3, <3>4
  <2>2. q - m = p
    BY <1>1, <1>4, <2>1
  <2>3. ~(w[p] \in Trail)
    BY <1>2, <1>3
  <2>4. prev_code_point(w, q)
          = [at |-> q - m,
             cp |-> Value(w, q - m, IF m = 4 /\ w[q - m] \in Trail THEN w[q - m] % 64 ELSE LeadBits(w[q - m], m), m, m)]
    <3> HIDE DEF q
    <3> QED
      BY DEF prev_code_point
  <2> HIDE DEF m
  <2>5. prev_code_point(w, q) = [at |-> p, cp |-> Value(w, p, LeadBits(w[p], n), n, n)]
    BY <2>1, <2>2, <2>3, <2>4
  <2> QED
    BY <1>6, <2>5
<1>9. required_length_of(w[p]) = n
  BY <1>2, <1>3
<1> QED
  BY <1>7, <1>8, <1>9 DEF u, n

\* The code points of a text, as they are written one after the other.
LEMMA PartsOfUtf8 ==
    ASSUME NEW cps \in Seq(CodePoint)
    PROVE  /\ Utf8Parts(cps) \in Seq(Seq(Octets)) /\ Len(Utf8Parts(cps)) = Len(cps)
           /\ DOMAIN cps = 1 .. Len(cps) /\ Len(cps) \in Nat
           /\ \A n \in 1 .. Len(cps) : /\ cps[n] \in CodePoint
                                       /\ Utf8Parts(cps)[n] = AppendUtf8(cps[n])
                                       /\ Utf8Parts(cps)[n] # <<>>
<1> DEFINE N == Len(cps)
           T == Seq(Octets)
           ps == Utf8Parts(cps)
<1>1. N \in Nat /\ DOMAIN cps = 1 .. N /\ \A n \in 1 .. N : cps[n] \in CodePoint
  OBVIOUS
<1>2. \A cp \in CodePoint : AppendUtf8(cp) \in T /\ AppendUtf8(cp) # <<>>
  BY AppendedLength
<1>3. ps = [n \in 1 .. N |-> AppendUtf8(cps[n])]
  BY <1>1 DEF Utf8Parts
<1> HIDE DEF T, ps, N
<1>4. ps \in [1 .. N -> T]
  BY <1>1, <1>2, <1>3
<1>5. ps \in Seq(T) /\ Len(ps) = N
  BY <1>1, <1>4
<1>6. \A n \in 1 .. N : ps[n] = AppendUtf8(cps[n]) /\ ps[n] # <<>>
  BY <1>1, <1>2, <1>3
<1> QED
  BY <1>1, <1>5, <1>6 DEF T, ps, N

\* Each of them stands in the text where Starts says.
LEMMA CodePointsStand ==
    ASSUME NEW cps \in Seq(CodePoint), NEW n \in 1 .. Len(cps)
    PROVE  /\ Utf8(cps) \in OctetTexts /\ cps[n] \in CodePoint
           /\ Starts(cps)[n] \in Places
           /\ Starts(cps)[n + 1] = Starts(cps)[n] + Len(AppendUtf8(cps[n]))
           /\ StandsAt(AppendUtf8(cps[n]), Utf8(cps), Starts(cps)[n])
<1> DEFINE ps == Utf8Parts(cps)
           N == Len(cps)
           u == ps[n]
           w == Chained(ps)
           a == Len(Chain(ps)[n - 1])
<1>1. /\ ps \in Seq(Seq(Octets)) /\ Len(ps) = N /\ N \in Nat
      /\ \A k \in 1 .. N : cps[k] \in CodePoint /\ ps[k] = AppendUtf8(cps[k]) /\ ps[k] # <<>>
  BY PartsOfUtf8
<1>2. n \in 1 .. N /\ n \in Nat
  OBVIOUS
<1>3. Utf8(cps) = w
  BY DEF Utf8
<1>4. /\ Starts(cps)[n] = Len(Chain(ps)[n - 1]) + 1
      /\ Starts(cps)[n + 1] = Len(Chain(ps)[(n + 1) - 1]) + 1
  <2>1. n \in 1 .. N + 1 /\ n + 1 \in 1 .. N + 1
    BY <1>1, <1>2
  <2> QED
    BY <2>1 DEF Starts
<1>5. (n + 1) - 1 = n
  BY <1>2
<1> HIDE DEF ps, N
<1>6. w \in Seq(Octets)
  BY <1>1, ChainLong
<1>7. /\ a \in Nat /\ Len(u) \in Nat
      /\ Len(Chain(ps)[n]) = a + Len(u)
      /\ Len(Chain(ps)[n]) <= Len(w)
      /\ \A i \in 1 .. Len(u) : w[a + i] = u[i]
  BY <1>1, <1>2, PartInChain
<1>8. u = AppendUtf8(cps[n]) /\ cps[n] \in CodePoint
  BY <1>1, <1>2
<1> HIDE DEF u, w, a
<1>9. /\ Starts(cps)[n] = a + 1
      /\ Starts(cps)[n + 1] = a + Len(u) + 1
  BY <1>4, <1>5, <1>7 DEF a
<1>10. StandsAt(u, w, a + 1)
  <2>1. a + 1 + Len(u) - 1 <= Len(w)
    BY <1>7
  <2>2. (a + 1) - 1 = a
    BY <1>7
  <2> QED
    BY <1>7, <2>1, <2>2 DEF StandsAt
<1>11. a + 1 \in Places /\ a + Len(u) + 1 = (a + 1) + Len(u)
  BY <1>7 DEF Places
<1> QED
  BY <1>3, <1>6, <1>8, <1>9, <1>10, <1>11 DEF OctetTexts

\* next_code_point, prev_code_point and required_length_of (unicode.hpp) read
\* every UTF-8 text as it was written, and never past an end that cuts it.
THEOREM Utf8RoundTrip ==
    ASSUME NEW cps \in Seq(CodePoint)
    PROVE  Utf8Exact(cps)
<1> DEFINE w == Utf8(cps)
           at == Starts(cps)
           N == Len(cps)
<1>1. DOMAIN cps = 1 .. N /\ N \in Nat
  OBVIOUS
<1>2. ASSUME NEW i \in 1 .. N
      PROVE  /\ next_code_point(w, at[i]) = [cp |-> cps[i], next |-> at[i + 1]]
             /\ prev_code_point(w, at[i + 1]) = [cp |-> cps[i], at |-> at[i]]
             /\ required_length_of(w[at[i]]) = at[i + 1] - at[i]
  <2> DEFINE u == AppendUtf8(cps[i])
  <2>1. /\ w \in OctetTexts /\ cps[i] \in CodePoint /\ at[i] \in Places
        /\ at[i + 1] = at[i] + Len(u)
        /\ StandsAt(u, w, at[i])
    BY CodePointsStand
  <2>2. /\ next_code_point(w, at[i]) = [cp |-> cps[i], next |-> at[i] + Len(u)]
        /\ prev_code_point(w, at[i] + Len(u)) = [at |-> at[i], cp |-> cps[i]]
        /\ required_length_of(w[at[i]]) = Len(u)
    BY <2>1, CodePointRead
  <2>3. Len(u) \in Nat /\ at[i] \in Nat
    BY <2>1, AppendedLength DEF Places
  <2>4. Len(u) = at[i + 1] - at[i]
    BY <2>1, <2>3
  <2>5. [at |-> at[i], cp |-> cps[i]] = [cp |-> cps[i], at |-> at[i]]
    OBVIOUS
  <2> HIDE DEF u, w, at
  <2> QED
    BY <2>1, <2>2, <2>4, <2>5
<1>3. ASSUME NEW cut \in DOMAIN w, NEW i \in 1 .. N, at[i] <= cut
      PROVE  next_code_point(SubSeq(w, 1, cut), at[i]).next <= cut + 1
  <2>1. w \in Seq(Octets) /\ at[i] \in Nat \ {0}
    BY CodePointsStand DEF OctetTexts, Places
  <2>2. cut \in 1 .. Len(w)
    BY <2>1
  <2> DEFINE v == SubSeq(w, 1, cut)
             p == at[i]
             n == LeadLength(v[p])
             rest == Len(v) - p + 1
             got == IF n <= rest THEN n ELSE rest
  <2>3. Len(v) = cut /\ cut \in Nat
    BY <2>1, <2>2
  <2>4. next_code_point(v, p).next = p + got
    BY DEF next_code_point
  <2>5. n \in Nat
    BY DEF LeadLength
  <2> HIDE DEF v, n
  <2>6. p + got <= cut + 1
    BY <1>3, <2>1, <2>3, <2>5
  <2> QED
    BY <2>4, <2>6 DEF v
<1> QED
  BY <1>1, <1>2, <1>3 DEF Utf8Exact

\* What more parts make is longer.
LEMMA ChainOrder ==
    ASSUME NEW S, NEW parts \in Seq(Seq(S)), NEW m \in 0 .. Len(parts), NEW n \in 0 .. Len(parts), m <= n
    PROVE  /\ Len(Chain(parts)[m]) \in Nat /\ Len(Chain(parts)[n]) \in Nat
           /\ Len(Chain(parts)[m]) <= Len(Chain(parts)[n])
<1> DEFINE N == Len(parts)
           A(k) == Len(Chain(parts)[k])
<1>1. N \in Nat /\ m \in 0 .. N /\ n \in 0 .. N
  OBVIOUS
<1>2. ASSUME NEW k \in 0 .. N PROVE A(k) \in Nat
  <2>1. Chain(parts) \in [0 .. N -> Seq(S)]
    BY ChainTurns
  <2>2. Chain(parts)[k] \in Seq(S)
    BY <2>1
  <2> QED
    BY <2>2
<1>3. \A k \in 1 .. N : Len(parts[k]) \in Nat /\ A(k) = A(k - 1) + Len(parts[k])
  BY PartInChain
<1> HIDE DEF N, A
<1> DEFINE G == {k \in 0 .. N - m : A(m) <= A(m + k)}
<1>4. 0 \in G
  BY <1>1, <1>2
<1>5. ASSUME NEW k \in 0 .. N - m - 1, k \in G PROVE k + 1 \in G
  <2>1. /\ m + k + 1 \in 1 .. N /\ (m + k + 1) - 1 = m + k /\ m + (k + 1) = m + k + 1 /\ k + 1 \in 0 .. N - m
        /\ m + k \in 0 .. N
    BY <1>1
  <2>2. A(m + k + 1) = A(m + k) + Len(parts[m + k + 1]) /\ Len(parts[m + k + 1]) \in Nat
    BY <1>3, <2>1
  <2>3. A(m) \in Nat /\ A(m + k) \in Nat /\ A(m) <= A(m + k)
    BY <1>1, <1>2, <1>5, <2>1
  <2>4. A(m) <= A(m + k + 1)
    BY <2>2, <2>3
  <2> QED
    BY <2>1, <2>4
<1>6. N - m \in Nat /\ n - m \in 0 .. N - m /\ m + (n - m) = n
  BY <1>1
<1>7. 0 .. N - m \subseteq G
  <2> HIDE DEF G
  <2> QED
    BY <1>4, <1>5, <1>6, CountingTo
<1>8. A(m) <= A(m + (n - m))
  BY <1>6, <1>7
<1> QED
  BY <1>1, <1>2, <1>6, <1>8 DEF A

\* Every place of the whole is in a part.
LEMMA ChainCovers ==
    ASSUME NEW S, NEW parts \in Seq(Seq(S)), NEW x \in 1 .. Len(Chained(parts))
    PROVE  \E n \in 1 .. Len(parts) : \E k \in 1 .. Len(parts[n]) : x = Len(Chain(parts)[n - 1]) + k
<1> DEFINE N == Len(parts)
           A(k) == Len(Chain(parts)[k])
           Covered(y) == \E n \in 1 .. N : \E k \in 1 .. Len(parts[n]) : y = A(n - 1) + k
<1>1. N \in Nat /\ A(0) = 0 /\ Len(Chained(parts)) = A(N)
  <2>1. Len(<<>>) = 0
    OBVIOUS
  <2>2. Chain(parts)[0] = <<>>
    BY ChainTurns
  <2> QED
    BY <2>1, <2>2 DEF Chained
<1>2. \A k \in 1 .. N : A(k - 1) \in Nat /\ Len(parts[k]) \in Nat /\ A(k) = A(k - 1) + Len(parts[k])
  BY PartInChain
<1>3. x \in 1 .. A(N)
  BY <1>1
<1> HIDE DEF N, A
<1> DEFINE G == {n \in 0 .. N : \A y \in 1 .. A(n) : Covered(y)}
<1>4. 0 \in G
  BY <1>1
<1>5. ASSUME NEW n \in 0 .. N - 1, n \in G PROVE n + 1 \in G
  <2>1. n + 1 \in 1 .. N /\ (n + 1) - 1 = n /\ n + 1 \in 0 .. N
    BY <1>1
  <2>2. A(n) \in Nat /\ Len(parts[n + 1]) \in Nat /\ A(n + 1) = A(n) + Len(parts[n + 1])
    BY <1>2, <2>1
  <2>3. ASSUME NEW y \in 1 .. A(n + 1) PROVE Covered(y)
    <3>1. CASE y <= A(n)
      <4>1. y \in 1 .. A(n)
        BY <2>2, <3>1
      <4> QED
        BY <1>5, <4>1
    <3>2. CASE ~(y <= A(n))
      <4>1. y - A(n) \in 1 .. Len(parts[n + 1]) /\ y = A(n) + (y - A(n))
        BY <2>2, <3>2
      <4>2. y = A((n + 1) - 1) + (y - A(n))
        BY <2>1, <4>1
      <4> QED
        BY <2>1, <4>1, <4>2
    <3> QED
      BY <3>1, <3>2
  <2> HIDE DEF Covered
  <2> QED
    BY <2>1, <2>3
<1>6. 0 .. N \subseteq G
  <2> HIDE DEF G
  <2> QED
    BY <1>1, <1>4, <1>5, CountingTo
<1>7. N \in 0 .. N
  BY <1>1
<1>8. Covered(x)
  <2> HIDE DEF Covered
  <2> QED
    BY <1>3, <1>6, <1>7
<1> QED
  BY <1>8 DEF N, A

\* The whole is a sequence of the same units.
LEMMA ChainWhole ==
    ASSUME NEW S, NEW parts \in Seq(Seq(S))
    PROVE  Chained(parts) \in Seq(S) /\ Len(Chained(parts)) = Len(Chain(parts)[Len(parts)])
<1> DEFINE N == Len(parts)
           T == Seq(S)
           c == Chain(parts)
<1>1. N \in 0 .. N
  OBVIOUS
<1>2. c \in [0 .. N -> T]
  BY ChainTurns
<1> HIDE DEF N, T, c
<1>3. c[N] \in T
  BY <1>1, <1>2
<1> QED
  BY <1>3 DEF Chained, N, T, c

\* Every part stands in s, where the lengths of those before it say.
AllStand(parts, s) ==
    \A n \in 1 .. Len(parts) : \A k \in 1 .. Len(parts[n]) :
        s[Len(Chain(parts)[n - 1]) + k] = parts[n][k]

\* A sequence in which every part stands, and nothing else, is the whole.
LEMMA ChainOnly ==
    ASSUME NEW S, NEW parts \in Seq(Seq(S)), NEW s \in Seq(S), Len(s) = Len(Chained(parts)),
           AllStand(parts, s)
    PROVE  s = Chained(parts)
<1> DEFINE w == Chained(parts)
           N == Len(parts)
<1>1. w \in Seq(S)
  BY ChainWhole
<1>2. ASSUME NEW x \in 1 .. Len(w) PROVE s[x] = w[x]
  <2>1. PICK n \in 1 .. N : \E k \in 1 .. Len(parts[n]) : x = Len(Chain(parts)[n - 1]) + k
    BY ChainCovers
  <2>2. PICK k \in 1 .. Len(parts[n]) : x = Len(Chain(parts)[n - 1]) + k
    BY <2>1
  <2>3. w[Len(Chain(parts)[n - 1]) + k] = parts[n][k]
    <3>1. \A h \in 1 .. Len(parts[n]) : Chained(parts)[Len(Chain(parts)[n - 1]) + h] = parts[n][h]
      BY PartInChain
    <3> QED
      BY <3>1
  <2>4. s[Len(Chain(parts)[n - 1]) + k] = parts[n][k]
    BY DEF AllStand
  <2> HIDE DEF w
  <2> QED
    BY <2>2, <2>3, <2>4
<1> HIDE DEF w
<1>3. Len(s) = Len(w)
  BY DEF w
<1>4. s = w
  BY <1>1, <1>2, <1>3
<1> QED
  BY <1>4 DEF w

\* What swap_ranges leaves of w after k units: the units at lhs and at rhs have
\* changed places.
Exchanged(w, lhs, rhs, k) ==
    [x \in 1 .. Len(w) |-> IF x \in lhs .. lhs + k - 1 THEN w[x - lhs + rhs]
                           ELSE IF x \in rhs .. rhs + k - 1 THEN w[x - rhs + lhs]
                           ELSE w[x]]

\* The loop of swap_ranges, whose ranges do not overlap.
LEMMA SwapRanges ==
    ASSUME NEW w \in OctetTexts, NEW lhs \in Places, NEW rhs \in Places, NEW r \in Nat,
           lhs + r <= rhs, rhs + r - 1 <= Len(w)
    PROVE  swap_ranges(w, lhs, rhs, r) = Exchanged(w, lhs, rhs, r)
<1> DEFINE L == Len(w)
           S == [1 .. L -> Octets]
           F == [k \in 1 .. r |-> [s \in S |-> SwapUnits(s, lhs + k - 1, rhs + k - 1)]]
           e == CHOOSE g : g = [k \in 0 .. r |-> IF k = 0 THEN w ELSE SwapUnits(g[k - 1], lhs + k - 1, rhs + k - 1)]
           Is(g) == g = [k \in 0 .. r |-> IF k = 0 THEN w ELSE SwapUnits(g[k - 1], lhs + k - 1, rhs + k - 1)]
<1>0. swap_ranges(w, lhs, rhs, r) = e[r]
  BY DEF swap_ranges
<1>1. L \in Nat /\ w \in S
  BY DEF OctetTexts
<1>2. lhs \in Nat \ {0} /\ rhs \in Nat \ {0} /\ lhs + r <= rhs /\ rhs + r - 1 <= L
  BY DEF Places
<1> HIDE DEF L
<1>3. \A k \in 1 .. r : lhs + k - 1 \in 1 .. L /\ rhs + k - 1 \in 1 .. L
  BY <1>1, <1>2
<1>4. ASSUME NEW s \in S, NEW i \in 1 .. L, NEW j \in 1 .. L PROVE SwapUnits(s, i, j) \in S
  BY DEF SwapUnits
<1> HIDE DEF S
<1>5. F \in [1 .. r -> [S -> S]]
  BY <1>3, <1>4
<1>6. \A k \in 1 .. r : \A s \in S : F[k][s] = SwapUnits(s, lhs + k - 1, rhs + k - 1)
  OBVIOUS
<1> HIDE DEF F
<1>7. PICK f \in [0 .. r -> S] : f[0] = w /\ \A k \in 1 .. r : f[k] = F[k][f[k - 1]]
  <2>1. \E g : g \in TurnsOf(r, S, w, F)
    BY <1>1, <1>5, TurnsExist
  <2> QED
    BY <2>1 DEF TurnsOf
<1>8. \A k \in 1 .. r : f[k] = SwapUnits(f[k - 1], lhs + k - 1, rhs + k - 1)
  <2>1. \A k \in 1 .. r : k - 1 \in 0 .. r
    OBVIOUS
  <2>2. \A k \in 1 .. r : f[k - 1] \in S
    BY <1>7, <2>1
  <2> QED
    BY <1>6, <1>7, <2>2
<1>9. \A k \in 0 .. r : f[k] = IF k = 0 THEN w ELSE SwapUnits(f[k - 1], lhs + k - 1, rhs + k - 1)
  <2>1. \A k \in 0 .. r : k = 0 \/ k \in 1 .. r
    OBVIOUS
  <2> QED
    BY <1>7, <1>8, <2>1
<1>10. Is(f)
  BY <1>7, <1>9
<1>11. Is(e)
  <2>1. e = CHOOSE g : Is(g)
    OBVIOUS
  <2> HIDE DEF Is, e
  <2> QED
    BY <1>10, <2>1
<1> HIDE DEF e
<1>12. \A k \in 0 .. r : e[k] = IF k = 0 THEN w ELSE SwapUnits(e[k - 1], lhs + k - 1, rhs + k - 1)
  BY <1>11
<1> HIDE DEF Is
<1> DEFINE X(k) == [x \in 1 .. L |-> IF x \in lhs .. lhs + k - 1 THEN w[x - lhs + rhs]
                                     ELSE IF x \in rhs .. rhs + k - 1 THEN w[x - rhs + lhs]
                                     ELSE w[x]]
           G == {k \in 0 .. r : e[k] = X(k)}
<1>13. 0 \in G
  <2>1. e[0] = w
    <3>1. 0 \in 0 .. r
      OBVIOUS
    <3> QED
      BY <1>12, <3>1
  <2>2. X(0) = w
    <3>1. \A x \in 1 .. L : x \notin lhs .. lhs + 0 - 1 /\ x \notin rhs .. rhs + 0 - 1
      BY <1>1, <1>2
    <3>2. w = [x \in 1 .. L |-> w[x]]
      BY <1>1 DEF S
    <3> QED
      BY <3>1, <3>2
  <2> HIDE DEF X
  <2> QED
    BY <2>1, <2>2
<1>14. ASSUME NEW k \in 0 .. r - 1, k \in G PROVE k + 1 \in G
  <2> DEFINE i == lhs + k
             j == rhs + k
             s == X(k)
  <2>1. k + 1 \in 0 .. r /\ (k + 1) - 1 = k /\ k + 1 # 0 /\ lhs + (k + 1) - 1 = i /\ rhs + (k + 1) - 1 = j
    BY <1>2
  <2>2. e[k + 1] = SwapUnits(e[(k + 1) - 1], lhs + (k + 1) - 1, rhs + (k + 1) - 1)
    BY <1>12, <2>1
  <2>3. e[k + 1] = SwapUnits(s, i, j)
    BY <1>14, <2>1, <2>2
  <2>4. i \in 1 .. L /\ j \in 1 .. L /\ i < j /\ i \notin lhs .. lhs + k - 1 /\ i \notin rhs .. rhs + k - 1
        /\ j \notin lhs .. lhs + k - 1 /\ j \notin rhs .. rhs + k - 1
    BY <1>1, <1>2
  <2>5. s[i] = w[i] /\ s[j] = w[j]
    BY <2>4
  <2>6. SwapUnits(s, i, j) = [x \in 1 .. L |-> IF x = j THEN w[i] ELSE IF x = i THEN w[j] ELSE s[x]]
    BY <2>4, <2>5 DEF SwapUnits
  <2>7. ASSUME NEW x \in 1 .. L
        PROVE  (IF x = j THEN w[i] ELSE IF x = i THEN w[j] ELSE s[x]) = X(k + 1)[x]
    <3>1. CASE x = i
      <4>1. x \in lhs .. lhs + (k + 1) - 1 /\ x - lhs + rhs = j /\ x # j
        BY <1>2, <2>4, <3>1
      <4> QED
        BY <3>1, <4>1
    <3>2. CASE x = j
      <4>1. x \notin lhs .. lhs + (k + 1) - 1 /\ x \in rhs .. rhs + (k + 1) - 1 /\ x - rhs + lhs = i
        BY <1>2, <2>4, <3>2
      <4> QED
        BY <3>2, <4>1
    <3>3. CASE x # i /\ x # j
      <4>1. /\ x \in lhs .. lhs + (k + 1) - 1 <=> x \in lhs .. lhs + k - 1
            /\ x \in rhs .. rhs + (k + 1) - 1 <=> x \in rhs .. rhs + k - 1
        BY <1>2, <3>3
      <4> QED
        BY <3>3, <4>1
    <3> QED
      BY <3>1, <3>2, <3>3
  <2>8. SwapUnits(s, i, j) = X(k + 1)
    BY <2>6, <2>7
  <2> QED
    BY <2>1, <2>3, <2>8
<1>15. r \in G
  <2>1. 0 .. r \subseteq G
    <3> HIDE DEF G
    <3> QED
      BY <1>13, <1>14, CountingTo
  <2> HIDE DEF G
  <2> QED
    BY <2>1
<1> QED
  BY <1>0, <1>15 DEF Exchanged, L

\* Two sequences one after the other, place by place.
LEMMA OneThenOther ==
    ASSUME NEW a \in OctetTexts, NEW b \in OctetTexts
    PROVE  /\ a \o b \in OctetTexts /\ Len(a \o b) = Len(a) + Len(b)
           /\ \A x \in 1 .. Len(a) + Len(b) : (a \o b)[x] = IF x <= Len(a) THEN a[x] ELSE b[x - Len(a)]
  BY DEF OctetTexts

\* s with the units from first to m - 1 behind those from m to last - 1.
Rotated(s, first, m, last) ==
    LET p == first - 1
        q == last - 1
    IN [x \in 1 .. Len(s) |-> IF x <= p THEN s[x]
                              ELSE IF x <= p + (q - m + 1) THEN s[x - p + m - 1]
                              ELSE IF x <= q THEN s[x - (q - m + 1)]
                              ELSE s[x]]

\* std::rotate, written as the four stretches it leaves one after the other.
LEMMA Rotation ==
    ASSUME NEW s \in OctetTexts, NEW first \in Places, NEW m \in Places, NEW last \in Places,
           first <= m, m <= last, last <= Len(s) + 1
    PROVE  rotate(s, first, m, last) = Rotated(s, first, m, last)
<1> DEFINE p == first - 1
           q == last - 1
           L == Len(s)
           T == OctetTexts
           a == SubSeq(s, 1, p)
           b == SubSeq(s, m, q)
           c == SubSeq(s, p + 1, m - 1)
           e == SubSeq(s, q + 1, L)
           F(x) == IF x <= p THEN s[x]
                   ELSE IF x <= p + (q - m + 1) THEN s[x - p + m - 1]
                   ELSE IF x <= q THEN s[x - (q - m + 1)]
                   ELSE s[x]
<1>0. p \in Nat /\ m \in Nat /\ q \in Nat /\ 1 <= m /\ first = p + 1 /\ last = q + 1 /\ p < m /\ m <= q + 1
  BY DEF Places
<1>1. L \in Nat /\ q <= L /\ s \in T
  BY <1>0 DEF OctetTexts
<1> HIDE DEF p, q
<1>2. a \in T /\ Len(a) = p /\ \A x \in 1 .. p : a[x] = s[x]
  BY <1>0, <1>1 DEF OctetTexts
<1>3. b \in T /\ Len(b) = q - m + 1 /\ \A x \in 1 .. q - m + 1 : b[x] = s[m + x - 1]
  BY <1>0, <1>1 DEF OctetTexts
<1>4. c \in T /\ Len(c) = m - 1 - p /\ \A x \in 1 .. m - 1 - p : c[x] = s[p + x]
  BY <1>0, <1>1 DEF OctetTexts
<1>5. e \in T /\ Len(e) = L - q /\ \A x \in 1 .. L - q : e[x] = s[q + x]
  BY <1>0, <1>1 DEF OctetTexts
<1> HIDE DEF a, b, c, e, L
<1>6. /\ a \o b \in T /\ Len(a \o b) = p + (q - m + 1)
      /\ \A x \in 1 .. p + (q - m + 1) : (a \o b)[x] = IF x <= p THEN a[x] ELSE b[x - p]
  <2>1. /\ a \o b \in T /\ Len(a \o b) = Len(a) + Len(b)
        /\ \A x \in 1 .. Len(a) + Len(b) : (a \o b)[x] = IF x <= Len(a) THEN a[x] ELSE b[x - Len(a)]
    BY <1>0, <1>2, <1>3, OneThenOther
  <2> QED
    BY <1>0, <1>2, <1>3, <2>1
<1> DEFINE ab == a \o b
<1> HIDE DEF ab
<1>7. /\ ab \o c \in T /\ Len(ab \o c) = q
      /\ \A x \in 1 .. q : (ab \o c)[x] = IF x <= p + (q - m + 1) THEN ab[x] ELSE c[x - (p + (q - m + 1))]
  <2>1. /\ ab \o c \in T /\ Len(ab \o c) = Len(ab) + Len(c)
        /\ \A x \in 1 .. Len(ab) + Len(c) : (ab \o c)[x] = IF x <= Len(ab) THEN ab[x] ELSE c[x - Len(ab)]
    BY <1>0, <1>4, <1>6, OneThenOther DEF ab
  <2>2. Len(ab) = p + (q - m + 1) /\ Len(ab) + Len(c) = q
    BY <1>0, <1>4, <1>6 DEF ab
  <2> QED
    BY <1>0, <2>1, <2>2
<1> DEFINE abc == ab \o c
<1> HIDE DEF abc
<1>8. /\ abc \o e \in T /\ Len(abc \o e) = L
      /\ \A x \in 1 .. L : (abc \o e)[x] = IF x <= q THEN abc[x] ELSE e[x - q]
  <2>1. /\ abc \o e \in T /\ Len(abc \o e) = Len(abc) + Len(e)
        /\ \A x \in 1 .. Len(abc) + Len(e) : (abc \o e)[x] = IF x <= Len(abc) THEN abc[x] ELSE e[x - Len(abc)]
    BY <1>5, <1>7, OneThenOther DEF abc
  <2>2. Len(abc) = q /\ Len(abc) + Len(e) = L
    BY <1>0, <1>1, <1>5, <1>7 DEF abc
  <2> QED
    BY <1>0, <2>1, <2>2
<1>9. ASSUME NEW x \in 1 .. L PROVE (abc \o e)[x] = F(x)
  <2>1. CASE x <= p
    <3>1. x \in 1 .. p /\ x \in 1 .. q /\ x \in 1 .. p + (q - m + 1) /\ x <= q /\ x <= p + (q - m + 1)
      BY <1>0, <2>1
    <3> QED
      BY <1>0, <1>2, <1>6, <1>7, <1>8, <2>1, <3>1 DEF ab, abc
  <2>2. CASE ~(x <= p) /\ x <= p + (q - m + 1)
    <3>1. /\ x - p \in 1 .. q - m + 1 /\ x \in 1 .. q /\ x \in 1 .. p + (q - m + 1) /\ x <= q
          /\ m + (x - p) - 1 = x - p + m - 1
      BY <1>0, <2>2
    <3>2. b[x - p] = s[x - p + m - 1]
      BY <1>0, <1>3, <3>1
    <3> QED
      BY <1>0, <1>6, <1>7, <1>8, <2>2, <3>1, <3>2 DEF ab, abc
  <2>3. CASE ~(x <= p + (q - m + 1)) /\ x <= q
    <3>1. /\ x - (p + (q - m + 1)) \in 1 .. m - 1 - p /\ x \in 1 .. q /\ ~(x <= p)
          /\ p + (x - (p + (q - m + 1))) = x - (q - m + 1)
      BY <1>0, <2>3
    <3>2. c[x - (p + (q - m + 1))] = s[x - (q - m + 1)]
      BY <1>0, <1>4, <3>1
    <3> QED
      BY <1>0, <1>7, <1>8, <2>3, <3>1, <3>2 DEF abc
  <2>4. CASE ~(x <= q)
    <3>1. x - q \in 1 .. L - q /\ ~(x <= p) /\ ~(x <= p + (q - m + 1)) /\ q + (x - q) = x
      BY <1>0, <1>1, <2>4
    <3>2. e[x - q] = s[x]
      BY <1>0, <1>5, <3>1
    <3> QED
      BY <1>0, <1>8, <2>4, <3>1, <3>2
  <2> QED
    BY <1>0, <2>1, <2>2, <2>3, <2>4
<1> HIDE DEF F
<1>10. abc \o e = [x \in 1 .. L |-> F(x)]
  <2>1. abc \o e = [x \in 1 .. L |-> (abc \o e)[x]]
    <3> DEFINE t == abc \o e
    <3>1. t \in Seq(Octets) /\ Len(t) = L
      BY <1>8 DEF OctetTexts
    <3> HIDE DEF t
    <3>2. t = [x \in 1 .. L |-> t[x]]
      BY <1>0, <3>1
    <3> QED
      BY <1>0, <3>2 DEF t
  <2> HIDE DEF T
  <2> QED
    BY <1>0, <1>9, <2>1
<1>11. rotate(s, first, m, last) = abc \o e
  BY <1>0 DEF rotate, L, a, b, c, e, ab, abc, p, q
<1> QED
  BY <1>10, <1>11 DEF Rotated, F, L, p, q

\* w with the l units at lhs and the r units at rhs in each other's place.
Traded(w, lhs, rhs, l, r) ==
    [x \in 1 .. Len(w) |-> IF x < lhs \/ x >= rhs + r THEN w[x]
                           ELSE IF x < lhs + r THEN w[x - lhs + rhs]
                           ELSE IF x < rhs + r - l THEN w[x - r + l]
                           ELSE w[x - (rhs + r - l) + lhs]]

\* Where each unit of it comes from.
LEMMA TradedUnits ==
    ASSUME NEW w \in OctetTexts, NEW lhs \in Places, NEW rhs \in Places, NEW l \in Places, NEW r \in Places,
           lhs + l <= rhs, lhs + r <= rhs, rhs + r - 1 <= Len(w)
    PROVE  /\ Traded(w, lhs, rhs, l, r) \in Seq(Octets) /\ Len(Traded(w, lhs, rhs, l, r)) = Len(w)
           /\ Traded(w, lhs, rhs, l, r) = [x \in 1 .. Len(w) |-> Traded(w, lhs, rhs, l, r)[x]]
           /\ \A x \in 1 .. Len(w) : x < lhs \/ x >= rhs + r => Traded(w, lhs, rhs, l, r)[x] = w[x]
           /\ \A x \in lhs .. lhs + r - 1 : Traded(w, lhs, rhs, l, r)[x] = w[x - lhs + rhs]
           /\ \A x \in lhs + r .. rhs + r - l - 1 : Traded(w, lhs, rhs, l, r)[x] = w[x - r + l]
           /\ \A x \in rhs + r - l .. rhs + r - 1 :
                 Traded(w, lhs, rhs, l, r)[x] = w[x - (rhs + r - l) + lhs]
<1> DEFINE L == Len(w)
           s == Traded(w, lhs, rhs, l, r)
           V(x) == IF x < lhs \/ x >= rhs + r THEN w[x]
                   ELSE IF x < lhs + r THEN w[x - lhs + rhs]
                   ELSE IF x < rhs + r - l THEN w[x - r + l]
                   ELSE w[x - (rhs + r - l) + lhs]
<1>1. L \in Nat /\ w \in [1 .. L -> Octets] /\ w \in Seq(Octets)
  BY DEF OctetTexts
<1>0. /\ lhs \in Nat /\ rhs \in Nat /\ l \in Nat /\ r \in Nat /\ 1 <= lhs /\ 1 <= l /\ 1 <= r
      /\ lhs + l <= rhs /\ lhs + r <= rhs /\ rhs + r - 1 <= L
  BY DEF Places
<1>2. s = [x \in 1 .. L |-> V(x)]
  BY DEF Traded
<1> HIDE DEF L, s
<1>3. /\ \A x \in 1 .. L : x < lhs \/ x >= rhs + r => V(x) = w[x]
      /\ \A x \in lhs .. lhs + r - 1 : V(x) = w[x - lhs + rhs]
      /\ \A x \in lhs + r .. rhs + r - l - 1 : V(x) = w[x - r + l]
      /\ \A x \in rhs + r - l .. rhs + r - 1 : V(x) = w[x - (rhs + r - l) + lhs]
  <2>1. \A x \in lhs .. lhs + r - 1 : ~(x < lhs \/ x >= rhs + r) /\ x < lhs + r
    BY <1>0
  <2>2. \A x \in lhs + r .. rhs + r - l - 1 : ~(x < lhs \/ x >= rhs + r) /\ ~(x < lhs + r) /\ x < rhs + r - l
    BY <1>0
  <2>3. \A x \in rhs + r - l .. rhs + r - 1 : ~(x < lhs \/ x >= rhs + r) /\ ~(x < lhs + r) /\ ~(x < rhs + r - l)
    BY <1>0
  <2> QED
    BY <1>0, <2>1, <2>2, <2>3
<1> HIDE DEF V
<1>4. ASSUME NEW x \in 1 .. L PROVE V(x) \in Octets
  <2>1. CASE x \in lhs .. lhs + r - 1
    <3>1. x - lhs + rhs \in 1 .. L
      BY <1>0, <1>1, <2>1
    <3> QED
      BY <1>1, <1>3, <2>1, <3>1
  <2>2. CASE x \in lhs + r .. rhs + r - l - 1
    <3>1. x - r + l \in 1 .. L
      BY <1>0, <1>1, <2>2
    <3> QED
      BY <1>1, <1>3, <2>2, <3>1
  <2>3. CASE x \in rhs + r - l .. rhs + r - 1
    <3>1. x - (rhs + r - l) + lhs \in 1 .. L
      BY <1>0, <1>1, <2>3
    <3> QED
      BY <1>1, <1>3, <2>3, <3>1
  <2>4. \/ x < lhs \/ x >= rhs + r \/ x \in lhs .. lhs + r - 1 \/ x \in lhs + r .. rhs + r - l - 1
        \/ x \in rhs + r - l .. rhs + r - 1
    BY <1>0
  <2> QED
    BY <1>1, <1>3, <2>1, <2>2, <2>3, <2>4
<1>5. s \in [1 .. L -> Octets]
  BY <1>2, <1>4
<1>6. s \in Seq(Octets) /\ Len(s) = L /\ s = [x \in 1 .. L |-> s[x]]
  BY <1>1, <1>5
<1>7. \A x \in 1 .. L : s[x] = V(x)
  BY <1>2
<1>8. /\ \A x \in lhs .. lhs + r - 1 : x \in 1 .. L
      /\ \A x \in lhs + r .. rhs + r - l - 1 : x \in 1 .. L
      /\ \A x \in rhs + r - l .. rhs + r - 1 : x \in 1 .. L
  BY <1>0, <1>1
<1>9. /\ \A x \in 1 .. L : x < lhs \/ x >= rhs + r => s[x] = w[x]
      /\ \A x \in lhs .. lhs + r - 1 : s[x] = w[x - lhs + rhs]
      /\ \A x \in lhs + r .. rhs + r - l - 1 : s[x] = w[x - r + l]
      /\ \A x \in rhs + r - l .. rhs + r - 1 : s[x] = w[x - (rhs + r - l) + lhs]
  BY <1>3, <1>7, <1>8
<1> QED
  BY <1>6, <1>9 DEF L, s

\* Where the rotation takes its first unit from.
Middle(lhs, rhs, l, r) == (IF l > r THEN lhs ELSE rhs) + l

\* The rotation after swap_ranges moves what lies between to its place.
LEMMA RotationTrades ==
    ASSUME NEW w \in OctetTexts, NEW lhs \in Places, NEW rhs \in Places, NEW l \in Places, NEW r \in Places,
           lhs + l <= rhs, lhs + r <= rhs, rhs + r - 1 <= Len(w)
    PROVE  /\ l = r => Exchanged(w, lhs, rhs, r) = Traded(w, lhs, rhs, l, r)
           /\ l # r => /\ ~(Middle(lhs, rhs, l, r) < lhs + r)
                       /\ rotate(Exchanged(w, lhs, rhs, r), lhs + r, Middle(lhs, rhs, l, r), rhs + r) = Traded(w, lhs, rhs, l, r)
<1> DEFINE L == Len(w)
           m == Middle(lhs, rhs, l, r)
           s == Exchanged(w, lhs, rhs, r)
<1>1. L \in Nat /\ w \in [1 .. L -> Octets] /\ lhs \in Nat \ {0} /\ rhs \in Nat \ {0} /\ l \in Nat \ {0} /\ r \in Nat \ {0}
      /\ lhs + l <= rhs /\ lhs + r <= rhs /\ rhs + r - 1 <= L
  BY DEF OctetTexts, Places
<1>4. s = [x \in 1 .. L |-> IF x \in lhs .. lhs + r - 1 THEN w[x - lhs + rhs]
                            ELSE IF x \in rhs .. rhs + r - 1 THEN w[x - rhs + lhs]
                            ELSE w[x]]
  BY DEF Exchanged
<1>0. /\ L \in Nat /\ lhs \in Nat /\ rhs \in Nat /\ l \in Nat /\ r \in Nat
      /\ 1 <= lhs /\ 1 <= l /\ 1 <= r /\ lhs + l <= rhs /\ lhs + r <= rhs /\ rhs + r - 1 <= L
      /\ m \in Nat
      /\ l > r => m = lhs + l
      /\ l < r => m = rhs + l
  BY <1>1 DEF Middle
<1> HIDE DEF L, s, m
<1>5. ASSUME NEW x \in 1 .. L
      PROVE  /\ x \in lhs .. lhs + r - 1 => x - lhs + rhs \in 1 .. L
             /\ x \in rhs .. rhs + r - 1 => x - rhs + lhs \in 1 .. L
  BY <1>0
<1>6. s \in [1 .. L -> Octets]
  BY <1>1, <1>4, <1>5
<1>7. s \in Seq(Octets) /\ Len(s) = L
  BY <1>0, <1>6
<1>8. /\ \A x \in 1 .. L : x < lhs \/ x \in lhs + r .. rhs - 1 \/ x >= rhs + r => s[x] = w[x]
      /\ \A x \in lhs .. lhs + r - 1 : s[x] = w[x - lhs + rhs]
      /\ \A x \in rhs .. rhs + r - 1 : s[x] = w[x - rhs + lhs]
  <2>1. \A x \in lhs .. lhs + r - 1 : x \in 1 .. L
    BY <1>0
  <2>2. \A x \in rhs .. rhs + r - 1 : x \in 1 .. L /\ x \notin lhs .. lhs + r - 1
    BY <1>0
  <2>3. \A x \in 1 .. L : x < lhs \/ x \in lhs + r .. rhs - 1 \/ x >= rhs + r
                            => x \notin lhs .. lhs + r - 1 /\ x \notin rhs .. rhs + r - 1
    BY <1>0
  <2> QED
    BY <1>4, <2>1, <2>2, <2>3
<1> DEFINE V(x) == Traded(w, lhs, rhs, l, r)[x]
<1>9. Traded(w, lhs, rhs, l, r) = [x \in 1 .. L |-> V(x)]
  BY TradedUnits DEF L
<1>10. /\ \A x \in 1 .. L : x < lhs \/ x >= rhs + r => V(x) = w[x]
       /\ \A x \in lhs .. lhs + r - 1 : V(x) = w[x - lhs + rhs]
       /\ \A x \in lhs + r .. rhs + r - l - 1 : V(x) = w[x - r + l]
       /\ \A x \in rhs + r - l .. rhs + r - 1 : V(x) = w[x - (rhs + r - l) + lhs]
  BY TradedUnits DEF L
<1> HIDE DEF V
<1>11. ASSUME NEW x \in 1 .. L, x < lhs \/ x >= rhs + r PROVE s[x] = V(x)
  BY <1>8, <1>10, <1>11
<1>12. ASSUME NEW x \in lhs .. lhs + r - 1 PROVE s[x] = V(x)
  BY <1>8, <1>10
<1>13. CASE l = r
  <2>1. ASSUME NEW x \in 1 .. L PROVE s[x] = V(x)
    <3>1. CASE x \in lhs + r .. rhs - 1
      <4>1. x \in lhs + r .. rhs + r - l - 1 /\ x - r + l = x
        BY <1>0, <1>13, <3>1
      <4> QED
        BY <1>8, <1>10, <3>1, <4>1
    <3>2. CASE x \in rhs .. rhs + r - 1
      <4>1. x \in rhs + r - l .. rhs + r - 1 /\ x - (rhs + r - l) + lhs = x - rhs + lhs
        BY <1>0, <1>13, <3>2
      <4> QED
        BY <1>8, <1>10, <3>2, <4>1
    <3>3. x < lhs \/ x >= rhs + r \/ x \in lhs .. lhs + r - 1 \/ x \in lhs + r .. rhs - 1 \/ x \in rhs .. rhs + r - 1
      BY <1>0
    <3> QED
      BY <1>11, <1>12, <3>1, <3>2, <3>3
  <2>2. s = [x \in 1 .. L |-> V(x)]
    BY <1>6, <2>1
  <2> QED
    BY <1>9, <1>13, <2>2 DEF s
<1>14. CASE l # r
  <2> DEFINE f == lhs + r
             g == rhs + r
             p == f - 1
             q == g - 1
             k == q - m + 1
             G(x) == IF x <= p THEN s[x]
                     ELSE IF x <= p + (q - m + 1) THEN s[x - p + m - 1]
                     ELSE IF x <= q THEN s[x - (q - m + 1)]
                     ELSE s[x]
  <2>1. p \in Nat /\ q \in Nat /\ m \in Nat /\ p < m /\ m <= q + 1 /\ q <= L
        /\ p + 1 = lhs + r /\ q + 1 = rhs + r /\ ~(m < lhs + r)
    BY <1>0, <1>14
  <2>3. rotate(s, lhs + r, m, rhs + r) = [x \in 1 .. L |-> G(x)]
    <3>1. s \in OctetTexts /\ f \in Places /\ m \in Places /\ g \in Places /\ f <= m /\ m <= g /\ g <= Len(s) + 1
      BY <1>0, <1>7, <2>1 DEF Places, OctetTexts
    <3> HIDE DEF f, g
    <3>2. rotate(s, f, m, g) = Rotated(s, f, m, g)
      BY <3>1, Rotation
    <3>3. Rotated(s, f, m, g) = [x \in 1 .. Len(s) |-> G(x)]
      BY DEF Rotated
    <3> HIDE DEF G
    <3> QED
      BY <1>7, <3>2, <3>3 DEF f, g
  <2>4. /\ \A x \in 1 .. L : x <= p \/ x > q => G(x) = s[x]
        /\ \A x \in p + 1 .. p + k : G(x) = s[x - p + m - 1]
        /\ \A x \in p + k + 1 .. q : G(x) = s[x - k]
    <3>1. p \in Nat /\ q \in Nat /\ k \in Nat /\ p + k <= q /\ k = q - m + 1
      BY <2>1
    <3>2. \A x \in 1 .. L : x > q => ~(x <= p) /\ ~(x <= p + k) /\ ~(x <= q)
      BY <3>1
    <3>3. \A x \in p + 1 .. p + k : ~(x <= p) /\ x <= p + k
      BY <3>1
    <3>4. \A x \in p + k + 1 .. q : ~(x <= p) /\ ~(x <= p + k) /\ x <= q
      BY <3>1
    <3> HIDE DEF p, q
    <3> QED
      BY <3>2, <3>3, <3>4
  <2> HIDE DEF G
  <2>5. ASSUME NEW x \in 1 .. L, x < lhs \/ x >= rhs + r PROVE G(x) = V(x)
    <3>1. x <= p \/ x > q
      BY <1>0, <2>5
    <3> QED
      BY <1>11, <2>4, <2>5, <3>1
  <2>6. ASSUME NEW x \in lhs .. lhs + r - 1 PROVE G(x) = V(x)
    <3>1. x <= p /\ x \in 1 .. L
      BY <1>0
    <3> QED
      BY <1>12, <2>4, <3>1
  <2>7. ASSUME NEW x \in p + 1 .. p + k PROVE G(x) = V(x)
    <3> DEFINE y == x - p + m - 1
    <3>1. G(x) = s[y]
      BY <2>4
    <3>2. CASE l > r /\ y < rhs
      <4>1. /\ y \in 1 .. L /\ y \in lhs + r .. rhs - 1 /\ y = x - r + l
            /\ x \in lhs + r .. rhs + r - l - 1
        BY <1>0, <3>2
      <4> HIDE DEF y, p, k
      <4> QED
        BY <1>8, <1>10, <3>1, <4>1
    <3>3. CASE l > r /\ ~(y < rhs)
      <4>1. /\ y \in rhs .. rhs + r - 1 /\ y - rhs + lhs = x - (rhs + r - l) + lhs
            /\ x \in rhs + r - l .. rhs + r - 1
        BY <1>0, <3>3
      <4> HIDE DEF y, p, k
      <4> QED
        BY <1>8, <1>10, <3>1, <4>1
    <3>4. CASE l < r
      <4>1. /\ y \in rhs .. rhs + r - 1 /\ y - rhs + lhs = x - r + l
            /\ x \in lhs + r .. rhs + r - l - 1
        BY <1>0, <3>4
      <4> HIDE DEF y, p, k
      <4> QED
        BY <1>8, <1>10, <3>1, <4>1
    <3> QED
      BY <1>0, <1>14, <3>2, <3>3, <3>4
  <2>8. ASSUME NEW x \in p + k + 1 .. q PROVE G(x) = V(x)
    <3> DEFINE z == x - k
    <3>1. G(x) = s[z]
      BY <2>4
    <3>2. CASE l > r
      <4>1. /\ z \in 1 .. L /\ z \in lhs + r .. rhs - 1 /\ z = x - (rhs + r - l) + lhs
            /\ x \in rhs + r - l .. rhs + r - 1
        BY <1>0, <3>2
      <4> HIDE DEF z, p, k, q
      <4> QED
        BY <1>8, <1>10, <3>1, <4>1
    <3>3. CASE l < r /\ z < rhs
      <4>1. /\ z \in 1 .. L /\ z \in lhs + r .. rhs - 1 /\ z = x - r + l
            /\ x \in lhs + r .. rhs + r - l - 1
        BY <1>0, <3>3
      <4> HIDE DEF z, p, k, q
      <4> QED
        BY <1>8, <1>10, <3>1, <4>1
    <3>4. CASE l < r /\ ~(z < rhs)
      <4>1. /\ z \in rhs .. rhs + r - 1 /\ z - rhs + lhs = x - (rhs + r - l) + lhs
            /\ x \in rhs + r - l .. rhs + r - 1
        BY <1>0, <3>4
      <4> HIDE DEF z, p, k, q
      <4> QED
        BY <1>8, <1>10, <3>1, <4>1
    <3> QED
      BY <1>0, <1>14, <3>2, <3>3, <3>4
  <2>9. ASSUME NEW x \in 1 .. L PROVE G(x) = V(x)
    <3>1. \/ x < lhs \/ x >= rhs + r \/ x \in lhs .. lhs + r - 1 \/ x \in p + 1 .. p + k
          \/ x \in p + k + 1 .. q
      BY <1>0, <2>1
    <3> QED
      BY <2>5, <2>6, <2>7, <2>8, <3>1
  <2>10. [x \in 1 .. L |-> G(x)] = [x \in 1 .. L |-> V(x)]
    BY <2>9
  <2> QED
    BY <1>9, <1>14, <2>1, <2>3, <2>10 DEF s, m
<1> QED
  BY <1>13, <1>14 DEF L, s, m

\* swap_code_points (unicode.hpp) puts two code points in each other's place
\* and shifts what lies between, when its ranges do not overlap.
LEMMA SwapTrades ==
    ASSUME NEW w \in OctetTexts, NEW lhs \in Places, NEW rhs \in Places, NEW l \in Places, NEW r \in Places,
           l = required_length_of(w[lhs]), r = required_length_of(w[rhs]),
           lhs + l <= rhs, lhs + r <= rhs, rhs + r - 1 <= Len(w)
    PROVE  swap_code_points(w, lhs, rhs) = Traded(w, lhs, rhs, l, r)
<1> DEFINE s == Exchanged(w, lhs, rhs, r)
           m == Middle(lhs, rhs, l, r)
<1>1. r \in Nat
  BY DEF Places
<1>2. swap_ranges(w, lhs, rhs, r) = s
  <2> HIDE DEF s
  <2> QED
    BY <1>1, SwapRanges DEF s
<1>3. swap_code_points(w, lhs, rhs)
        = IF l = r THEN s
          ELSE IF m < lhs + r THEN <<>>
          ELSE rotate(s, lhs + r, m, rhs + r)
  <2> HIDE DEF s
  <2> QED
    BY <1>2 DEF swap_code_points, Middle
<1>4. /\ l = r => s = Traded(w, lhs, rhs, l, r)
      /\ l # r => /\ ~(m < lhs + r)
                  /\ rotate(s, lhs + r, m, rhs + r) = Traded(w, lhs, rhs, l, r)
  BY RotationTrades
<1> HIDE DEF s, m
<1> QED
  BY <1>3, <1>4

\* Parts i and j of ps, of some length, stand apart: that of j fits before it
\* where that of i begins.
Apart(ps, i, j) ==
    /\ i \in 1 .. Len(ps) /\ j \in 1 .. Len(ps) /\ i < j
    /\ ps[i] # <<>> /\ ps[j] # <<>>
    /\ Len(Chain(ps)[i - 1]) + Len(ps[j]) <= Len(Chain(ps)[j - 1])

\* Two parts that change places: what lies before, between and behind them is
\* what it was, and begins where the lengths of the two say.
LEMMA PartsTraded ==
    ASSUME NEW ps \in Seq(Seq(Octets)), NEW i, NEW j, Apart(ps, i, j)
    PROVE  Traded(Chained(ps), Len(Chain(ps)[i - 1]) + 1, Len(Chain(ps)[j - 1]) + 1, Len(ps[i]), Len(ps[j]))
             = Chained(SwapUnits(ps, i, j))
<1> DEFINE T == Seq(Octets)
           N == Len(ps)
           qs == SwapUnits(ps, i, j)
           w == Chained(ps)
           L == Len(w)
           A(n) == Len(Chain(ps)[n])
           B(n) == Len(Chain(qs)[n])
           l == Len(ps[i])
           r == Len(ps[j])
           lhs == A(i - 1) + 1
           rhs == A(j - 1) + 1
           s == Traded(w, lhs, rhs, l, r)
<1>1. N \in Nat /\ i \in 1 .. N /\ j \in 1 .. N /\ i < j /\ ps \in [1 .. N -> T] /\ ps[i] # <<>> /\ ps[j] # <<>>
  BY DEF Apart
<1>2. /\ qs \in Seq(T) /\ Len(qs) = N
      /\ qs[i] = ps[j] /\ qs[j] = ps[i] /\ \A n \in 1 .. N : n # i /\ n # j => qs[n] = ps[n]
  <2> HIDE DEF T, N
  <2>1. qs \in [1 .. N -> T]
    BY <1>1 DEF SwapUnits
  <2>2. qs[i] = ps[j] /\ qs[j] = ps[i] /\ \A n \in 1 .. N : n # i /\ n # j => qs[n] = ps[n]
    BY <1>1 DEF SwapUnits
  <2> HIDE DEF qs
  <2>3. qs \in Seq(T) /\ Len(qs) = N
    BY <1>1, <2>1
  <2> QED
    BY <2>2, <2>3
<1>3. /\ \A n \in 1 .. N : /\ A(n - 1) \in Nat /\ Len(ps[n]) \in Nat
                           /\ A(n) = A(n - 1) + Len(ps[n]) /\ A(n) <= L
                           /\ \A k \in 1 .. Len(ps[n]) : w[A(n - 1) + k] = ps[n][k]
      /\ w \in T /\ L = A(N)
  <2>2. w \in T /\ L = A(N)
    BY ChainWhole
  <2> QED
    BY <2>2, PartInChain
<1>4. \A n \in 1 .. N : /\ B(n - 1) \in Nat /\ Len(qs[n]) \in Nat
                        /\ B(n) = B(n - 1) + Len(qs[n])
  <2> HIDE DEF qs, T, N
  <2> QED
    BY <1>2, PartInChain DEF T
<1>5. A(0) = 0 /\ B(0) = 0
  <2>1. Len(<<>>) = 0
    OBVIOUS
  <2>2. Chain(ps)[0] = <<>>
    BY ChainTurns
  <2> HIDE DEF qs
  <2>3. Chain(qs)[0] = <<>>
    BY <1>2, ChainTurns
  <2> QED
    BY <2>1, <2>2, <2>3
<1>6. ASSUME NEW m \in 0 .. N, NEW n \in 0 .. N, m <= n PROVE A(m) \in Nat /\ A(n) \in Nat /\ A(m) <= A(n)
  BY <1>6, ChainOrder
<1>7. L \in Nat /\ w \in OctetTexts
  BY <1>3 DEF OctetTexts
<1>8. Len(Chained(qs)) = B(N)
  BY <1>2 DEF Chained
<1>9. l \in Nat /\ r \in Nat /\ 1 <= l /\ 1 <= r
  BY <1>1
<1>0. l = Len(ps[i]) /\ r = Len(ps[j])
  OBVIOUS
<1>10. Len(qs[i]) = r /\ Len(qs[j]) = l /\ \A n \in 1 .. N : n # i /\ n # j => Len(qs[n]) = Len(ps[n])
  BY <1>2
<1>11. A(i - 1) + r <= A(j - 1)
  BY DEF Apart
<1> HIDE DEF qs, w, L, N, A, B, l, r
<1>12. /\ i - 1 \in 0 .. N /\ i \in 0 .. N /\ j - 1 \in 0 .. N /\ j \in 0 .. N /\ i <= j - 1
       /\ A(i) = A(i - 1) + l /\ A(j) = A(j - 1) + r
       /\ A(i - 1) \in Nat /\ A(j - 1) \in Nat /\ A(i) <= A(j - 1) /\ A(j) <= L
  <2>1. i - 1 \in 0 .. N /\ i \in 0 .. N /\ j - 1 \in 0 .. N /\ j \in 0 .. N /\ i <= j - 1
    BY <1>1
  <2> QED
    BY <1>0, <1>1, <1>3, <1>6, <1>9, <2>1
<1>13. /\ lhs \in Places /\ rhs \in Places /\ l \in Places /\ r \in Places
       /\ lhs + l <= rhs /\ lhs + r <= rhs /\ rhs + r - 1 <= Len(w)
  <2> DEFINE a == A(i - 1)
             b == A(j - 1)
             c == A(i)
             e == A(j)
  <2>1. a \in Nat /\ b \in Nat /\ c = a + l /\ e = b + r /\ c <= b /\ e <= L /\ a + r <= b /\ lhs = a + 1 /\ rhs = b + 1
    BY <1>11, <1>12
  <2> HIDE DEF a, b, c, e, lhs, rhs
  <2>2. /\ lhs \in Places /\ rhs \in Places /\ l \in Places /\ r \in Places
        /\ lhs + l <= rhs /\ lhs + r <= rhs /\ rhs + r - 1 <= L
    BY <1>7, <1>9, <2>1 DEF Places
  <2> QED
    BY <2>2 DEF L
<1>14. /\ s \in Seq(Octets) /\ Len(s) = L
       /\ \A x \in 1 .. L : x < lhs \/ x >= rhs + r => s[x] = w[x]
       /\ \A x \in lhs .. lhs + r - 1 : s[x] = w[x - lhs + rhs]
       /\ \A x \in lhs + r .. rhs + r - l - 1 : s[x] = w[x - r + l]
       /\ \A x \in rhs + r - l .. rhs + r - 1 : s[x] = w[x - (rhs + r - l) + lhs]
  <2> HIDE DEF lhs, rhs
  <2> QED
    BY <1>7, <1>13, TradedUnits DEF L
<1> HIDE DEF s
<1>15. /\ \A n \in 0 .. N : n < i => B(n) = A(n)
       /\ \A n \in 0 .. N : n >= i /\ n < j => B(n) = A(n) + r - l
       /\ \A n \in 0 .. N : n >= j => B(n) = A(n)
  <2> DEFINE C(n) == IF n < i \/ n >= j THEN A(n) ELSE A(n) + r - l
             G == {n \in 0 .. N : B(n) = C(n)}
  <2>1. 0 \in G
    BY <1>1, <1>5
  <2>2. ASSUME NEW n \in 0 .. N - 1, n \in G PROVE n + 1 \in G
    <3> DEFINE m == n + 1
    <3>1. m \in 1 .. N /\ m - 1 = n /\ m \in 0 .. N /\ n \in Int
      BY <1>1
    <3>2. /\ A(n) \in Nat /\ Len(ps[m]) \in Nat /\ A(m) = A(n) + Len(ps[m])
          /\ B(n) \in Nat /\ Len(qs[m]) \in Nat /\ B(m) = B(n) + Len(qs[m])
      BY <1>3, <1>4, <3>1
    <3>3. B(n) = C(n)
      BY <2>2
    <3> HIDE DEF m
    <3>4. CASE m < i \/ m > j
      <4>1. C(n) = A(n) /\ C(m) = A(m) /\ m # i /\ m # j
        BY <1>1, <3>1, <3>4
      <4>2. Len(qs[m]) = Len(ps[m])
        BY <1>10, <3>1, <4>1
      <4> QED
        BY <3>1, <3>2, <3>3, <4>1, <4>2 DEF m
    <3>5. CASE m = i
      <4>1. C(n) = A(n) /\ C(m) = A(m) + r - l
        BY <1>1, <3>1, <3>5
      <4>2. Len(qs[m]) = r /\ Len(ps[m]) = l
        BY <1>0, <1>10, <3>5
      <4> HIDE DEF C
      <4>3. B(m) = C(m)
        BY <1>9, <3>2, <3>3, <4>1, <4>2
      <4> USE DEF C
      <4> QED
        BY <3>1, <4>3 DEF m
    <3>6. CASE m > i /\ m < j
      <4>1. C(n) = A(n) + r - l /\ C(m) = A(m) + r - l /\ m # i /\ m # j
        BY <1>1, <3>1, <3>6
      <4>2. Len(qs[m]) = Len(ps[m])
        BY <1>10, <3>1, <4>1
      <4> HIDE DEF C
      <4>3. B(m) = C(m)
        BY <1>9, <3>2, <3>3, <4>1, <4>2
      <4> USE DEF C
      <4> QED
        BY <3>1, <4>3 DEF m
    <3>7. CASE m = j
      <4>1. C(n) = A(n) + r - l /\ C(m) = A(m)
        BY <1>1, <3>1, <3>7
      <4>2. Len(qs[m]) = l /\ Len(ps[m]) = r
        BY <1>0, <1>10, <3>7
      <4> HIDE DEF C
      <4>3. B(m) = C(m)
        BY <1>9, <3>2, <3>3, <4>1, <4>2
      <4> USE DEF C
      <4> QED
        BY <3>1, <4>3 DEF m
    <3> QED
      BY <1>1, <3>1, <3>4, <3>5, <3>6, <3>7
  <2>3. 0 .. N \subseteq G
    <3> HIDE DEF G
    <3> QED
      BY <1>1, <2>1, <2>2, CountingTo
  <2>4. \A n \in 0 .. N : B(n) = C(n)
    BY <2>3
  <2>5. \A n \in 0 .. N : (n >= i /\ n < j => ~(n < i \/ n >= j)) /\ (n >= j => n >= j)
    BY <1>1
  <2> QED
    BY <2>4, <2>5
<1>16. ASSUME NEW n \in 1 .. N, NEW k \in 1 .. Len(qs[n])
       PROVE  s[B(n - 1) + k] = qs[n][k]
  <2>1. /\ A(n - 1) \in Nat /\ Len(ps[n]) \in Nat /\ Len(qs[n]) \in Nat
        /\ A(n) = A(n - 1) + Len(ps[n]) /\ A(n) <= L
        /\ \A h \in 1 .. Len(ps[n]) : w[A(n - 1) + h] = ps[n][h]
    BY <1>3, <1>4
  <2>2. n \in 0 .. N /\ n - 1 \in 0 .. N /\ n \in Nat /\ i \in Nat /\ j \in Nat /\ i < j
    BY <1>1
  <2> DEFINE a == A(n - 1)
             b == A(i - 1)
             c == A(j - 1)
             p == Len(ps[n])
             q == Len(qs[n])
             e == A(n)
  <2>8. a \in Nat /\ b \in Nat /\ c \in Nat /\ p \in Nat /\ q \in Nat /\ k \in 1 .. q /\ e = a + p /\ e <= L
    BY <1>12, <2>1
  <2>9. lhs = b + 1 /\ rhs = c + 1
    OBVIOUS
  <2>10. A(i) = b + l /\ A(j) = c + r /\ b + l <= c /\ c + r <= L
    BY <1>12
  <2> HIDE DEF a, b, c, e, p, q, lhs, rhs
  <2>3. CASE n < i
    <3>1. qs[n] = ps[n] /\ B(n - 1) = A(n - 1)
      BY <1>2, <1>15, <2>2, <2>3
    <3>2. n <= i - 1
      BY <2>2, <2>3
    <3>3. e <= b
      BY <1>6, <1>12, <2>2, <3>2 DEF e, b
    <3> DEFINE x == a + k
    <3>6. q = p
      BY <3>1 DEF p, q
    <3>4. x \in 1 .. L /\ x < lhs
      BY <1>7, <2>8, <2>9, <3>3, <3>6
    <3> HIDE DEF x
    <3>5. s[x] = w[x]
      BY <1>14, <3>4
    <3> QED
      BY <2>1, <3>1, <3>5 DEF x, a
  <2>4. CASE n = i
    <3>1. qs[n] = ps[j] /\ B(n - 1) = A(i - 1) /\ Len(qs[n]) = r
      BY <1>2, <1>10, <1>15, <2>2, <2>4
    <3> DEFINE x == b + k
    <3>5. q = r
      BY <3>1 DEF q
    <3>2. x \in lhs .. lhs + r - 1 /\ x - lhs + rhs = c + k
      BY <1>9, <2>8, <2>9, <3>5
    <3> HIDE DEF x
    <3>3. s[x] = w[c + k]
      BY <1>14, <3>2
    <3>4. w[c + k] = ps[j][k]
      BY <1>0, <1>1, <1>3, <2>8, <3>5 DEF c
    <3> QED
      BY <3>1, <3>3, <3>4 DEF x, b
  <2>5. CASE n > i /\ n < j
    <3>1. qs[n] = ps[n] /\ B(n - 1) = A(n - 1) + r - l
      BY <1>2, <1>15, <2>2, <2>5
    <3>2. i <= n - 1 /\ n <= j - 1
      BY <2>2, <2>5
    <3>3. A(i) <= a /\ e <= c
      BY <1>6, <1>12, <2>2, <3>2 DEF a, c, e
    <3> DEFINE x == a + r - l + k
    <3>6. q = p
      BY <3>1 DEF p, q
    <3>4. x \in lhs + r .. rhs + r - l - 1 /\ x - r + l = a + k
      BY <1>9, <2>8, <2>9, <2>10, <3>3, <3>6
    <3> HIDE DEF x
    <3>5. s[x] = w[a + k]
      BY <1>14, <3>4
    <3> QED
      BY <2>1, <3>1, <3>5 DEF x, a
  <2>6. CASE n = j
    <3>1. qs[n] = ps[i] /\ B(n - 1) = A(j - 1) + r - l /\ Len(qs[n]) = l
      BY <1>2, <1>10, <1>15, <2>2, <2>6
    <3> DEFINE x == c + r - l + k
    <3>5. q = l
      BY <3>1 DEF q
    <3>2. x \in rhs + r - l .. rhs + r - 1 /\ x - (rhs + r - l) + lhs = b + k
      BY <1>9, <2>8, <2>9, <3>5
    <3> HIDE DEF x
    <3>3. s[x] = w[b + k]
      BY <1>14, <3>2
    <3>4. w[b + k] = ps[i][k]
      BY <1>0, <1>1, <1>3, <2>8, <3>5 DEF b
    <3> QED
      BY <3>1, <3>3, <3>4 DEF x, c
  <2>7. CASE n > j
    <3>2. j <= n - 1 /\ n - 1 >= j /\ n # i /\ n # j
      BY <2>2, <2>7
    <3>1. qs[n] = ps[n] /\ B(n - 1) = A(n - 1)
      BY <1>2, <1>15, <2>2, <3>2
    <3>3. A(j) <= a
      BY <1>6, <1>12, <2>2, <3>2 DEF a
    <3> DEFINE x == a + k
    <3>6. q = p
      BY <3>1 DEF p, q
    <3>4. x \in 1 .. L /\ x >= rhs + r
      BY <1>7, <1>9, <2>8, <2>9, <2>10, <3>3, <3>6
    <3> HIDE DEF x
    <3>5. s[x] = w[x]
      BY <1>14, <3>4
    <3> QED
      BY <2>1, <3>1, <3>5 DEF x, a
  <2> QED
    BY <2>2, <2>3, <2>4, <2>5, <2>6, <2>7
<1>17. Len(s) = Len(Chained(qs))
  <2>1. N \in 0 .. N /\ N >= j
    BY <1>1
  <2> QED
    BY <1>3, <1>8, <1>14, <1>15, <2>1
<1>19. AllStand(qs, s)
  BY <1>2, <1>16 DEF AllStand, B
<1>18. s = Chained(qs)
  BY <1>2, <1>14, <1>16, <1>17, <1>19, ChainOnly
<1> QED
  BY <1>18 DEF s, lhs, rhs, w, qs, A, l, r

\* swap_ranges may exchange code points i and j, which do not overlap.
Disjoint(cps, i, j) ==
    /\ i \in 1 .. Len(cps) /\ j \in 1 .. Len(cps) /\ i < j
    /\ Starts(cps)[i] + required_length_of(Utf8(cps)[Starts(cps)[j]]) <= Starts(cps)[j]

\* What two code points that are swapped leave is the text of the code points
\* that changed places (swap_code_points, unicode.hpp).
LEMMA SwapRewrites ==
    ASSUME NEW cps \in Seq(CodePoint), NEW i, NEW j, Disjoint(cps, i, j)
    PROVE  swap_code_points(Utf8(cps), Starts(cps)[i], Starts(cps)[j]) = Utf8(SwapUnits(cps, i, j))
<1> DEFINE ps == Utf8Parts(cps)
           w == Utf8(cps)
           at == Starts(cps)
           l == Len(ps[i])
           r == Len(ps[j])
           a == Len(Chain(ps)[i - 1])
           b == Len(Chain(ps)[j - 1])
           ds == SwapUnits(cps, i, j)
<1>0. i \in 1 .. Len(cps) /\ j \in 1 .. Len(cps) /\ i < j /\ i \in Nat /\ j \in Nat
  BY DEF Disjoint
<1>1. /\ ps \in Seq(Seq(Octets)) /\ Len(ps) = Len(cps) /\ Len(cps) \in Nat
      /\ DOMAIN cps = 1 .. Len(cps)
      /\ \A n \in 1 .. Len(cps) : cps[n] \in CodePoint /\ ps[n] = AppendUtf8(cps[n]) /\ ps[n] # <<>>
  BY PartsOfUtf8
<1>2. w = Chained(ps)
  BY DEF Utf8
<1>3. at[i] = a + 1 /\ at[j] = b + 1
  <2>1. i \in 1 .. Len(cps) + 1 /\ j \in 1 .. Len(cps) + 1
    BY <1>0, <1>1
  <2> QED
    BY <2>1 DEF Starts
<1>4. /\ w \in OctetTexts /\ at[i] \in Places /\ at[j] \in Places
      /\ StandsAt(AppendUtf8(cps[i]), w, at[i]) /\ StandsAt(AppendUtf8(cps[j]), w, at[j])
  BY <1>0, CodePointsStand
<1>5. required_length_of(w[at[i]]) = l /\ required_length_of(w[at[j]]) = r
  <2>1. cps[i] \in CodePoint /\ cps[j] \in CodePoint /\ ps[i] = AppendUtf8(cps[i]) /\ ps[j] = AppendUtf8(cps[j])
    BY <1>0, <1>1
  <2> HIDE DEF ps, w, at
  <2>2. /\ required_length_of(w[at[i]]) = Len(AppendUtf8(cps[i]))
        /\ required_length_of(w[at[j]]) = Len(AppendUtf8(cps[j]))
    BY <1>4, <2>1, CodePointRead
  <2> QED
    BY <2>1, <2>2
<1>6. /\ l \in Nat /\ r \in Nat /\ 1 <= l /\ 1 <= r
      /\ a \in Nat /\ b \in Nat /\ a + l <= b /\ b + r <= Len(w)
  <2>1. l \in 1 .. 4 /\ r \in 1 .. 4
    BY <1>0, <1>1, AppendedLength
  <2>2. /\ Len(Chain(ps)[i]) = a + l /\ Len(Chain(ps)[j]) = b + r /\ Len(Chain(ps)[j]) <= Len(w)
        /\ a \in Nat /\ b \in Nat
    BY <1>0, <1>1, <1>2, PartInChain
  <2>3. i \in 0 .. Len(ps) /\ j - 1 \in 0 .. Len(ps) /\ i <= j - 1
    BY <1>0, <1>1
  <2>4. Len(Chain(ps)[i]) <= b
    BY <1>1, <2>3, ChainOrder
  <2> DEFINE c == Len(Chain(ps)[i])
             e == Len(Chain(ps)[j])
             L == Len(w)
  <2>5. c = a + l /\ e = b + r /\ e <= L /\ c <= b
    BY <2>2, <2>4
  <2> HIDE DEF a, b, l, r, c, e, L
  <2>6. a + l <= b /\ b + r <= L
    BY <2>5
  <2>7. l \in Nat /\ r \in Nat /\ 1 <= l /\ 1 <= r
    BY <2>1
  <2> QED
    BY <2>2, <2>6, <2>7 DEF L
<1>7. at[i] + r <= at[j]
  BY <1>5 DEF Disjoint
<1> HIDE DEF a, b, l, r, at
<1>8. Apart(ps, i, j)
  <2>1. a + r <= b
    BY <1>3, <1>6, <1>7
  <2> QED
    BY <1>0, <1>1, <2>1 DEF Apart, a, b, r
<1>9. swap_code_points(w, at[i], at[j]) = Traded(w, at[i], at[j], l, r)
  <2>1. /\ l \in Places /\ r \in Places
        /\ at[i] + l <= at[j] /\ at[j] + r - 1 <= Len(w)
    <3> DEFINE L == Len(w)
    <3>1. L \in Nat /\ b + r <= L
      BY <1>4, <1>6 DEF OctetTexts
    <3> HIDE DEF L
    <3>2. l \in Places /\ r \in Places /\ (a + 1) + l <= b + 1 /\ (b + 1) + r - 1 <= L
      BY <1>6, <3>1 DEF Places
    <3> QED
      BY <1>3, <3>2 DEF L
  <2> HIDE DEF w
  <2> QED
    BY <1>4, <1>5, <1>7, <2>1, SwapTrades
<1>10. Traded(w, at[i], at[j], l, r) = Chained(SwapUnits(ps, i, j))
  BY <1>1, <1>2, <1>3, <1>8, PartsTraded DEF a, b, l, r
<1>11. SwapUnits(ps, i, j) = Utf8Parts(ds)
  <2> DEFINE N == Len(cps)
  <2>1. cps \in [1 .. N -> CodePoint] /\ i \in 1 .. N /\ j \in 1 .. N
    BY <1>0, <1>1
  <2> HIDE DEF N
  <2>2. ds = [n \in 1 .. N |-> IF n = j THEN cps[i] ELSE IF n = i THEN cps[j] ELSE cps[n]]
    BY <2>1 DEF SwapUnits
  <2>3. ps = [n \in 1 .. N |-> AppendUtf8(cps[n])]
    BY <2>1 DEF Utf8Parts
  <2> HIDE DEF ps, ds
  <2>4. SwapUnits(ps, i, j) = [n \in 1 .. N |-> IF n = j THEN ps[i] ELSE IF n = i THEN ps[j] ELSE ps[n]]
    BY <2>1, <2>3 DEF SwapUnits
  <2>5. Utf8Parts(ds) = [n \in 1 .. N |-> AppendUtf8(ds[n])]
    BY <2>2 DEF Utf8Parts
  <2>6. ASSUME NEW n \in 1 .. N
        PROVE  AppendUtf8(ds[n]) = IF n = j THEN ps[i] ELSE IF n = i THEN ps[j] ELSE ps[n]
    BY <2>1, <2>2, <2>3
  <2> QED
    BY <2>4, <2>5, <2>6
<1> QED
  BY <1>9, <1>10, <1>11 DEF Utf8, at

\* swap_code_points writes the same text as if the code points had changed
\* places, for every text and every two of its code points whose ranges do not
\* overlap.
THEOREM SwapsAreExact ==
    ASSUME NEW cps \in Seq(CodePoint)
    PROVE  SwapExact(cps)
<1>1. DOMAIN cps = 1 .. Len(cps)
  OBVIOUS
<1> QED
  BY <1>1, SwapRewrites DEF SwapExact, Disjoint

\* CodePointsExact of every text the readers of UTF-8 can be given.
THEOREM CodePointsAllExact == TextSpec => []CodePointsExact
<1>1. TextTyped => CodePointsExact
  BY Utf8RoundTrip, SwapsAreExact DEF TextTyped, CodePointsExact
<1> QED
  BY <1>1, TextsTyped, PTL
=============================================================================
