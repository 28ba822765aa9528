------------------------------ MODULE Mustache ------------------------------
(* views/mustache_view.hpp: a template is parsed into components and       *)
(* rendered with the variables of a context.  Lambdas are not modelled.    *)
(* The tree of components is a sequence in which close gives the end of    *)
(* each section; a run of characters is not joined.                        *)
EXTENDS Ascii
LOCAL INSTANCE SequencesExt
LOCAL INSTANCE FiniteSetsExt

Newline == 10   Return == 13   Tab == 9   Equals == 61
Braces == [begin |-> <<123, 123>>, end |-> <<125, 125>>]
StartsAt(text, i, t) == i + Len(t) - 1 <= Len(text) /\ SubSeq(text, i, i + Len(t) - 1) = t
FindText(text, i, t) == Min({j \in i .. Len(text) : StartsAt(text, j, t)} \cup {Len(text) + 1})
TrimText(text) ==
    LET inner == {i \in DOMAIN text : text[i] \notin {Space, Newline, Return, Tab, 11, 12}}
    IN IF inner = {} THEN <<>> ELSE SubSeq(text, Min(inner), Max(inner))

\* "=X Y=", neither part with a space or '='; unchanged delimiters if it is not.
parse_set_delimiter_tag(contents, delims) ==
    LET inner == TrimText(SubSeq(contents, 2, Len(contents) - 1))
        gap == FindFrom(inner, 1, {Space})
        begin == SubSeq(inner, 1, gap - 1)
        end == TrimText(SubSeq(inner, gap, Len(inner)))
    IN IF /\ Len(contents) >= 5 /\ Last(contents) = Equals /\ gap <= Len(inner)
          /\ ~ \E c \in ToSet(begin \o end) : c \in {Equals, Space, Newline, Return, Tab}
       THEN [begin |-> begin, end |-> end] ELSE delims

Kinds == [begin |-> Hash, inverted |-> 94, end |-> SlashChar, partial |-> 62, unescaped |-> 38, comment |-> 33]
parse_tag_contents(unescaped, contents) ==
    LET kinds == {k \in DOMAIN Kinds : contents # <<>> /\ Kinds[k] = contents[1]}
    IN IF unescaped THEN [kind |-> "unescaped", text |-> contents]
       ELSE IF kinds = {} THEN [kind |-> "variable", text |-> contents]
       ELSE [kind |-> CHOOSE k \in kinds : TRUE, text |-> TrimText(Tail(contents))]

\* A section is popped by any end tag; the names are compared when all is read.
Push(s, comp) ==
    LET n == Len(s.comps) + 1
        with == [s EXCEPT !.comps = Append(@, comp)]
    IN CASE comp.kind \in {"begin", "inverted"} -> [with EXCEPT !.open = Append(@, n)]
         [] comp.kind = "end" /\ s.open = <<>> -> [with EXCEPT !.error = TRUE]
         [] comp.kind = "end" /\ s.open # <<>> ->
              [with EXCEPT !.open = Front(@), !.close = @ \cup {<<Last(s.open), n>>}]
         [] OTHER -> with

ParseTag(s, text, i) ==
    LET braces == s.delims = Braces
        unescaped == braces /\ i # Len(text) - 1 /\ text[i + 2] = Braces.begin[1]
        end == IF unescaped THEN Append(Braces.end, Braces.end[1]) ELSE s.delims.end
        from == i + Len(s.delims.begin) + (IF unescaped THEN 1 ELSE 0)
        stop == FindText(text, from, end)
        contents == TrimText(SubSeq(text, from, stop - 1))
        read == [s EXCEPT !.pos = stop + Len(end)]
        Delimited(delims) ==
            IF delims.begin = <<>> THEN [s EXCEPT !.error = TRUE]
            ELSE Push([read EXCEPT !.delims = delims], [kind |-> "set_delimiter", text |-> <<>>])
    IN CASE stop > Len(text) -> [s EXCEPT !.error = TRUE]
         [] stop <= Len(text) /\ contents # <<>> /\ contents[1] = Equals ->
              Delimited(parse_set_delimiter_tag(contents, [begin |-> <<>>, end |-> <<>>]))
         [] OTHER -> Push(read, parse_tag_contents(unescaped, contents))

ParseAt(s, text, i) ==
    IF s.error \/ i # s.pos THEN s
    ELSE IF StartsAt(text, i, s.delims.begin) THEN ParseTag(s, text, i)
    ELSE IF StartsAt(text, i, <<Return, Newline>>)
    THEN Push([s EXCEPT !.pos = i + 2], [kind |-> "newline", text |-> <<Return, Newline>>])
    ELSE Push([s EXCEPT !.pos = i + 1],
              [kind |-> IF text[i] \in {Newline, Return} THEN "newline" ELSE "text", text |-> <<text[i]>>])

ParseAll(text, At(_, _)) ==
    FoldLeft(At, [pos |-> 1, delims |-> Braces, comps |-> <<>>, open |-> <<>>, close |-> {}, error |-> FALSE],
             [i \in DOMAIN text |-> i])

\* Mistake: the names of the sections are not compared.
parse_any_end(text) ==
    LET End(s) == [s EXCEPT !.error = @ \/ s.open # <<>>]
    IN End(ParseAll(text, LAMBDA s, i : ParseAt(s, text, i)))

parse(text) ==
    LET End(s) == [s EXCEPT !.error = @ \/ s.open # <<>> \/ \E p \in s.close : s.comps[p[1]].text # s.comps[p[2]].text]
    IN End(ParseAll(text, LAMBDA s, i : ParseAt(s, text, i)))
-----------------------------------------------------------------------------
\* A variable has a key and a value: a truth value, a text, a list of
\* variables or the text of a partial.
Nothing == [key |-> <<>>, kind |-> "none", value |-> <<>>]

\* Of a truth value it returns the value itself: what is true counts as false.
is_false(v) == CASE v.kind = "bool" -> v.value [] v.kind = "list" -> v.value = <<>> [] OTHER -> TRUE

RECURSIVE get(_, _)
get(v, name) ==
    LET found == {i \in DOMAIN v.value : get(v.value[i], name) # Nothing}
    IN IF v.key = name THEN v
       ELSE IF v.kind = "list" /\ found # {} THEN get(v.value[Min(found)], name) ELSE Nothing

FirstOf(ctx, Value(_)) ==
    LET found == {i \in DOMAIN ctx : Value(ctx[i]) # Nothing}
    IN IF found = {} THEN Nothing ELSE Value(ctx[Min(found)])
Lookup(ctx, name) ==
    LET Path(v) == FoldLeft(LAMBDA w, n : IF w = Nothing THEN w ELSE get(w, n), v, SplitOn(name, Dot))
    IN IF name = <<Dot>> THEN ctx[1] ELSE FirstOf(ctx, Path)
get_partial(ctx, name) == FirstOf(ctx, LAMBDA v : get(v, name))

Escapes == [c \in {38, 60, 62, 34, 39} |->
              <<38>> \o (CASE c = 38 -> <<97, 109, 112>> [] c = 60 -> <<108, 116>> [] c = 62 -> <<103, 116>>
                           [] c = 34 -> <<113, 117, 111, 116>> [] c = 39 -> <<97, 112, 111, 115>>) \o <<59>>]
html_escape(text) == FoldLeft(LAMBDA t, c : t \o (IF c \in DOMAIN Escapes THEN Escapes[c] ELSE <<c>>), <<>>, text)

\* A line is left out if it has a section tag or is blank (not: and).
render_current_line(r, end) ==
    IF ~r.tagged /\ ~AllIn(r.line, {Space, Tab})
    THEN [r EXCEPT !.out = @ \o r.line \o end, !.line = <<>>]
    ELSE [r EXCEPT !.line = <<>>, !.tagged = FALSE]

\* The components from place i to the end of t.comps or of their section; a
\* partial that does not parse stops its section only.
RECURSIVE RenderFrom(_, _, _, _, _)
RenderFrom(t, i, last, ctx, r) ==
    LET comp == t.comps[i]
        v == IF comp.kind = "partial" THEN get_partial(ctx, comp.text) ELSE Lookup(ctx, comp.text)
        end == (CHOOSE p \in t.close : p[1] = i)[2]
        shown == IF comp.kind = "inverted" THEN is_false(v) ELSE ~is_false(v)
        within == IF v = Nothing THEN ctx ELSE <<v>> \o ctx
        inside == RenderFrom(t, i + 1, end - 1, within, [r EXCEPT !.tagged = TRUE])
        Included(part) == IF part.error THEN [r EXCEPT !.stop = TRUE]
                          ELSE RenderFrom(part, 1, Len(part.comps), ctx, r)
        next == CASE comp.kind = "text" -> [r EXCEPT !.line = @ \o comp.text]
                  [] comp.kind = "newline" -> render_current_line(r, comp.text)
                  [] comp.kind = "variable" /\ v.kind = "string" -> [r EXCEPT !.line = @ \o html_escape(v.value)]
                  [] comp.kind = "unescaped" /\ v.kind = "string" -> [r EXCEPT !.line = @ \o v.value]
                  [] comp.kind = "partial" /\ v.kind \in {"partial", "string"} -> Included(parse(v.value))
                  [] comp.kind \in {"begin", "inverted"} /\ shown /\ ~(v.kind = "list" /\ v.value = <<>>) ->
                       [inside EXCEPT !.tagged = TRUE, !.stop = FALSE]
                  [] OTHER -> r
    IN IF i > last \/ r.stop THEN r
       ELSE RenderFrom(t, IF comp.kind \in {"begin", "inverted"} THEN end + 1 ELSE i + 1, last, ctx, next)

render(text, data) ==
    LET Render(t) == RenderFrom(t, 1, Len(t.comps), data,
                                [out |-> <<>>, line |-> <<>>, tagged |-> FALSE, stop |-> FALSE])
        Parsed(t) == IF t.error THEN <<>> ELSE render_current_line(Render(t), <<>>).out
    IN Parsed(parse(text))
-----------------------------------------------------------------------------
\* A template of known tags is accepted exactly if its sections nest and each
\* ends with its own name: what is left when adjacent pairs are taken away.
SectionTags(text) ==
    SelectSeq(ParseAll(text, LAMBDA s, i : ParseAt([s EXCEPT !.error = FALSE], text, i)).comps,
              LAMBDA c : c.kind \in {"begin", "inverted", "end"})
RECURSIVE Reduced(_)
Reduced(tags) ==
    LET pairs == {i \in 1 .. Len(tags) - 1 : /\ tags[i].kind # "end" /\ tags[i + 1].kind = "end"
                                             /\ tags[i].text = tags[i + 1].text}
    IN IF pairs = {} THEN tags ELSE Reduced(RemoveAt(RemoveAt(tags, Min(pairs)), Min(pairs)))
SectionsNest(text) ==
    parse(text).error = (Reduced(SectionTags(text)) # <<>>)

\* Each text, newline and value is rendered, in order, if every section
\* around it holds, whatever is nested in what; lines of section tags are left
\* out.  With is_false as it is, a section holds for a name that is there and
\* false, an inverted one for a name that is missing or true.  For templates
\* whose section tags have lines of their own and whose other lines are not
\* blank, sections that are missing or truth values, and no partials:
\* elsewhere blank lines and lines that have text beside a section tag are
\* lost, a list is rendered once, and an empty one never.
RenderedExact(text, data) ==
    LET Exact(t) ==
        LET Section(i) == t.comps[i].kind \in {"begin", "inverted", "end"}
            LineOf(i) == Cardinality({j \in 1 .. i - 1 : t.comps[j].kind = "newline"})
            Line(i) == {j \in DOMAIN t.comps : LineOf(j) = LineOf(i)}
            Filled(j) == t.comps[j].kind = "text" /\ t.comps[j].text[1] \notin {Space, Tab}
            Alone(i) == \A j \in Line(i) \ {i} : t.comps[j].kind = "newline"
            Plain(i) == IF Section(i) THEN Alone(i) /\ Lookup(data, t.comps[i].text).kind \in {"bool", "none"}
                        ELSE t.comps[i].kind # "partial" /\ \E j \in Line(i) : Filled(j) \/ Section(j)
            Holds(i) == \A p \in t.close : p[1] < i /\ i < p[2] =>
                          LET v == Lookup(data, t.comps[p[1]].text)
                          IN (v.kind = "bool" /\ ~v.value) = (t.comps[p[1]].kind = "begin")
            Shown(i) == Holds(i) /\ ~ \E j \in Line(i) : Section(j)
            Content(i) == LET v == Lookup(data, t.comps[i].text)
                          IN CASE t.comps[i].kind \in {"text", "newline"} -> t.comps[i].text
                               [] t.comps[i].kind = "variable" /\ v.kind = "string" -> html_escape(v.value)
                               [] t.comps[i].kind = "unescaped" /\ v.kind = "string" -> v.value
                               [] OTHER -> <<>>
        IN ~t.error /\ (\A i \in DOMAIN t.comps : Plain(i)) =>
             render(text, data) = FoldLeftDomain(LAMBDA out, i : out \o (IF Shown(i) THEN Content(i) ELSE <<>>),
                                                 <<>>, t.comps)
    IN Exact(parse(text))
=============================================================================
