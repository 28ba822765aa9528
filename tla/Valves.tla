------------------------------- MODULE Valves -------------------------------
(* The valves routes are written with (http/routes/): what the operators   *)
(* '/', '%', '>>', '-', '+' and '*' build, and what calling a valve does   *)
(* to the context of a request.  A valve is a record with a "kind"; a      *)
(* context holds the path, the traverser's position in it and the          *)
(* response.  '||' stands here as the valve it makes of operands of         *)
(* different types; on one type valves.hpp simplifies by type alone.       *)
EXTENDS Naturals, Sequences, SequencesExt

RECURSIVE Call(_, _), Mangled(_, _)

(* ---- leaves ---- *)
Router == [kind |-> "router"]          \* valve<void>: what a route starts with
Seg(s) == [kind |-> "seg", slug |-> s]
EndPath == [kind |-> "endpath"]

(* User code: a lambda that returns r, a member function that works on the *)
(* context, and a mangler that calls next and then wraps the body.         *)
Lambda(type, value) == [kind |-> "lambda", type |-> type, value |-> value]
Member(does, tag) == [kind |-> "member", does |-> does, tag |-> tag]
Around == [kind |-> "around"]

(* ---- composed valves ---- *)
Segments(parts) == [kind |-> "segments", parts |-> parts]
Forward(parts) == [kind |-> "forward", parts |-> parts]
OrValve(l, r) == [kind |-> "or", lhs |-> l, rhs |-> r]
Group(pres, posts, manglers, route) ==
    [kind |-> "group", pres |-> pres, posts |-> posts, manglers |-> manglers, routes |-> route]

(* ---- the operators that build them ---- *)
RoutesOf(v) == CASE v.kind = "group"  -> v.routes
                 [] v.kind = "router" -> Forward(<<>>)
                 [] OTHER             -> v

(* A group keeps its pre-, post-routes and manglers around the new route.  *)
RebindSelf(v, route) == IF v.kind = "group" THEN [v EXCEPT !.routes = route] ELSE route

(* What comes before the operand: nothing when no route is there yet.      *)
Before(v) == IF RoutesOf(v) = Forward(<<>>) THEN <<>> ELSE <<RoutesOf(v)>>

(* The elements x adds to a sequence of the given kind it is appended to.  *)
Flat(x, kind) == IF x.kind = kind THEN x.parts ELSE <<x>>

Slash(v, x) ==
    RebindSelf(v, IF RoutesOf(v).kind = "segments"
                  THEN Segments(RoutesOf(v).parts \o Flat(x, "segments"))
                  ELSE Segments(Append(Before(v), x)))

PercentOpen(v, x) == Slash(v, x)       \* mutant: the end of the path not asked for
Percent(v, x) ==
    RebindSelf(v, IF RoutesOf(v).kind = "segments"
                  THEN Segments(RoutesOf(v).parts \o Flat(x, "segments") \o <<EndPath>>)
                  ELSE Segments(Before(v) \o <<x, EndPath>>))

Shift(v, x) ==
    RebindSelf(v, IF v.kind # "router" /\ RoutesOf(v).kind = "forward"
                  THEN Forward(RoutesOf(v).parts \o Flat(x, "forward"))
                  ELSE Forward(Append(Before(v), x)))

AsGroup(v) == IF v.kind = "group" THEN v ELSE Group(<<>>, <<>>, <<>>, RoutesOf(v))
Minus(v, x) == [AsGroup(v) EXCEPT !.pres = Append(@, x)]
Plus(v, x) == [AsGroup(v) EXCEPT !.posts = Append(@, x)]
Star(v, x) == [AsGroup(v) EXCEPT !.manglers = Append(@, x)]

(* ---- calling a valve ---- *)
Result(c, ok) == [ctx |-> c, ok |-> ok]

(* path_traverser: a match moves on, anything else stays.                  *)
AtEnd(c) == c.pos > Len(c.path)
CheckSegmentTwice(slug, c) ==          \* mutant: a match moves on twice
    IF ~AtEnd(c) /\ c.path[c.pos] = slug
    THEN Result([c EXCEPT !.pos = @ + 2], TRUE) ELSE Result(c, FALSE)
CheckSegment(slug, c) ==
    IF ~AtEnd(c) /\ c.path[c.pos] = slug
    THEN Result([c EXCEPT !.pos = @ + 1], TRUE) ELSE Result(c, FALSE)

(* Only a true, an optional that holds something and a pointer to          *)
(* something, such as a string literal, let routing go on.                 *)
MayBeEmpty == {"optional", "pointer"}
IsPositive(f) == \/ f.type = "bool" /\ f.value
                 \/ f.type \in MayBeEmpty /\ f.value # <<>>

(* A status is a status_code or any integer.                               *)
SetResponse(f, c) ==
    CASE f.type = "text"                          -> [c EXCEPT !.body = f.value]
      [] f.type \in MayBeEmpty /\ f.value # <<>>  -> [c EXCEPT !.body = f.value]
      [] f.type = "status"                        -> [c EXCEPT !.status = f.value]
      [] OTHER                                    -> c

Wrap(c) == [c EXCEPT !.body = Append(@, "wrapped")]

(* The path reset_path sets: every slug replaced by its partner.           *)
Swapped(path) == [i \in DOMAIN path |-> IF path[i] = "a" THEN "b" ELSE "a"]

MemberCall(f, c) ==
    CASE f.does = "fill" -> [c EXCEPT !.body = f.tag, !.status = 200]
      [] f.does = "wrap" -> Wrap(c)
      [] f.does = "swap" -> [c EXCEPT !.path = Swapped(@), !.pos = 1]

(* The && fold of forward_valve and segment_valve.                         *)
CallAll(parts, c) ==
    FoldLeft(LAMBDA r, v : IF r.ok THEN Call(v, r.ctx) ELSE r, Result(c, TRUE), parts)

(* The manglers around the routes; the last one calls the routes.          *)
Mangled(g, c) ==
    IF g.manglers = <<>> THEN Call(g.routes, c).ctx
    ELSE Wrap(Mangled([g EXCEPT !.manglers = Tail(@)], c))

CallRoutes(g, c) ==
    IF g.manglers = <<>> THEN Call(g.routes, c) ELSE Result(Mangled(g, c), TRUE)

CallGroup(g, c) ==
    LET pre == CallAll(g.pres, c)
        route == CallRoutes(g, pre.ctx)
    IN IF ~pre.ok THEN pre.ctx
       ELSE IF ~route.ok THEN route.ctx
       ELSE CallAll(g.posts, route.ctx).ctx

(* When the left side succeeds the right one is not called, and the whole  *)
(* is not positive.                                                        *)
CallOr(v, c) ==
    LET l == Call(v.lhs, c) IN IF l.ok THEN Result(l.ctx, FALSE) ELSE Call(v.rhs, l.ctx)

Call(v, c) ==
    CASE v.kind = "seg"      -> CheckSegment(v.slug, c)
      [] v.kind = "endpath"  -> Result(c, AtEnd(c))
      [] v.kind = "lambda"   -> Result(SetResponse(v, c), IsPositive(v))
      [] v.kind = "member"   -> Result(MemberCall(v, c), TRUE)
      [] v.kind \in {"segments", "forward"} -> CallAll(v.parts, c)
      [] v.kind = "or"       -> CallOr(v, c)
      [] v.kind = "group"    -> Result(CallGroup(v, c), TRUE)
=============================================================================
