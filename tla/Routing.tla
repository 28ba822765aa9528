------------------------------ MODULE Routing ------------------------------
(* dynamic_router (http/routes/dynamic_router.hpp): an application writes  *)
(* routes with the operators of Valves.tla and appends them with +=, and   *)
(* the router takes a request through them, one route at a time.           *)
EXTENDS Valves, FiniteSets

CONSTANTS
    Slugs,      \* path segments; Swapped needs "a" and "b"
    MaxPath,    \* bound: segments of a requested path
    MaxRoutes,  \* bound: routes of the router
    MaxOps      \* bound: operators written, over all routes

ASSUME BoundsAssumption == MaxPath \in Nat /\ MaxRoutes \in Nat /\ MaxOps \in Nat

VARIABLES
    routes,   \* the registered valves, in order
    expr,     \* the valve being written
    written,  \* history: the operators and operands of each route
    chain,    \* history: those of expr
    ctx,      \* the context of the request, kept as the reply; NoContext
    asked,    \* history: the path requested
    at        \* the route to call next; 0 outside routing

vars == <<routes, expr, written, chain, ctx, asked, at>>

Paths == UNION {[1..n -> Slugs] : n \in 0..MaxPath}
NoContext == [path |-> <<>>, pos |-> 0, status |-> 0, body |-> <<>>]
Context(p) == [path |-> p, pos |-> 1, status |-> 200, body |-> <<>>]

Init ==
    /\ routes = <<>> /\ written = <<>>
    /\ expr = Router /\ chain = <<>>
    /\ ctx = NoContext /\ asked = <<>> /\ at = 0

(* What an application writes after an operator; n tells routes apart.     *)
Handlers(n) == {Member("fill", <<n>>), Lambda("text", <<n>>),
                Lambda("optional", <<n>>), Lambda("optional", <<>>),
                Lambda("pointer", <<n>>), Lambda("pointer", <<>>),
                Lambda("bool", FALSE), Lambda("status", 403)}
Operands(op, n) ==
    CASE op \in {"/", "%"} -> {Seg(s) : s \in Slugs}
      [] op = ">>" -> Handlers(n)
      [] op = "-"  -> {Member("swap", <<>>), Lambda("bool", FALSE)}
      [] op = "+"  -> {Member("wrap", <<>>)}
      [] op = "*"  -> {Around}
Ops == {"/", "%", ">>", "-", "+", "*"}

Written(op, v, x) ==
    CASE op = "/"  -> Slash(v, x)
      [] op = "%"  -> Percent(v, x)
      [] op = ">>" -> Shift(v, x)
      [] op = "-"  -> Minus(v, x)
      [] op = "+"  -> Plus(v, x)
      [] op = "*"  -> Star(v, x)

OpsWritten == Len(chain) + FoldLeft(LAMBDA n, w : n + Len(w), 0, written)

(* One more operator, applied to all that stands to its left.              *)
Write ==
    /\ at = 0 /\ Len(routes) < MaxRoutes /\ OpsWritten < MaxOps
    /\ \E op \in Ops : \E x \in Operands(op, Len(routes) + 1) :
         /\ expr' = Written(op, expr, x)
         /\ chain' = Append(chain, [op |-> op, x |-> x])
    /\ ctx' = NoContext /\ asked' = <<>>
    /\ UNCHANGED <<routes, written, at>>

(* operator+=                                                              *)
Register ==
    /\ at = 0 /\ chain # <<>>
    /\ routes' = Append(routes, expr) /\ written' = Append(written, chain)
    /\ expr' = Router /\ chain' = <<>>
    /\ ctx' = NoContext /\ asked' = <<>>
    /\ UNCHANGED at

(* operator()(request): a new context, the path normalised and at its start. *)
Receive ==
    /\ at = 0 /\ chain = <<>>
    /\ \E p \in Paths : ctx' = Context(p) /\ asked' = p
    /\ at' = 1
    /\ UNCHANGED <<routes, expr, written, chain>>

ResponseEmpty(c) == c.body = <<>>

(* current_route() resets the traverser; a response ends the routing.      *)
Fresh(c) == [c EXCEPT !.pos = 1]
CallRoute ==
    /\ at \in DOMAIN routes
    /\ ctx' = Call(routes[at], Fresh(ctx)).ctx
    /\ at' = IF ResponseEmpty(ctx') THEN at + 1 ELSE 0
    /\ UNCHANGED <<routes, expr, written, chain, asked>>

(* No route answered: error(not_found) replaces the response.              *)
NotFound ==
    /\ at = Len(routes) + 1
    /\ ctx' = [ctx EXCEPT !.status = 404, !.body = <<>>]
    /\ at' = 0
    /\ UNCHANGED <<routes, expr, written, chain, asked>>

Next == Write \/ Register \/ Receive \/ CallRoute \/ NotFound
Spec == Init /\ [][Next]_vars

-----------------------------------------------------------------------------
TypeOK ==
    /\ at \in 0..(Len(routes) + 1)
    /\ Len(routes) = Len(written) /\ Len(routes) <= MaxRoutes
    /\ ctx = NoContext \/ /\ ctx.path \in Paths
                          /\ ctx.pos \in 1..(Len(ctx.path) + 1)
                          /\ ctx.status \in {200, 403, 404}
    /\ asked \in Paths

(* What the written operators mean, said without building a valve: the     *)
(* k-th part of a route holds if its slug stands at the position the slugs *)
(* written before it leave, an end of path if they are the whole path, and *)
(* a handler by what it returns; the parts up to the first that does not   *)
(* hold are reached.                                                       *)
Select(w, ops) == SelectSeq(w, LAMBDA e : e.op \in ops)
Parts(w) == FlattenSeq([i \in DOMAIN w |-> IF w[i].op = "%" THEN <<w[i].x, EndPath>> ELSE <<w[i].x>>])
SlugsBefore(parts, k) == Cardinality({j \in 1..(k - 1) : parts[j].kind = "seg"})

Holds(parts, k, p) ==
    LET n == SlugsBefore(parts, k)
    IN CASE parts[k].kind = "seg"     -> n < Len(p) /\ p[n + 1] = parts[k].slug
         [] parts[k].kind = "endpath" -> n = Len(p)
         [] parts[k].kind = "member"  -> TRUE
         [] parts[k].kind = "lambda"  -> parts[k] \in {Lambda("bool", TRUE)} \cup
                                           [kind : {"lambda"}, type : {"optional", "pointer"},
                                            value : {<<i>> : i \in 1..MaxRoutes}]

Reached(parts, p) == {k \in DOMAIN parts : \A j \in 1..(k - 1) : Holds(parts, j, p)}
HoldsAll(parts, p) == \A k \in DOMAIN parts : Holds(parts, k, p)

(* The body the last answering part among the reached ones leaves.         *)
BodyAfter(parts, p, body) ==
    LET answering == {k \in Reached(parts, p) :
                        \/ parts[k].kind = "lambda" /\ parts[k].type \in {"text", "optional", "pointer"}
                                                    /\ parts[k].value # <<>>
                        \/ parts[k].kind = "member" /\ parts[k].does = "fill"}
        last == CHOOSE k \in answering : \A j \in answering : j <= k
    IN IF answering = {} THEN body
       ELSE IF parts[last].kind = "lambda" THEN parts[last].value ELSE parts[last].tag

PathAfter(pres, p) ==
    FoldLeft(LAMBDA q, k : IF pres[k].kind = "member" THEN Swapped(q) ELSE q, p,
             SelectSeq([k \in DOMAIN pres |-> k], LAMBDA k : k \in Reached(pres, p)))

Wraps(n) == [i \in 1..n |-> "wrapped"]

(* What a written route makes of a path and an empty body: pre-routes      *)
(* first, then the parts in the order written, then the post-routes if     *)
(* every part held; with a mangler around them they count as held.         *)
RouteMeaning(w, p) ==
    LET pres == Parts(Select(w, {"-"}))
        parts == Parts(Select(w, {"/", "%", ">>"}))
        manglers == Len(Select(w, {"*"}))
        path == PathAfter(pres, p)
        posts == IF manglers > 0 \/ HoldsAll(parts, path) THEN Len(Select(w, {"+"})) ELSE 0
    IN [path |-> path,
        body |-> IF HoldsAll(pres, p)
                 THEN BodyAfter(parts, path, <<>>) \o Wraps(manglers + posts) ELSE <<>>]

(* The first route that gives a body answers; the paths the routes before  *)
(* it rewrote stay rewritten.                                              *)
Meaning(ws, p) ==
    FoldLeft(LAMBDA r, w : IF r.body = <<>> THEN RouteMeaning(w, r.path) ELSE r,
             [path |-> p, body |-> <<>>], ws)

(* Whatever operators an application writes, and however they group,       *)
(* flatten and rebind, the reply has the body of the first route, in       *)
(* registration order, whose parts hold for the path; without one it is    *)
(* the 404 without a body (dynamic_router.hpp operator(), valves.hpp).     *)
FirstRouteAnswers ==
    at = 0 /\ ctx # NoContext =>
        /\ ctx.body = Meaning(written, asked).body
        /\ ctx.body = <<>> => ctx.status = 404
=============================================================================
