----------------------------- MODULE MCRouting -----------------------------
(* Instances of Routing for TLC, and the routes of README.md's first       *)
(* example.                                                                *)
EXTENDS Routing

(* The handlers return string literals, the last one the text of a view.   *)
Literal(s) == Lambda("pointer", <<s>>)
View(s) == Lambda("text", <<s>>)

(* web_app in README.md:111-131.  '>>' binds tighter than '||', so the     *)
(* handler of the last route belongs to its right side alone.              *)
DocRoutes == <<
    Shift(Slash(Router, EndPath), Literal("main page")),
    Shift(Slash(Slash(Slash(Router, Seg("page")), Seg("one")), EndPath), Literal("Page 1")),
    Shift(Percent(Slash(Router, Seg("cgi-bin")), Seg("cgi-hello-world")), Literal("Hello world")),
    OrValve(Percent(Router, Seg("about")),
            Shift(Percent(Slash(Slash(Router, Seg("cgi-bin")), Seg("cgi-hello-world")), Seg("about")),
                  View("about.html")))>>

DocInit ==
    /\ routes = DocRoutes /\ written = <<>>
    /\ expr = Router /\ chain = <<>>
    /\ ctx = NoContext /\ asked = <<>> /\ at = 0
DocSpec == DocInit /\ [][Next]_vars

(* README.md:126 comments the route with "/about" or                       *)
(* "/cgi-bin/cgi-hello-world/about": a request for either is answered with *)
(* the about page.                                                         *)
AboutServed ==
    at = 0 /\ asked \in {<<"about">>, <<"cgi-bin", "cgi-hello-world", "about">>}
        => ctx.body = <<"about.html">>
=============================================================================
