SPECIFICATION DocSpec
CONSTANTS
    Slugs = {"page", "one", "cgi-bin", "cgi-hello-world", "about"}
    MaxPath = 3
    MaxRoutes = 4
    MaxOps = 0
INVARIANTS
    AboutServed
