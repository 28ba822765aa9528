SPECIFICATION Spec
CONSTANTS
    Slugs = {"a", "b"}
    MaxPath = 2
    MaxRoutes = 2
    MaxOps = 4
INVARIANTS
    TypeOK
    FirstRouteAnswers
