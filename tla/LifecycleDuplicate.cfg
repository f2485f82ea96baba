SPECIFICATION Spec
CONSTANTS
    Daemons = {d1, d2}
    Commands = {c1}
    Handlers = {h1}
    Main = main
    Nobody = Nobody
    Verbs = {"start", "stop"}
    ProbeMayTimeOut = FALSE
SYMMETRY Interchangeable
PROPERTIES
    NoDuplicateLaunch
