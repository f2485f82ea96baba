SPECIFICATION Spec
CONSTANTS
    Daemons = {d1, d2}
    Commands = {c1, c2}
    Handlers = {h1}
    Main = main
    Nobody = Nobody
    Verbs = {"start", "stop", "status", "remove"}
    ProbeMayTimeOut = FALSE
SYMMETRY Interchangeable
INVARIANTS
    TypeOK
    JudgedDead
PROPERTIES
    SlotSpec
