SPECIFICATION FairSpec
CONSTANTS
    Daemons = {d1, d2}
    Commands = {c1}
    Handlers = {h1}
    Main = main
    Nobody = Nobody
    Verbs = {"start", "stop", "status", "remove"}
    ProbeMayTimeOut = TRUE
INVARIANTS
    NamedDaemonWasUp
    GracefulExitLeavesNoFile
PROPERTIES
    ExitsDrained
    CommandsReturn
    ShutdownCompletes
