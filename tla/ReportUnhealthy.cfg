SPECIFICATION ReportSpec
CONSTANTS
    Exchanges = {x1}
    Marks = {"usage", "terminal"}
    RequiresTerminal = TRUE
    JournalMayFail = TRUE
SYMMETRY Interchangeable
INVARIANTS
    CompleteIsComplete
