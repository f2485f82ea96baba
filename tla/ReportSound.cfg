SPECIFICATION ReportSpec
CONSTANTS
    Exchanges = {x1, x2}
    Marks = {"usage"}
    RequiresTerminal = FALSE
    JournalMayFail = FALSE
SYMMETRY Interchangeable
INVARIANTS
    ReportTypeOK
    CompleteIsComplete
