SPECIFICATION Spec
CONSTANTS
    Exchanges = {x1}
    Marks = {"usage", "terminal"}
    RequiresTerminal = FALSE
    JournalMayFail = FALSE
SYMMETRY Interchangeable
INVARIANTS
    HttpErrorIsNoSuccess
