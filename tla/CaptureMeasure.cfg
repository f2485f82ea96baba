SPECIFICATION Spec
CONSTANTS
    Exchanges = {x1}
    Marks = {"usage", "terminal"}
    RequiresTerminal = TRUE
    JournalMayFail = FALSE
SYMMETRY Interchangeable
PROPERTIES
    MeasuredOnceForwarded
