SPECIFICATION FairSpec
CONSTANTS
    Exchanges = {x1}
    Marks = {"usage", "terminal"}
    RequiresTerminal = TRUE
    JournalMayFail = FALSE
INVARIANTS
    TypeOK
    AccountedOnce
    StreamRecordIsWhole
PROPERTIES
    AccountedInTheEnd
