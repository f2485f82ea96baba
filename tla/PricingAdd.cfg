SPECIFICATION Spec
CONSTANTS
    Commands = {c1}
    Providers = {1, 2}
    Names = {1, 2, 3, 4}
    Dates = {0, 1}
    Embedded <- EmbeddedHere
    Published <- PublishedHere
    Additions <- CrossedAdditions
INVARIANTS
    AddPersistsAndResolves
