SPECIFICATION FairSpec
CONSTANTS
    Selections = {"first", "second"}
    Typed <- MCTyped
    Others <- MCOthers
    FirstRow <- MCFirstRow
    DisplayStep = 2
    None = None
    Slots = {1, 2}
    MaxActs = 3
    MaxFaults = 1
INVARIANTS
    UnsavedEditsKept
    NothingInvented
PROPERTIES
    CleanFormCatchesUp
    ListCatchesUp
