SPECIFICATION Spec
CONSTANTS
    old = old
    early = early
    late = late
    Events = {old, early, late}
    Modules = {"futures-futures-spread", "funding-spread"}
    Data <- MCData
    Legacy = {old}
    Requests <- MCRequests
    Charts <- MCCharts
    Second = 2
    ChartLimit = 3
    Horizon = 2
    Overlap = 1
    MaxPages = 3
    NoSymbol = NoSymbol
INVARIANTS
    TypeOK
    WalkMissesFew
    TotalCoversPage
    BreakdownsCoverTotals
    ShownStaysFound
    DurationCoversStreak
