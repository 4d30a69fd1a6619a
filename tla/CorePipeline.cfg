SPECIFICATION Spec
CONSTANTS
    Markets <- MCMarkets
    SourceOf <- MCSourceOf
    TypeOf <- MCTypeOf
    SymbolOf <- MCSymbolOf
    Rates = {0, 6}
    NoRate = NoRate
    PriceThreshold = 10
    FundingThreshold = 5
    MaxPriceRatio = 2
    ReferenceMode = "AVERAGE"
    Offered <- MCOffered
    MaxQuotes = 4
    MaxFaults = 1
    FreshnessTTL = 1
    Active = {"futures-futures-spread", "spot-futures-spread", "dex-futures-spread", "funding-spread"}
    InitialBlacklist = {}
CHECK_DEADLOCK FALSE
INVARIANT TypeOK
INVARIANT AnomaliesAreReal
INVARIANT MutedOnEvidence
INVARIANT NothingMissed
INVARIANT WideSpreadsAlert
