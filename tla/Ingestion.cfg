SPECIFICATION FairSpec
CONSTANTS
    Markets = {"btc", "eth", "sol"}
    Feeds = {"futures", "dex", "down"}
    FeedOf <- MCFeedOf
    FundingFeeds = {"futures"}
    DeadFeeds = {"down"}
    Unusable <- MCUnusable
    MaxRetries = 1
    MaxMoves = 1
    MaxFaults = 2
CHECK_DEADLOCK FALSE
INVARIANT TypeOK
PROPERTY PublishedIsCurrent
PROPERTY QuotesArrive
PROPERTY StopCloses
