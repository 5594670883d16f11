SPECIFICATION ChainSpec
CONSTANTS
    Source <- MCSource
    SourceType <- MCSourceType
    Unverified = {"social"}
    Ages <- MCAges
    MaxItems = 2
    FreshAge = 1
    WindowAge = 6
    Scheduled = {TRUE, FALSE}
    Moments <- MCMoments
    Symbols = {"EUR_USD", "USD_JPY"}
    Scores <- MCScores
INVARIANTS
    ContractKept
    EnterEarned
