SPECIFICATION CommandsSpec
CONSTANTS
    Subs = {"report"}
    Versions = {2, 3}
    Length = 3
    MaxBlocks = 5
    MaxSyncs = 2
    Ends <- NoneOrNumber
    Faults = {"transport", "invalid"}
    MAX_BLOCKS = 2
    MAX_SLOTS = 2
    Databases <- MCDatabases
    Lasts <- NoneOrId
    PrecedingRuns = {0, 1, 2, 4}
    Campaigns <- LatestOrId
    Latest = 5
    Timestamps <- MCTimestamps
    MaxBlock = 12
    MaxFaults = 1
    ChainTxs <- MCChainTxs
    Traced <- MCTraced
    BLOCK_PADDING = 1
    Rates = {0, 3}
    Durations = {0, 1}
    MaxLag = 2
    PoolNumber <- MCPoolNumber
    Scenarios <- MCScenarios
    Specs <- MCSpecs
    Counts = {2}
    Chosen <- MCChosen
    Prices = {1, 2}
    MaxPriceMoves = 1
    Left = 4
    AdminRuns <- MCAdminRuns
    Invocations = {1, 2, 3}
    Starts <- MCStarts
    Subcommands = {"spam", "admin", "reset", "export", "import"}
    MaxOverlap = 2
    MaxKills = 1
    ParamSeed <- MCParamSeed
    Jobs <- MCJobs
    Funder <- TheFunder
    Limits = {1, 2}
    FaultSets <- MCFaults
    SpamCounts = {1, 5}
    MaxSetupTxs = 4
    Campaigned <- MCCampaigned
    SpamLen <- MCSpamLen
    MaxMix = 3
    MaxShare = 3
    MixRates = {5}
    Loops = 2
    Setups <- MCSetups
    BatchSize = 2
    c1 = c1
    c2 = c2
    u1 = u1
    u2 = u2
CHECK_DEADLOCK FALSE
INVARIANT MatchingRunsOnly
