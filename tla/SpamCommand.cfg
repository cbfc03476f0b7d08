SPECIFICATION SpamSpec
CONSTANTS
    Parts = {"command", "rpc"}
    Recipients <- Three
    Calls = 2
    Permits = 2
    MaxNonce = 6
    Forever = TRUE
    Engine = TRUE
    a = a
    b = b
    Setups <- MCSetups
    Ticks = 2
    Bumps = {20, 30}
CHECK_DEADLOCK FALSE
INVARIANTS OkMeansCovered CorrectionExact OneProducer
PROPERTIES SweepFollows HeardStops SendingEnds ReturnsWithoutEngine
