SPECIFICATION SpamSpec
CONSTANTS
    Parts = {"rpc"}
    Recipients <- Three
    Calls = 2
    Permits = 2
    MaxNonce = 6
    Forever = TRUE
    Engine = TRUE
    a = a
    b = b
    Setups <- EngineSetups
    Ticks = 2
    Bumps = {20, 30}
CHECK_DEADLOCK FALSE
PROPERTY Returns
