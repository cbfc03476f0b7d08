SPECIFICATION ServerSpec
CONSTANTS
    Parts = {"sessions", "streams"}
    Ids = {s1}
    Calls = {c1, c2, c3}
    Forever = {c1}
    NoCall = NoCall
    Sessions = {"s1", "s2"}
    Threads = {t1}
    Subs = {x1, x2}
    Ws = {x1}
    Cap = 1
    Out = 1
    MaxLines <- MCLines
CHECK_DEADLOCK FALSE
INVARIANTS OneHolder ReadyIsUsable SerialStopReaches NoSilentGap
PROPERTIES CancelEnds RemovalEndsStreams
