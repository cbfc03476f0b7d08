SPECIFICATION MCSpec
CONSTANTS
    t1 = t1
    t2 = t2
    Txs <- Two
    Runs = {1}
    MaxBlock = 3
    MaxGen = 2
    MaxMarks = 1
    FbIndices = {1}
    StaleBlockLimit = 2
    ApiBuf = 1
    CallbackToken = 1
    Faults = {"db", "receipt"}
INVARIANTS TypeOK Accounted RowsTruthful NoSilentSkip MarksApplied
PROPERTY ImplementsRunLog
CHECK_DEADLOCK FALSE
