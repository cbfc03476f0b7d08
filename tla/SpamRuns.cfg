SPECIFICATION DrvSpec
CONSTANTS
    Txs = {t1}
    Runs = {1, 2}
    MaxBlock = 3
    MaxGen = 4
    MaxMarks = 1
    FbIndices = {}
    StaleBlockLimit = 2
    ApiBuf = 3
    CallbackToken = 0
    Faults = {"receipt"}
INVARIANT LoggedOnce
