CONSTANTS
    r1 = r1
    r2 = r2
    Ranks <- MCRanks
    Configs <- MCOverlapping
    WritesFail = {"async"}
    MaxCrashes <- Never
    MaxSignals <- Never
    MaxStarts = 1
SPECIFICATION Spec
INVARIANT MarkedIsComplete
CHECK_DEADLOCK FALSE
