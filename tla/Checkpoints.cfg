CONSTANTS
    r1 = r1
    r2 = r2
    Ranks <- MCRanks
    Configs <- MCConfigs
    WritesFail = {"sync"}
    MaxCrashes <- MCMaxCrashes
    MaxSignals <- MCMaxSignals
    MaxStarts = 6
SPECIFICATION Spec
INVARIANTS TypeOK TrackerComplete SameSamples LoadsUnlessHit
PROPERTIES NeverBack Saved
CHECK_DEADLOCK FALSE
