SPECIFICATION Spec
CONSTANTS
    Readers = {first, last}
    Paths = {"lazy", "refill", "legacy"}
    NumMb = 3
    EqualMbSize = 2
    Solutions <- MCSolutions
    Orders <- MCOrders
    MaxIter = 2
    None = None
    MaxSize = 4
    MaxOff = 2
INVARIANTS SizesFit TokensMeetLabels StreamInStep PullsOnlyNeeded
