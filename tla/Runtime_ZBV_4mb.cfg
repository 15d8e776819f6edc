SPECIFICATION Spec
CONSTANTS
    NumDev = 2
    NumMb = 4
    NumChunks = 2
    Template = "wave"
    Schedule = "ZBV"
    Program <- MCProgram
    MaxIter = 1
    EvalIters = {}
    Mode <- MCMode
    EvalMb = 4
    OverlapGradReduce = TRUE
INVARIANTS ReceivesOwn
