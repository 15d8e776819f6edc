SPECIFICATION Spec
CONSTANTS
    NumDev = 2
    NumMb = 4
    NumChunks = 1
    Template = "loop"
    Schedule = "ZBH1"
    Program <- MCProgram
    MaxIter = 1
    EvalIters = {}
    Mode <- MCMode
    EvalMb = 4
    OverlapGradReduce = FALSE
INVARIANTS ReducedOnce
