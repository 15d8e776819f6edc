SPECIFICATION Spec
CONSTANTS
    NumDev = 2
    NumMb = 2
    NumChunks = 2
    Template = "wave"
    Schedule = "ZBV"
    Program <- MCProgram
    MaxIter = 3
    EvalIters = {2}
    Mode <- MCMode
    EvalMb = 1
    OverlapGradReduce = TRUE
INVARIANTS TypeOK ReceivesOwn NoLeftover RightTensors ReductionsCoverAll ReducedOnce WgradBlockIsOwn
PROPERTIES ReleasedStayReleased DataflowSpec
