SPECIFICATION Spec
CONSTANTS
    Program1F1B <- MC1F1B
    Program1F1BWide <- MC1F1BWide
    ProgramZBH1 <- MCZBH1
    ProgramInterleaved <- MCInterleaved
    ProgramZBV <- MCZBV
INVARIANTS TensorsAndGradients ActivationBound
PROPERTY Completes
