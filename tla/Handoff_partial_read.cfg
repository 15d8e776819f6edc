SPECIFICATION Spec
CONSTANTS
    NumStages = 2
    NumReplicas = 1
    EvalCalls = 1
    Configs <- MCSolvedConfigs
INVARIANT ReadsWhole
