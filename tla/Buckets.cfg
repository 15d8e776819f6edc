CONSTANTS
    Replicas = {1, 2}
    Iterations = 2
    Configs <- MCConfigs
SPECIFICATION Spec
INVARIANTS TypeOK UsesCurrent ReducesAll NothingOutstanding AssertionsHold
PROPERTY Completes
CHECK_DEADLOCK FALSE
