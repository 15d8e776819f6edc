CONSTANTS
    Replicas = {1, 2}
    Iterations = 2
    Configs <- MCUnfused
SPECIFICATION Spec
INVARIANT AssertionsHold
CHECK_DEADLOCK FALSE
