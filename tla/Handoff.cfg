SPECIFICATION Spec
CONSTANTS
    NumStages = 2
    NumReplicas = 2
    EvalCalls = 2
    Configs <- MCConfigs
INVARIANTS SamePlan BarriersLineUp NoStaleFile PlanIsCurrent ProfileReadWhole
PROPERTY Completes
