CONSTANTS
    Columns <- MCColumns
    OutNames = {"x", "y"}
    ExprOps = {"udf", "add"}
    ExprSize = 7
    Width = 1
    TotalSize = 8
    AllowShadowing = FALSE
    NestedSize = 0
    MaxApplications = 2
    MaxDepth = 20
    InputPlans <- MCInputPlans

SPECIFICATION Spec
INVARIANTS UniqueIntermediates
CHECK_DEADLOCK FALSE
