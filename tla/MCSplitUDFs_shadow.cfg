CONSTANTS
    Columns <- MCColumns
    OutNames = {"x", "y"}
    ExprOps = {"lit", "udf", "add"}
    ExprSize = 3
    Width = 2
    TotalSize = 6
    AllowShadowing = TRUE
    NestedSize = 0
    MaxApplications = 2
    MaxDepth = 20
    InputPlans <- MCInputPlans

SPECIFICATION Spec
INVARIANTS SameResult
CHECK_DEADLOCK FALSE
