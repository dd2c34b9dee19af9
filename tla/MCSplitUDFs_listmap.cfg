CONSTANTS
    Columns <- MCColumns
    OutNames = {"x", "y"}
    ExprOps = {"udf", "add", "listmap"}
    ExprSize = 5
    Width = 2
    TotalSize = 6
    AllowShadowing = FALSE
    NestedSize = 0
    MaxApplications = 2
    MaxDepth = 20
    InputPlans <- MCInputPlans

SPECIFICATION Spec
INVARIANTS OneUDFPerStage SameResult RuleTerminates
CHECK_DEADLOCK FALSE
