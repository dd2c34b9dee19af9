CONSTANTS
    Columns <- MCColumns
    OutNames = {"x", "y"}
    ExprOps = {"lit", "udf", "add"}
    ExprSize = 5
    Width = 2
    TotalSize = 7
    AllowShadowing = FALSE
    NestedSize = 4
    MaxApplications = 2
    MaxDepth = 20
    InputPlans <- MCInputPlans

SPECIFICATION Spec
INVARIANTS TypeOK RuleSucceeds NoUDFLeak OneUDFPerStage SameResult MatchesUnitTests
CHECK_DEADLOCK FALSE
