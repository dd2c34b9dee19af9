CONSTANTS
    MaxTasks = 5
SPECIFICATION Spec
PROPERTY ImplementsConcatenation
CHECK_DEADLOCK FALSE
