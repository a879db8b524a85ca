SPECIFICATION Spec
CONSTANTS
    MaxTasks = 2
    Horizon = 4
    Costs <- UnderWay
    RelDeadlines <- Around
    MaxOverrun = 0
CHECK_DEADLOCK FALSE
INVARIANTS MeetsDeadlines
