SPECIFICATION Spec
CONSTANTS
    NumWorkers = 2
    MaxId = 3
    Deadlines <- TwoDeadlines
    Capacity = 2
    TimerOn = TRUE
    SignalPoints <- SafePoints
INVARIANTS OneOwner
