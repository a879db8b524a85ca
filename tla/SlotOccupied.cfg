SPECIFICATION Spec
CONSTANTS
    NumWorkers = 1
    MaxId = 3
    Deadlines <- OneDeadline
    Capacity = 4
    TimerOn = TRUE
    SignalPoints <- SafePoints
INVARIANTS SlotTaken
