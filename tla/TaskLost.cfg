SPECIFICATION FairSpec
CONSTANTS
    NumWorkers = 1
    MaxId = 2
    Deadlines <- NoDeadlines
    Capacity = 4
    TimerOn = TRUE
    SignalPoints <- ChosenPoints
PROPERTIES TakeTurns
