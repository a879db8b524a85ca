SPECIFICATION RealtimeEndingSpec
CONSTANTS
    NumWorkers = 1
    MaxId = 3
    Deadlines <- OneDeadline
    Capacity = 2
    TimerOn = TRUE
    SignalPoints <- SafePoints
INVARIANTS OneOwner
PROPERTIES TakeTurns RealtimeDone EndIfGuestsEnd
