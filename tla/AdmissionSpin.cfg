SPECIFICATION EndingSpec
CONSTANTS
    NumWorkers = 1
    MaxId = 2
    Deadlines <- OneDeadline
    Capacity = 4
    TimerOn = TRUE
    SignalPoints <- SafePoints
PROPERTIES AdmissionAnswers
