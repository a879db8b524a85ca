SPECIFICATION StrikeSpec
CONSTANTS
    NumWorkers = 2
    MaxId = 2
    Deadlines <- OneDeadline
    Capacity = 2
    TimerOn = TRUE
    SignalPoints <- AllPoints
INVARIANTS TypeOK RunningAccurate PreemptionArmed NoEarlySignal ExclusiveRun
    OneSoundOwner LostToStruck SoundLenExact SoundNrtYields LatencyHolderRuns
PROPERTIES RunsOnce
CHECK_DEADLOCK FALSE
