SPECIFICATION Spec
CONSTANTS
    Tasks <- MCTasks
    NumWorkers = 2
    Home <- ByIdModulo
    Deadlined <- TwoDeadlined
    CompletedCap = 2
    NoTask = NoTask
INVARIANTS StatusTypeOK KnownFound NothingVanishes RecentKept
