SPECIFICATION ReqFairSpec
CONSTANTS
    Calls = {c1, c2}
    NoResult = NoResult
    WasmNames = {fib}
    TaskNames = {t}
    Anon = anon
    QCapacity = 1
    MaxUploads = 1
    NoCall = NoCall
    NoName = NoName
INVARIANTS ReqTypeOK OneAnswerer NamesStay UniqueTasks ReadyHasResult
PROPERTIES ExecutorRuns SchedulerRuns WaitersServed
CHECK_DEADLOCK FALSE
