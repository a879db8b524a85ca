SPECIFICATION Spec
CONSTANTS
    Procs <- OneServer
    ArgsOf <- TwoWays
    Tids = {1, 2}
    Cpus <- SevenCpus
    Offered <- BothControllers
INVARIANTS CgroupTypeOK OwnCpus JoinedIsPinned StaysInRange
