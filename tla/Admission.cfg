SPECIFICATION Spec
CONSTANTS
    MaxTasks = 3
    Horizon = 6
    Costs <- NoneTwo
    RelDeadlines <- TwoThreeFive
    MaxOverrun = 1
CHECK_DEADLOCK FALSE
INVARIANTS AdmissionTypeOK OwnTimeFits LastKeepsFeasible UnstartedStayInTime ChargeExact NeverUnderCharged  AcceptsInTime
