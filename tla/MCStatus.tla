---------------------------- MODULE MCStatus ----------------------------
(* Values for TLC: tasks go to workers by id % NumWorkers, one of them has no deadline. *)
EXTENDS Status

MCTasks == 1 .. 3
ByIdModulo == [c \in MCTasks |-> c % NumWorkers]
TwoDeadlined == {1, 2}
=============================================================================
