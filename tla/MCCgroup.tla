---------------------------- MODULE MCCgroup ----------------------------
(* Values for TLC. *)
EXTENDS Cgroup

SevenCpus == 0 .. 6
BothControllers == {"cpu", "cpuset"}

\* One server, restarted with other CPUs and another number of workers.
OneServer == {1}
TwoWays == [p \in OneServer |-> {[start |-> 0, workers |-> 1], [start |-> 1, workers |-> 2]}]
=============================================================================
