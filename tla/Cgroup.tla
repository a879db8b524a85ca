---------------------------- MODULE Cgroup ----------------------------
(***************************************************************************)
(* Binding threads to CPUs (cgroupv2.rs and its callers): each thread of a *)
(* server makes a directory under /sys/fs/cgroup/hyperwasm, declares it    *)
(* threaded, writes one CPU into it and moves itself there, one write      *)
(* after the other, and every failed write is ignored.  The destructor of  *)
(* the controller tries to remove the directory at once, which fails as    *)
(* long as a thread is in it; nothing removes it later, so a restarted     *)
(* server finds the directories of the one before, and two servers use the *)
(* same ones.  The files behave as the kernel documents them (cgroup v2).  *)
(***************************************************************************)
EXTENDS Naturals, FiniteSets

CONSTANTS
    Procs,       \* servers that may run
    ArgsOf,      \* ArgsOf[p]: the [start, workers] server p may be started with (--start-cpu, --workers)
    Tids,        \* ids of worker threads, reused once free
    Cpus,        \* CPUs of the machine
    Offered      \* controllers the parent group offers to hyperwasm

ASSUME CgroupAssumption ==
    /\ Cpus \subseteq Nat /\ Offered \subseteq {"cpu", "cpuset"}
    /\ \A p \in Procs : ArgsOf[p] # {} /\ ArgsOf[p] \subseteq [start : Nat, workers : Nat \ {0}]
    /\ \A p \in Procs : \A a \in ArgsOf[p] : a.start .. a.start + a.workers + 2 \subseteq Cpus

\* The threads of a server and the CPU each asks for (Server::start, Worker::set_cgroup).
Main == <<"main", 0>>
SchedulerThread == <<"scheduler", 0>>
Tester == <<"tester", 0>>
WorkersOf(a) == {<<"worker", i>> : i \in 0 .. a.workers - 1}
RolesOf(a) == {Main, SchedulerThread, Tester} \union WorkersOf(a)
Roles == UNION {RolesOf(a) : a \in UNION {ArgsOf[p] : p \in Procs}}
Threads == Procs \X Roles

VARIABLES
    arg,     \* arg[p]: the arguments server p runs with, or Stopped
    pc,      \* pc[t]: the next step of thread t, "none" while it does not exist
    tid,     \* tid[t]: the id of a worker thread, 0 for the others, whose ids name nothing
    group,   \* group[t]: the directory the thread is in
    top,     \* the directory hyperwasm: made, its cpuset.cpus, and whether subtree_control has cpuset
    dirs     \* the directories in it: a function from their names to [threaded, cpus]

vars == <<arg, pc, tid, group, top, dirs>>

Stopped == [start |-> 0, workers |-> 0]
Outside == <<"outside", 0>>      \* a group of the system
Top == <<"hyperwasm", 0>>
Alive(t) == pc[t] /= "none"
Steps == {"top", "sub", "topCpus", "procs", "make", "type", "cpus", "join", "drop", "running"}

CpuOf(p, r) ==
    CASE r = Main -> arg[p].start
      [] r = SchedulerThread -> arg[p].start + 1
      [] r = Tester -> arg[p].start + 2 + arg[p].workers
      [] OTHER -> arg[p].start + r[2] + 2

\* The tester and the scheduler thread have fixed names, like main; a worker's has its thread id.
Name(t) == IF t[2][1] = "worker" THEN <<"worker", tid[t]>> ELSE t[2]
Made == DOMAIN dirs
Without(n) == [m \in Made \ {n} |-> dirs[m]]
With(n, d) == [m \in Made \union {n} |-> IF m = n THEN d ELSE dirs[m]]
Empty(n) == \A t \in Threads : group[t] /= n

\* What the kernel lets a thread run on: a group gets its own CPUs as far as its parent has them, and
\* all of its parent's if it has asked for none of those.
Narrowed(own, parents) == IF own \intersect parents = {} THEN parents ELSE own \intersect parents
TopCpus == Narrowed(top.cpus, Cpus)
RunsOn(t) ==
    CASE group[t] = Outside -> Cpus
      [] group[t] = Top -> TopCpus
      [] group[t] \in Made -> IF top.sub THEN Narrowed(dirs[group[t]].cpus, TopCpus) ELSE TopCpus
      [] OTHER -> {}

Init ==
    /\ arg = [p \in Procs |-> Stopped]
    /\ pc = [t \in Threads |-> "none"]
    /\ tid = [t \in Threads |-> 0]
    /\ group = [t \in Threads |-> <<"none", 0>>]
    /\ top = [made |-> FALSE, cpus |-> {}, sub |-> FALSE]
    /\ dirs = [n \in {} |-> {}]

------------------------------------------------------------------------
(* Servers and threads come and go.                                        *)

Step(t, from, to) == pc[t] = from /\ pc' = [pc EXCEPT ![t] = to]

StartServer(p, a) ==
    /\ arg[p] = Stopped
    /\ arg' = [arg EXCEPT ![p] = a]
    /\ Step(<<p, Main>>, "none", "top")
    /\ group' = [group EXCEPT ![<<p, Main>>] = Outside]
    /\ UNCHANGED <<tid, top, dirs>>

\* After create_cg the main thread starts the others, which begin in its group.
Spawn(p, r, n) ==
    /\ pc[<<p, Main>>] = "running" /\ r \in RolesOf(arg[p])
    /\ Step(<<p, r>>, "none", "make")
    /\ n \in IF r[1] = "worker" THEN Tids \ {tid[t] : t \in Threads} ELSE {0}
    /\ tid' = [tid EXCEPT ![<<p, r>>] = n]
    /\ group' = [group EXCEPT ![<<p, r>>] = group[<<p, Main>>]]
    /\ UNCHANGED <<arg, top, dirs>>

\* A server ends at any moment; what it has made stays.
Kill(p) ==
    /\ arg[p] /= Stopped
    /\ arg' = [arg EXCEPT ![p] = Stopped]
    /\ pc' = [t \in Threads |-> IF t[1] = p THEN "none" ELSE pc[t]]
    /\ tid' = [t \in Threads |-> IF t[1] = p THEN 0 ELSE tid[t]]
    /\ group' = [t \in Threads |-> IF t[1] = p THEN <<"none", 0>> ELSE group[t]]
    /\ UNCHANGED <<top, dirs>>

------------------------------------------------------------------------
(* create_cg, the part about hyperwasm.                                    *)

MakeTop(p) ==
    /\ Step(<<p, Main>>, "top", "sub")
    /\ top' = [top EXCEPT !.made = TRUE]
    /\ UNCHANGED <<arg, tid, group, dirs>>

\* set_sub_controller writes the controllers that cgroup.controllers contains.
SetSubController(p) ==
    /\ Step(<<p, Main>>, "sub", "topCpus")
    /\ top' = [top EXCEPT !.sub = @ \/ "cpuset" \in Offered]
    /\ UNCHANGED <<arg, tid, group, dirs>>

\* The CPUs of hyperwasm, from main's to the tester's.
Range(a) == a.start .. a.start + a.workers + 2
\* Mutant of SetTopCpus: the range ends with the last worker.
SetTopCpusShort(p) ==
    /\ Step(<<p, Main>>, "topCpus", "procs")
    /\ top' = IF "cpuset" \in Offered THEN [top EXCEPT !.cpus = Range(arg[p]) \ {CpuOf(p, Tester)}] ELSE top
    /\ UNCHANGED <<arg, tid, group, dirs>>
SetTopCpus(p) ==
    /\ Step(<<p, Main>>, "topCpus", "procs")
    /\ top' = IF "cpuset" \in Offered THEN [top EXCEPT !.cpus = Range(arg[p])] ELSE top
    /\ UNCHANGED <<arg, tid, group, dirs>>

\* Mutant of SetCgroupProcs: the process is not moved.
SetCgroupProcsSkipped(p) ==
    /\ Step(<<p, Main>>, "procs", "make")
    /\ UNCHANGED <<arg, tid, group, top, dirs>>
SetCgroupProcs(p) ==
    /\ Step(<<p, Main>>, "procs", "make")
    /\ group' = [group EXCEPT ![<<p, Main>>] = Top]
    /\ UNCHANGED <<arg, tid, top, dirs>>

------------------------------------------------------------------------
(* Every thread, about its own directory.                                  *)

\* Controllerv2::new
Make(t) ==
    /\ Step(t, "make", "type")
    /\ dirs' = IF top.made /\ Name(t) \notin Made THEN With(Name(t), [threaded |-> FALSE, cpus |-> {}]) ELSE dirs
    /\ UNCHANGED <<arg, tid, group, top>>

SetThreaded(t) ==
    /\ Step(t, "type", "cpus")
    /\ dirs' = IF Name(t) \in Made THEN With(Name(t), [dirs[Name(t)] EXCEPT !.threaded = TRUE]) ELSE dirs
    /\ UNCHANGED <<arg, tid, group, top>>

\* Mutant of SetCpuset: a directory that has CPUs keeps them.
SetCpusetOnce(t) ==
    /\ Step(t, "cpus", "join")
    /\ dirs' = IF Name(t) \in Made /\ top.sub /\ dirs[Name(t)].cpus = {}
               THEN With(Name(t), [dirs[Name(t)] EXCEPT !.cpus = {CpuOf(t[1], t[2])}]) ELSE dirs
    /\ UNCHANGED <<arg, tid, group, top>>
\* The file cpuset.cpus exists if subtree_control of hyperwasm has the controller.
SetCpuset(t) ==
    /\ Step(t, "cpus", "join")
    /\ dirs' = IF Name(t) \in Made /\ top.sub
               THEN With(Name(t), [dirs[Name(t)] EXCEPT !.cpus = {CpuOf(t[1], t[2])}]) ELSE dirs
    /\ UNCHANGED <<arg, tid, group, top>>

\* A thread moves into a threaded group of the domain its process is in, or not at all.
SetCgroupThreads(t) ==
    /\ Step(t, "join", "drop")
    /\ group' = IF Name(t) \in Made /\ dirs[Name(t)].threaded /\ group[t] /= Outside
                THEN [group EXCEPT ![t] = Name(t)] ELSE group
    /\ UNCHANGED <<arg, tid, top, dirs>>

\* Mutant of Drop: the directory is removed with what is in it.
DropForces(t) ==
    /\ Step(t, "drop", "running")
    /\ dirs' = Without(Name(t))
    /\ top' = IF t[2] = Main /\ DOMAIN dirs' = {} /\ Empty(Top)
              THEN [made |-> FALSE, cpus |-> {}, sub |-> FALSE] ELSE top
    /\ UNCHANGED <<arg, tid, group>>

\* The controllers go out of scope and delete their directories, those of create_cg in reverse
\* order; a directory with threads or directories in it stays.
Drop(t) ==
    /\ Step(t, "drop", "running")
    /\ dirs' = IF Name(t) \in Made /\ Empty(Name(t)) THEN Without(Name(t)) ELSE dirs
    /\ top' = IF t[2] = Main /\ DOMAIN dirs' = {} /\ Empty(Top)
              THEN [made |-> FALSE, cpus |-> {}, sub |-> FALSE] ELSE top
    /\ UNCHANGED <<arg, tid, group>>

------------------------------------------------------------------------
Next ==
    \/ \E p \in Procs :
         \/ \E a \in ArgsOf[p] : StartServer(p, a)
         \/ \E r \in Roles \ {Main}, n \in Tids \union {0} : Spawn(p, r, n)
         \/ Kill(p) \/ MakeTop(p) \/ SetSubController(p) \/ SetTopCpus(p) \/ SetCgroupProcs(p)
    \/ \E t \in Threads : Make(t) \/ SetThreaded(t) \/ SetCpuset(t) \/ SetCgroupThreads(t) \/ Drop(t)

Spec == Init /\ [][Next]_vars

------------------------------------------------------------------------
(* Properties.                                                             *)

\* Every variable has its type; living workers have ids of their own.
CgroupTypeOK ==
    /\ \A p \in Procs : arg[p] \in ArgsOf[p] \union {Stopped}
    /\ pc \in [Threads -> Steps \union {"none"}]
    /\ \A t, u \in Threads : (t /= u /\ tid[t] /= 0) => tid[t] /= tid[u]
    /\ \A t \in Threads : Alive(t) => arg[t[1]] /= Stopped /\ RunsOn(t) /= {}
    /\ \A n \in Made : dirs[n].cpus \subseteq Cpus /\ dirs[n].threaded \in BOOLEAN

\* Threads that have set themselves up share no CPU, as Server::start has it ("litener: start_cpu;
\* scheduler: start_cpu + 1; workers: ...; tester: ..."), whatever an earlier server has left behind
\* and whenever it was killed.
OwnCpus ==
    \A t, u \in Threads :
        (t /= u /\ pc[t] = "running" /\ pc[u] = "running") => RunsOn(t) \intersect RunsOn(u) = {}

\* A thread that is in the directory it asked for never runs on a CPU it did not ask for, not for
\* the moment between two writes either.
JoinedIsPinned ==
    \A t \in Threads : (Alive(t) /\ group[t] = Name(t)) => RunsOn(t) = {CpuOf(t[1], t[2])}

\* No thread of a server leaves the CPUs the server was given once create_cg has moved it there.
StaysInRange ==
    \A t \in Threads :
        (Alive(t) /\ pc[t] \notin {"top", "sub", "topCpus", "procs"}) => RunsOn(t) \subseteq Range(arg[t[1]])
=============================================================================
