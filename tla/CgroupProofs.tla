---------------------------- MODULE CgroupProofs ----------------------------
(***************************************************************************)
(* Threads and their CPUs, for any machine, any numbers of workers and any *)
(* restarts: types for any servers; for one server at a time on a machine  *)
(* that offers cpusets, each thread on its own CPU.                        *)
(***************************************************************************)
EXTENDS Cgroup, TLAPS

USE CgroupAssumption

\* A thread belongs to a running server that has a use for it.
ThreadOK(t) ==
    Alive(t) => /\ arg[t[1]] \in ArgsOf[t[1]] /\ t[2] \in RolesOf(arg[t[1]])
                /\ group[t] \in {Outside, Top} \union Made

\* The ids of living workers differ, and the other threads have none.
TidOK ==
    /\ \A t \in Threads : tid[t] # 0 <=> Alive(t) /\ t[2][1] = "worker"
    /\ \A t, u \in Threads : t # u /\ tid[t] # 0 => tid[t] # tid[u]

FilesOK ==
    /\ top \in [made : BOOLEAN, cpus : SUBSET Cpus, sub : BOOLEAN]
    /\ \A n \in Made : dirs[n] \in [threaded : BOOLEAN, cpus : SUBSET Cpus]
    /\ Outside \notin Made /\ Top \notin Made

FunctionsOK ==
    /\ arg = [p \in Procs |-> arg[p]] /\ \A p \in Procs : arg[p] \in ArgsOf[p] \union {Stopped}
    /\ pc \in [Threads -> Steps \union {"none"}]
    /\ tid = [t \in Threads |-> tid[t]] /\ group = [t \in Threads |-> group[t]]

TypeInv == FunctionsOK /\ (\A t \in Threads : ThreadOK(t)) /\ TidOK /\ FilesOK

---------------------------------------------------------------------------
(* Threads and their names *)

LEMMA RoleKinds ==
  ASSUME NEW r \in Roles
  PROVE  /\ r = <<r[1], r[2]>> /\ r[1] \in {"main", "scheduler", "tester", "worker"} /\ r[2] \in Nat
         /\ r[1] # "worker" => r \in {Main, SchedulerThread, Tester}
<1>1. PICK a : r \in RolesOf(a) /\ a \in UNION {ArgsOf[p] : p \in Procs}
  BY DEF Roles
<1>2. a.workers \in Nat
  BY <1>1
<1>3. r \in {Main, SchedulerThread, Tester} \/ \E i \in Nat : r = <<"worker", i>>
  BY <1>1, <1>2 DEF RolesOf, WorkersOf
<1> QED
  BY <1>3 DEF Main, SchedulerThread, Tester

LEMMA ThreadParts ==
  ASSUME NEW t \in Threads
  PROVE  t = <<t[1], t[2]>> /\ t[1] \in Procs /\ t[2] \in Roles
BY DEF Threads

LEMMA MainThread ==
  ASSUME NEW p \in Procs PROVE <<p, Main>> \in Threads
<1>1. PICK a \in ArgsOf[p] : Main \in RolesOf(a)
  BY DEF RolesOf
<1>2. Main \in Roles
  BY <1>1 DEF Roles
<1> QED
  BY <1>2 DEF Threads

LEMMA NameKinds ==
  ASSUME NEW t \in Threads
  PROVE  Name(t) \notin {Outside, Top}
<1>1. t[2] = <<t[2][1], t[2][2]>> /\ t[2][1] \in {"main", "scheduler", "tester", "worker"}
  BY RoleKinds, ThreadParts
<1>2. Name(t)[1] \in {"main", "scheduler", "tester", "worker"}
  BY <1>1 DEF Name
<1> QED
  BY <1>2 DEF Outside, Top

\* The CPU a thread asks for is one of its server's range.
LEMMA CpuInRange ==
  ASSUME NEW p \in Procs, arg[p] \in ArgsOf[p], NEW r \in RolesOf(arg[p])
  PROVE  CpuOf(p, r) \in Range(arg[p]) /\ Range(arg[p]) \subseteq Cpus
<1> DEFINE a == arg[p]
<1>1. a.start \in Nat /\ a.workers \in Nat \ {0} /\ a.start .. a.start + a.workers + 2 \subseteq Cpus
  OBVIOUS
<1>2. r \in {Main, SchedulerThread, Tester} \/ \E i \in 0 .. a.workers - 1 : r = <<"worker", i>>
  BY DEF RolesOf, WorkersOf
<1> HIDE DEF a
<1>3. CASE r \in {Main, SchedulerThread, Tester}
  BY <1>1, <1>3 DEF CpuOf, Range, Main, SchedulerThread, Tester, a
<1>4. ASSUME NEW i \in 0 .. a.workers - 1, r = <<"worker", i>> PROVE CpuOf(p, r) \in Range(a)
  <2>1. CpuOf(p, r) = a.start + i + 2
    BY <1>4 DEF CpuOf, Main, SchedulerThread, Tester, a
  <2> QED
    BY <1>1, <2>1 DEF Range
<1> QED
  BY <1>1, <1>2, <1>3, <1>4 DEF Range, a

---------------------------------------------------------------------------
(* Types *)

LEMMA TypeInit == Init => TypeInv
<1> SUFFICES ASSUME Init PROVE TypeInv
  OBVIOUS
<1>1. Made = {}
  BY DEF Init, Made
<1> QED
  BY <1>1 DEF Init, TypeInv, FunctionsOK, ThreadOK, TidOK, FilesOK, Alive, Stopped

LEMMA StoppedNone == ASSUME NEW p \in Procs PROVE Stopped \notin ArgsOf[p]
BY DEF Stopped

\* Servers that start, spawn a thread, or end.
LEMMA TypeServers ==
  ASSUME TypeInv, NEW p \in Procs,
         \/ \E a \in ArgsOf[p] : StartServer(p, a)
         \/ \E r \in Roles \ {Main}, n \in Tids \union {0} : Spawn(p, r, n)
         \/ Kill(p)
  PROVE  TypeInv'
<1>1. ASSUME NEW a \in ArgsOf[p], StartServer(p, a) PROVE TypeInv'
  <2> DEFINE m == <<p, Main>>
  <2>1. m \in Threads /\ m[1] = p /\ m[2] = Main /\ Main \in RolesOf(a) /\ Main[1] # "worker"
    BY MainThread DEF RolesOf, Main
  <2> HIDE DEF m
  <2>2. /\ arg' = [arg EXCEPT ![p] = a] /\ arg[p] = Stopped
        /\ pc[m] = "none" /\ pc' = [pc EXCEPT ![m] = "top"]
        /\ group' = [group EXCEPT ![m] = Outside] /\ UNCHANGED <<tid, top, dirs>>
    BY <1>1 DEF StartServer, Step, m
  <2>3. FunctionsOK' /\ FilesOK'
    BY <2>1, <2>2 DEF TypeInv, FunctionsOK, FilesOK, Steps, Made
  <2>4. ASSUME NEW t \in Threads PROVE ThreadOK(t)'
    <3>1. CASE t = m
      BY <2>1, <2>2, <3>1 DEF TypeInv, FunctionsOK, ThreadOK, Alive
    <3>2. CASE t # m
      <4>1. Alive(t)' => Alive(t)
        BY <2>1, <2>2, <3>2 DEF TypeInv, FunctionsOK, Alive
      <4>2. Alive(t) => t[1] # p
        BY <2>2, StoppedNone, ThreadParts DEF TypeInv, ThreadOK
      <4> QED
        BY <2>1, <2>2, <3>2, <4>1, <4>2, ThreadParts DEF TypeInv, FunctionsOK, ThreadOK, Made
    <3> QED
      BY <3>1, <3>2
  <2>5. TidOK'
    BY <2>1, <2>2 DEF TypeInv, FunctionsOK, TidOK, Alive
  <2> QED
    BY <2>3, <2>4, <2>5 DEF TypeInv
<1>2. ASSUME NEW r \in Roles \ {Main}, NEW n \in Tids \union {0}, Spawn(p, r, n) PROVE TypeInv'
  <2> DEFINE x == <<p, r>>
             m == <<p, Main>>
  <2>1. x \in Threads /\ x[1] = p /\ x[2] = r /\ r \in RolesOf(arg[p])
    BY <1>2 DEF Threads, Spawn
  <2>2. /\ pc[m] = "running" /\ pc[x] = "none" /\ pc' = [pc EXCEPT ![x] = "make"]
        /\ n \in IF r[1] = "worker" THEN Tids \ {tid[t] : t \in Threads} ELSE {0}
        /\ tid' = [tid EXCEPT ![x] = n] /\ group' = [group EXCEPT ![x] = group[m]]
        /\ UNCHANGED <<arg, top, dirs>>
    BY <1>2 DEF Spawn, Step
  <2>3. m \in Threads /\ m[1] = p /\ m[2] = Main /\ Main[1] # "worker"
    BY MainThread DEF Main
  <2> HIDE DEF x, m
  <2>4. tid[m] = 0 /\ tid[x] = 0
    BY <2>1, <2>2, <2>3 DEF TypeInv, TidOK, Alive
  <2>5. (r[1] = "worker" <=> n # 0) /\ \A t \in Threads : n # 0 => tid[t] # n
    BY <2>2, <2>3, <2>4
  <2>6. FunctionsOK' /\ FilesOK'
    BY <2>1, <2>2 DEF TypeInv, FunctionsOK, FilesOK, Steps, Made
  <2>7. ASSUME NEW t \in Threads PROVE ThreadOK(t)'
    BY <2>1, <2>2, <2>3 DEF TypeInv, FunctionsOK, ThreadOK, Alive, Made
  <2>8. TidOK'
    <3>1. \A t \in Threads : tid'[t] = IF t = x THEN n ELSE tid[t]
      BY <2>1, <2>2 DEF TypeInv, FunctionsOK
    <3>2. \A t \in Threads : Alive(t)' <=> t = x \/ Alive(t)
      BY <2>1, <2>2 DEF TypeInv, FunctionsOK, Alive
    <3> QED
      BY <2>1, <2>4, <2>5, <3>1, <3>2 DEF TypeInv, TidOK
  <2> QED
    BY <2>6, <2>7, <2>8 DEF TypeInv
<1>3. CASE Kill(p)
  <2>1. FunctionsOK' /\ FilesOK'
    BY <1>3 DEF Kill, TypeInv, FunctionsOK, FilesOK, Made
  <2>2. ASSUME NEW t \in Threads PROVE ThreadOK(t)'
    BY <1>3, ThreadParts DEF Kill, TypeInv, FunctionsOK, ThreadOK, Alive, Made
  <2>3. TidOK'
    BY <1>3 DEF Kill, TypeInv, TidOK, Alive
  <2> QED
    BY <2>1, <2>2, <2>3 DEF TypeInv
<1> QED
  BY <1>1, <1>2, <1>3

\* A thread's step that does not move it, and leaves every inhabited directory.
LEMMA TypeKept ==
  ASSUME TypeInv, NEW t \in Threads, NEW from, NEW to \in Steps, Step(t, from, to), Alive(t),
         UNCHANGED <<arg, tid>>, group' = [group EXCEPT ![t] = group'[t]],
         group'[t] \in {Outside, Top} \union Made',
         \A u \in Threads : Alive(u) /\ group[u] \in Made => u = t \/ group[u] \in Made',
         FilesOK'
  PROVE  TypeInv'
<1>1. /\ \A u \in Threads : (Alive(u)' <=> Alive(u)) /\ (u # t => group'[u] = group[u])
      /\ FunctionsOK'
  <2>1. pc' = [pc EXCEPT ![t] = to] /\ to # "none" /\ to \in Steps
    BY DEF Step, Steps
  <2> QED
    BY <2>1 DEF TypeInv, FunctionsOK, Alive
<1>2. ASSUME NEW u \in Threads PROVE ThreadOK(u)'
  BY <1>1 DEF TypeInv, ThreadOK
<1>3. TidOK'
  BY <1>1 DEF TypeInv, TidOK
<1> QED
  BY <1>1, <1>2, <1>3 DEF TypeInv

LEMMA MadeWith ==
  ASSUME NEW n, NEW d, dirs' = With(n, d)
  PROVE  /\ Made' = Made \union {n} /\ dirs'[n] = d
         /\ \A m \in Made \ {n} : dirs'[m] = dirs[m]
BY DEF With, Made

LEMMA MadeWithout ==
  ASSUME NEW n, dirs' = Without(n)
  PROVE  Made' = Made \ {n} /\ \A m \in Made' : dirs'[m] = dirs[m]
BY DEF Without, Made

\* The steps of a main thread about hyperwasm.
LEMMA TypeTop ==
  ASSUME TypeInv, NEW p \in Procs,
         MakeTop(p) \/ SetSubController(p) \/ SetTopCpus(p) \/ SetCgroupProcs(p)
  PROVE  TypeInv'
<1> DEFINE m == <<p, Main>>
<1>1. PICK from, to \in Steps : Step(m, from, to) /\ from # "none"
  BY DEF MakeTop, SetSubController, SetTopCpus, SetCgroupProcs, Steps
<1>2. UNCHANGED <<arg, tid, dirs>>
  BY DEF MakeTop, SetSubController, SetTopCpus, SetCgroupProcs
<1>3. group' = group \/ (group' = [group EXCEPT ![m] = Top] /\ top' = top)
  BY DEF MakeTop, SetSubController, SetTopCpus, SetCgroupProcs
<1>4. m \in Threads /\ Alive(m) /\ m[1] = p
  BY <1>1, MainThread DEF Step, Alive, Steps
<1>5. Range(arg[p]) \subseteq Cpus
  <2>1. arg[p] \in ArgsOf[p]
    BY <1>4 DEF TypeInv, ThreadOK
  <2>2. Main \in RolesOf(arg[p])
    BY DEF RolesOf
  <2> QED
    BY <2>1, <2>2, CpuInRange
<1>6. FilesOK'
  <2>1. top' \in [made : BOOLEAN, cpus : SUBSET Cpus, sub : BOOLEAN]
    BY <1>5 DEF MakeTop, SetSubController, SetTopCpus, SetCgroupProcs, TypeInv, FilesOK
  <2> QED
    BY <1>2, <2>1 DEF TypeInv, FilesOK, Made
<1> HIDE DEF m
<1>7. group' = [group EXCEPT ![m] = group'[m]] /\ group'[m] \in {Outside, Top} \union Made'
  BY <1>2, <1>3, <1>4 DEF TypeInv, FunctionsOK, ThreadOK, Made
<1> QED
  BY <1>1, <1>2, <1>4, <1>6, <1>7, TypeKept DEF Made

\* The steps of a thread about its own directory.
OwnStep(t) == Make(t) \/ SetThreaded(t) \/ SetCpuset(t) \/ SetCgroupThreads(t) \/ Drop(t)

LEMMA TypeOwn == ASSUME TypeInv, NEW t \in Threads, OwnStep(t) PROVE TypeInv'
<1>1. PICK from, to \in Steps : Step(t, from, to) /\ from # "none"
  BY DEF OwnStep, Make, SetThreaded, SetCpuset, SetCgroupThreads, Drop, Steps
<1>2. Alive(t) /\ UNCHANGED <<arg, tid>>
  BY <1>1 DEF Step, Alive, OwnStep, Make, SetThreaded, SetCpuset, SetCgroupThreads, Drop
<1>3. CpuOf(t[1], t[2]) \in Cpus
  <2>1. arg[t[1]] \in ArgsOf[t[1]] /\ t[2] \in RolesOf(arg[t[1]]) /\ t[1] \in Procs
    BY <1>2, ThreadParts DEF TypeInv, ThreadOK
  <2> QED
    BY <2>1, CpuInRange
<1>4. Name(t) \notin {Outside, Top}
  BY NameKinds
<1>5. \/ UNCHANGED <<dirs, top>>
      \/ /\ top' = top
         /\ \E d \in [threaded : BOOLEAN, cpus : SUBSET Cpus] : dirs' = With(Name(t), d)
      \/ /\ top' \in {top, [made |-> FALSE, cpus |-> {}, sub |-> FALSE]}
         /\ dirs' = dirs \/ (dirs' = Without(Name(t)) /\ Empty(Name(t)))
  <2>1. CASE Make(t)
    BY <2>1 DEF Make
  <2>2. CASE SetThreaded(t)
    BY <2>2 DEF SetThreaded, TypeInv, FilesOK
  <2>3. CASE SetCpuset(t)
    BY <1>3, <2>3 DEF SetCpuset, TypeInv, FilesOK
  <2>4. CASE SetCgroupThreads(t)
    BY <2>4 DEF SetCgroupThreads
  <2>5. CASE Drop(t)
    BY <2>5 DEF Drop
  <2> QED
    BY <2>1, <2>2, <2>3, <2>4, <2>5 DEF OwnStep
<1>6. FilesOK' /\ \A u \in Threads : group[u] \in Made => group[u] \in Made'
  <2>0. top' \in [made : BOOLEAN, cpus : SUBSET Cpus, sub : BOOLEAN]
    <3>1. [made |-> FALSE, cpus |-> {}, sub |-> FALSE]
            \in [made : BOOLEAN, cpus : SUBSET Cpus, sub : BOOLEAN]
      OBVIOUS
    <3>2. top' \in {top, [made |-> FALSE, cpus |-> {}, sub |-> FALSE]}
      BY <1>5
    <3> QED
      BY <3>1, <3>2 DEF TypeInv, FilesOK
  <2>1. CASE dirs' = dirs
    BY <2>0, <2>1 DEF TypeInv, FilesOK, Made
  <2>2. ASSUME top' = top, NEW d \in [threaded : BOOLEAN, cpus : SUBSET Cpus],
               dirs' = With(Name(t), d)
        PROVE  FilesOK' /\ \A u \in Threads : group[u] \in Made => group[u] \in Made'
    BY <1>4, <2>2, MadeWith DEF TypeInv, FilesOK
  <2>3. CASE dirs' = Without(Name(t)) /\ Empty(Name(t))
    BY <2>0, <2>3, MadeWithout DEF TypeInv, FilesOK, Empty
  <2> QED
    BY <1>5, <2>1, <2>2, <2>3
<1>7. group' = group \/ (group' = [group EXCEPT ![t] = Name(t)] /\ Name(t) \in Made')
  BY DEF OwnStep, Make, SetThreaded, SetCpuset, SetCgroupThreads, Drop, Made
<1>8. group' = [group EXCEPT ![t] = group'[t]] /\ group'[t] \in {Outside, Top} \union Made'
  BY <1>2, <1>6, <1>7 DEF TypeInv, FunctionsOK, ThreadOK
<1> QED
  BY <1>1, <1>2, <1>6, <1>8, TypeKept

\* Every variable keeps its type, whatever servers run, and a living thread is
\* in a directory that exists: no step removes one with a thread in it.
THEOREM CgroupTyping == Spec => []TypeInv
<1>1. TypeInv /\ [Next]_vars => TypeInv'
  <2>1. CASE UNCHANGED vars
    BY <2>1 DEF TypeInv, FunctionsOK, ThreadOK, TidOK, FilesOK, Alive, Made, vars
  <2> QED
    BY <2>1, TypeServers, TypeTop, TypeOwn DEF Next, OwnStep
<1> QED
  BY <1>1, TypeInit, PTL DEF Spec

\* A living thread has a CPU to run on.
LEMMA NarrowedSome ==
  ASSUME NEW S, NEW T, T # {} PROVE Narrowed(S, T) # {} /\ Narrowed(S, T) \subseteq T
BY DEF Narrowed

LEMMA RunsSomewhere ==
  ASSUME TypeInv, NEW t \in Threads, Alive(t) PROVE RunsOn(t) # {}
<1>1. Cpus # {}
  <2>1. arg[t[1]] \in ArgsOf[t[1]] /\ t[2] \in RolesOf(arg[t[1]]) /\ t[1] \in Procs
    BY ThreadParts DEF TypeInv, ThreadOK
  <2> QED
    BY <2>1, CpuInRange
<1>2. TopCpus # {}
  BY <1>1, NarrowedSome DEF TopCpus
<1>3. group[t] \in {Outside, Top} \union Made /\ Outside # Top
  BY DEF TypeInv, ThreadOK, Outside, Top
<1>4. Outside \notin Made /\ Top \notin Made
  BY DEF TypeInv, FilesOK
<1> QED
  BY <1>1, <1>2, <1>3, <1>4, NarrowedSome DEF RunsOn

\* Every variable keeps its type, whatever servers are started, killed and
\* restarted side by side.
THEOREM CgroupTypes == Spec => []CgroupTypeOK
<1>1. TypeInv => CgroupTypeOK
  <2> SUFFICES ASSUME TypeInv PROVE CgroupTypeOK
    OBVIOUS
  <2>1. \A t \in Threads : Alive(t) => arg[t[1]] # Stopped
    BY StoppedNone, ThreadParts DEF TypeInv, ThreadOK
  <2> QED
    BY <2>1, RunsSomewhere DEF TypeInv, FunctionsOK, TidOK, FilesOK, CgroupTypeOK
<1> QED
  BY <1>1, CgroupTyping, PTL

---------------------------------------------------------------------------
(* One server at a time, on a machine that offers the controller cpuset *)

SingleServer == \A p, q \in Procs : p = q
CpusetOffered == "cpuset" \in Offered

TopSteps == {"top", "sub", "topCpus", "procs"}
OwnSteps == {"make", "type", "cpus", "join", "drop", "running"}

\* hyperwasm is as far as the main thread has brought it.
TopReady(p) ==
    LET at == pc[<<p, Main>>]
    IN  /\ at \in {"sub", "topCpus", "procs"} \union OwnSteps => top.made
        /\ at \in {"topCpus", "procs"} \union OwnSteps => top.sub
        /\ at \in {"procs"} \union OwnSteps => top.cpus = Range(arg[p])

\* The others exist once the main thread has set itself up.
Spawned(t) ==
    t[2] # Main /\ Alive(t) => pc[<<t[1], Main>>] = "running" /\ pc[t] \in OwnSteps

\* Where a thread is, by how far it has come.
Placed(t) ==
    /\ pc[t] \in TopSteps => group[t] = Outside
    /\ pc[t] \in {"make", "type", "cpus", "join"} =>
        group[t] = IF t[2] = Main THEN Top ELSE Main
    /\ pc[t] \in {"drop", "running"} => group[t] = Name(t)

\* What its directory is, by how far it has come.
Equipped(t) ==
    /\ pc[t] \in OwnSteps \ {"make"} => Name(t) \in Made
    /\ pc[t] \in {"cpus", "join", "drop", "running"} => dirs[Name(t)].threaded
    /\ pc[t] \in {"join", "drop", "running"} => dirs[Name(t)].cpus = {CpuOf(t[1], t[2])}

PinOK(t) == Spawned(t) /\ Placed(t) /\ Equipped(t)
PinInv == (\A p \in Procs : TopReady(p)) /\ (\A t \in Threads : PinOK(t))

LEMMA NamesDiffer ==
  ASSUME TypeInv, SingleServer, NEW t \in Threads, NEW u \in Threads, t # u, Alive(t), Alive(u)
  PROVE  Name(t) # Name(u)
<1>1. t[1] = u[1] /\ t[2] # u[2] /\ t[2] \in Roles /\ u[2] \in Roles
  BY ThreadParts DEF SingleServer
<1>2. CASE t[2][1] = "worker" /\ u[2][1] = "worker"
  BY <1>2 DEF TypeInv, TidOK, Name
<1>3. CASE t[2][1] # "worker" \/ u[2][1] # "worker"
  BY <1>1, <1>3 DEF Name
<1> QED
  BY <1>2, <1>3

LEMMA PinServers ==
  ASSUME TypeInv, PinInv, SingleServer, NEW p \in Procs,
         \/ \E a \in ArgsOf[p] : StartServer(p, a)
         \/ \E r \in Roles \ {Main}, n \in Tids \union {0} : Spawn(p, r, n)
         \/ Kill(p)
  PROVE  PinInv'
<1> DEFINE m == <<p, Main>>
<1>1. /\ m \in Threads /\ m[1] = p /\ m[2] = Main
      /\ \A t \in Threads : t[1] = p /\ (t[2] = Main => t = m)
  BY MainThread, ThreadParts DEF SingleServer
<1>2. \A q \in Procs : q = p
  BY DEF SingleServer
<1> HIDE DEF m
<1>3. ASSUME NEW a \in ArgsOf[p], StartServer(p, a) PROVE PinInv'
  <2>1. /\ arg[p] = Stopped
        /\ pc[m] = "none" /\ pc' = [pc EXCEPT ![m] = "top"]
        /\ group' = [group EXCEPT ![m] = Outside]
    BY <1>3 DEF StartServer, Step, m
  <2>2. \A t \in Threads : pc[t] = "none"
    BY <1>1, <2>1, StoppedNone DEF TypeInv, ThreadOK, Alive
  <2>3. \A t \in Threads : pc'[t] = (IF t = m THEN "top" ELSE "none") /\ group'[m] = Outside
    BY <1>1, <2>1, <2>2 DEF TypeInv, FunctionsOK
  <2>4. \A q \in Procs : TopReady(q)'
    BY <1>1, <1>2, <2>3 DEF TopReady, OwnSteps, m
  <2>5. ASSUME NEW t \in Threads PROVE PinOK(t)'
    <3>1. pc'[t] = "top" => group'[t] = Outside
      BY <2>3
    <3> QED
      BY <1>1, <2>3, <3>1 DEF PinOK, Spawned, Placed, Equipped, Alive, OwnSteps, TopSteps
  <2> QED
    BY <2>4, <2>5 DEF PinInv
<1>4. ASSUME NEW r \in Roles \ {Main}, NEW n \in Tids \union {0}, Spawn(p, r, n) PROVE PinInv'
  <2> DEFINE x == <<p, r>>
  <2>1. x \in Threads /\ x[1] = p /\ x[2] = r /\ r # Main /\ x # m
    BY <1>1 DEF Threads
  <2>2. /\ pc[m] = "running" /\ pc[x] = "none" /\ pc' = [pc EXCEPT ![x] = "make"]
        /\ tid' = [tid EXCEPT ![x] = n] /\ group' = [group EXCEPT ![x] = group[m]]
        /\ UNCHANGED <<arg, top, dirs>>
    BY <1>4 DEF Spawn, Step, m
  <2> HIDE DEF x
  <2>3. group[m] = Main
    <3>1. Placed(m)
      BY <1>1 DEF PinInv, PinOK
    <3>2. Name(m) = Main
      BY <1>1 DEF Name, Main
    <3> QED
      BY <2>2, <3>1, <3>2 DEF Placed
  <2>4. \A t \in Threads :
            /\ pc'[t] = (IF t = x THEN "make" ELSE pc[t])
            /\ group'[t] = (IF t = x THEN Main ELSE group[t])
            /\ t # x => Name(t)' = Name(t)
    BY <2>1, <2>2, <2>3 DEF TypeInv, FunctionsOK, Name
  <2>5. \A q \in Procs : TopReady(q)'
    BY <1>1, <1>2, <2>1, <2>2, <2>4 DEF PinInv, TopReady, Range, m
  <2>6. ASSUME NEW t \in Threads PROVE PinOK(t)'
    <3>1. CASE t = x
      BY <1>1, <2>1, <2>2, <2>4, <3>1 DEF PinOK, Spawned, Placed, Equipped, OwnSteps, TopSteps, m
    <3>2. CASE t # x
      <4>1. PinOK(t) /\ CpuOf(t[1], t[2])' = CpuOf(t[1], t[2]) /\ Made' = Made
        BY <2>2 DEF PinInv, CpuOf, Made
      <4>2. Spawned(t)'
        BY <1>1, <2>1, <2>4, <3>2, <4>1 DEF PinOK, Spawned, Alive, m
      <4>3. Placed(t)' /\ Equipped(t)'
        BY <2>2, <2>4, <3>2, <4>1 DEF PinOK, Placed, Equipped
      <4> QED
        BY <4>2, <4>3 DEF PinOK
    <3> QED
      BY <3>1, <3>2
  <2> QED
    BY <2>5, <2>6 DEF PinInv
<1>5. CASE Kill(p)
  <2>1. \A t \in Threads : pc'[t] = "none"
    BY <1>1, <1>5 DEF Kill
  <2>2. \A q \in Procs : TopReady(q)'
    BY <1>1, <1>2, <2>1 DEF TopReady, OwnSteps, m
  <2>3. ASSUME NEW t \in Threads PROVE PinOK(t)'
    BY <2>1 DEF PinOK, Spawned, Placed, Equipped, Alive, OwnSteps, TopSteps
  <2> QED
    BY <2>2, <2>3 DEF PinInv
<1> QED
  BY <1>3, <1>4, <1>5

\* While the main thread sets hyperwasm up, it is alone.
LEMMA PinTop ==
  ASSUME TypeInv, PinInv, SingleServer, CpusetOffered, NEW p \in Procs,
         MakeTop(p) \/ SetSubController(p) \/ SetTopCpus(p) \/ SetCgroupProcs(p)
  PROVE  PinInv'
<1> DEFINE m == <<p, Main>>
<1>1. /\ m \in Threads /\ m[1] = p /\ m[2] = Main
      /\ \A t \in Threads : t[1] = p /\ (t[2] = Main => t = m)
  BY MainThread, ThreadParts DEF SingleServer
<1>2. \A q \in Procs : q = p
  BY DEF SingleServer
<1>3. \E from, to : /\ Step(m, from, to)
                    /\ <<from, to>> \in {<<"top", "sub">>, <<"sub", "topCpus">>,
                                         <<"topCpus", "procs">>, <<"procs", "make">>}
  <2>1. CASE MakeTop(p)
    BY <2>1 DEF MakeTop
  <2>2. CASE SetSubController(p)
    BY <2>2 DEF SetSubController
  <2>3. CASE SetTopCpus(p)
    BY <2>3 DEF SetTopCpus
  <2>4. CASE SetCgroupProcs(p)
    BY <2>4 DEF SetCgroupProcs
  <2> QED
    BY <2>1, <2>2, <2>3, <2>4
<1>4. UNCHANGED <<arg, tid, dirs>>
  BY DEF MakeTop, SetSubController, SetTopCpus, SetCgroupProcs
<1>5. \A t \in Threads : t # m => pc[t] = "none" /\ pc'[t] = "none"
  BY <1>1, <1>3 DEF Step, PinInv, PinOK, Spawned, Alive, TypeInv, FunctionsOK, m
<1>6. TopReady(p)'
  <2>1. TopReady(p) /\ Range(arg[p])' = Range(arg[p]) /\ pc'[m] = pc'[<<p, Main>>]
    BY <1>4 DEF PinInv, Range
  <2>2. /\ m \in DOMAIN pc /\ top \in [made : BOOLEAN, cpus : SUBSET Cpus, sub : BOOLEAN]
        /\ pc[m] = pc[<<p, Main>>]
    BY <1>1 DEF TypeInv, FunctionsOK, FilesOK
  <2> USE <2>1, <2>2 DEF TopReady, Step, OwnSteps, m
  <2>3. CASE MakeTop(p)
    BY <2>3 DEF MakeTop
  <2>4. CASE SetSubController(p)
    BY <2>4 DEF SetSubController, CpusetOffered
  <2>5. CASE SetTopCpus(p)
    BY <2>5 DEF SetTopCpus, CpusetOffered
  <2>6. CASE SetCgroupProcs(p)
    BY <2>6 DEF SetCgroupProcs
  <2> QED
    BY <2>3, <2>4, <2>5, <2>6
<1>7. PinOK(m)'
  <2>1. Placed(m) /\ m \in DOMAIN pc /\ m \in DOMAIN group
    BY <1>1 DEF PinInv, PinOK, TypeInv, FunctionsOK
  <2>2. CASE SetCgroupProcs(p)
    BY <1>1, <2>1, <2>2 DEF SetCgroupProcs, Step, PinOK, Spawned, Placed, Equipped, OwnSteps, TopSteps, m
  <2>3. CASE MakeTop(p) \/ SetSubController(p) \/ SetTopCpus(p)
    <3>1. group' = group /\ pc[m] \in TopSteps /\ pc'[m] \in TopSteps
      BY <2>1, <2>3 DEF MakeTop, SetSubController, SetTopCpus, Step, TopSteps, m
    <3> QED
      BY <1>1, <2>1, <3>1 DEF PinOK, Spawned, Placed, Equipped, OwnSteps, TopSteps
  <2> QED
    BY <2>2, <2>3
<1> HIDE DEF m
<1>8. ASSUME NEW t \in Threads PROVE PinOK(t)'
  <2>1. CASE t # m
    BY <1>5, <2>1 DEF PinOK, Spawned, Placed, Equipped, Alive, OwnSteps, TopSteps
  <2> QED
    BY <1>7, <2>1
<1> QED
  BY <1>2, <1>6, <1>8 DEF PinInv

\* A thread's own step leaves hyperwasm and the directories of the others.
LEMMA PinOwn ==
  ASSUME TypeInv, PinInv, SingleServer, NEW t \in Threads, OwnStep(t)
  PROVE  PinInv'
<1> DEFINE n == Name(t)
           cpu == CpuOf(t[1], t[2])
           m == <<t[1], Main>>
<1>1. UNCHANGED <<arg, tid>>
  BY DEF OwnStep, Make, SetThreaded, SetCpuset, SetCgroupThreads, Drop
<1>2. /\ m \in Threads /\ m[1] = t[1] /\ m[2] = Main
      /\ \A u \in Threads : u[1] = t[1] /\ (u[2] = Main => u = m)
  BY MainThread, ThreadParts DEF SingleServer
<1>3. \E from, to \in OwnSteps :
        /\ Step(t, from, to) /\ to # "make"
        /\ to = "running" => from = "drop"
  BY DEF OwnStep, Make, SetThreaded, SetCpuset, SetCgroupThreads, Drop, OwnSteps
<1>4. /\ pc[t] \in OwnSteps /\ pc'[t] \in OwnSteps /\ Alive(t) /\ pc[t] # "running"
      /\ \A u \in Threads : u # t => pc'[u] = pc[u]
  <2>1. pc[t] # "running"
    BY DEF OwnStep, Make, SetThreaded, SetCpuset, SetCgroupThreads, Drop, Step
  <2> QED
    BY <1>3, <2>1 DEF Step, TypeInv, FunctionsOK, Alive, OwnSteps
<1>5. pc[m] \in OwnSteps
  BY <1>2, <1>4 DEF PinInv, PinOK, Spawned, OwnSteps
<1>6. top.made /\ top.sub
  BY <1>2, <1>5, ThreadParts DEF PinInv, TopReady
<1>7. PinOK(t)
  BY DEF PinInv
<1>8. top' = top
  <2>1. CASE Drop(t)
    <3>1. group[t] = n
      BY <1>7, <2>1 DEF Drop, Step, PinOK, Placed
    <3>2. ~Empty(n) /\ n \in Made
      BY <1>7, <2>1, <3>1 DEF Empty, PinOK, Equipped, Drop, Step, OwnSteps
    <3>3. dirs' = dirs
      BY <2>1, <3>2 DEF Drop
    <3> QED
      BY <2>1, <3>2, <3>3 DEF Drop, Made
  <2> QED
    BY <2>1 DEF OwnStep, Make, SetThreaded, SetCpuset, SetCgroupThreads
<1>9. /\ Made' \subseteq Made \union {n} /\ Made \subseteq Made'
      /\ \A k \in Made : k # n => dirs'[k] = dirs[k]
  <2>1. CASE Drop(t)
    <3>1. group[t] = n /\ ~Empty(n)
      BY <1>7, <2>1 DEF Drop, Step, PinOK, Placed, Empty
    <3> QED
      BY <2>1, <3>1 DEF Drop, Made
  <2>2. CASE ~Drop(t)
    <3>1. dirs' = dirs \/ \E d : dirs' = With(n, d)
      BY <2>2 DEF OwnStep, Make, SetThreaded, SetCpuset, SetCgroupThreads
    <3>2. ASSUME NEW d, dirs' = With(n, d)
          PROVE  /\ Made' \subseteq Made \union {n} /\ Made \subseteq Made'
                 /\ \A k \in Made : k # n => dirs'[k] = dirs[k]
      BY <3>2, MadeWith
    <3> QED
      BY <3>1, <3>2 DEF Made
  <2> QED
    BY <2>1, <2>2
<1>10. \A u \in Threads : u # t => group'[u] = group[u]
  BY DEF OwnStep, Make, SetThreaded, SetCpuset, SetCgroupThreads, Drop, TypeInv, FunctionsOK
<1>11. \A u \in Threads : Name(u)' = Name(u) /\ CpuOf(u[1], u[2])' = CpuOf(u[1], u[2])
  BY <1>1 DEF Name, CpuOf
<1>12. \A p \in Procs : TopReady(p)'
  <2>1. \A p \in Procs : p = t[1] /\ TopReady(p) /\ Range(arg[p])' = Range(arg[p])
    BY <1>1, ThreadParts DEF SingleServer, PinInv, Range
  <2>2. pc'[m] \in OwnSteps
    BY <1>2, <1>4, <1>5
  <2> QED
    BY <1>5, <1>8, <2>1, <2>2 DEF TopReady
<1>13. ASSUME NEW u \in Threads, u # t PROVE PinOK(u)'
  <2>1. PinOK(u) /\ (Alive(u)' <=> Alive(u))
    BY <1>4, <1>13 DEF PinInv, Alive
  <2>2. Spawned(u)'
    <3>1. u[2] # Main /\ Alive(u) => t # m
      BY <1>2, <1>4, <2>1 DEF PinOK, Spawned
    <3>2. <<u[1], Main>> = m
      BY <1>2
    <3>3. CASE u[2] # Main /\ Alive(u)
      BY <1>2, <1>4, <1>13, <2>1, <3>1, <3>2, <3>3 DEF PinOK, Spawned
    <3> QED
      BY <2>1, <3>3 DEF Spawned
  <2>3. Placed(u)'
    BY <1>4, <1>10, <1>11, <1>13, <2>1 DEF PinOK, Placed
  <2>4. Equipped(u)'
    <3>1. Alive(u) => Name(u) # n
      BY <1>4, <1>13, NamesDiffer
    <3>2. pc[u] \in OwnSteps => Alive(u)
      BY DEF OwnSteps, Alive
    <3> HIDE DEF n
    <3> QED
      BY <1>4, <1>9, <1>11, <1>13, <2>1, <3>1, <3>2 DEF PinOK, Equipped, OwnSteps
  <2> QED
    BY <2>2, <2>3, <2>4 DEF PinOK
<1>14. PinOK(t)'
  <2>1. Spawned(t)'
    <3>1. t[2] # Main => t # m /\ pc[m] = "running"
      BY <1>2, <1>4, <1>7 DEF PinOK, Spawned
    <3> QED
      BY <1>2, <1>4, <3>1 DEF Spawned
  <2>2. Placed(t)'
    <3>1. Placed(t) /\ t \in DOMAIN group
      BY <1>7 DEF PinOK, TypeInv, FunctionsOK
    <3>2. Name(t)' = n /\ pc'[t] \in OwnSteps
      BY <1>4, <1>11
    <3>3. CASE SetCgroupThreads(t)
      <4>1. group[t] # Outside /\ n \in Made /\ dirs[n].threaded
        BY <1>7, <3>1, <3>3 DEF SetCgroupThreads, Step, PinOK, Placed, Equipped, OwnSteps, Outside, Top, Main
      <4>2. group' = [group EXCEPT ![t] = n] /\ pc'[t] = "drop"
        BY <1>4, <3>3, <4>1 DEF SetCgroupThreads, Step, TypeInv, FunctionsOK
      <4> QED
        BY <3>1, <3>2, <4>2 DEF Placed, TopSteps
    <3>4. CASE Make(t) \/ SetThreaded(t) \/ SetCpuset(t)
      <4>1. /\ group' = group /\ pc[t] \in {"make", "type", "cpus"}
            /\ pc'[t] \in {"type", "cpus", "join"}
        BY <3>4 DEF Make, SetThreaded, SetCpuset, Step, TypeInv, FunctionsOK
      <4> QED
        BY <3>1, <4>1 DEF Placed, TopSteps
    <3>5. CASE Drop(t)
      <4>1. group' = group /\ pc[t] = "drop" /\ pc'[t] = "running"
        BY <3>5 DEF Drop, Step, TypeInv, FunctionsOK
      <4> QED
        BY <3>1, <3>2, <4>1 DEF Placed, TopSteps
    <3> QED
      BY <3>3, <3>4, <3>5 DEF OwnStep
  <2>3. Equipped(t)'
    <3>1. Equipped(t) /\ Name(t)' = n /\ CpuOf(t[1], t[2])' = cpu
      BY <1>7, <1>11 DEF PinOK
    <3>2. CASE Make(t)
      <4>1. pc'[t] = "type" /\ n \in Made'
        BY <1>6, <3>2, MadeWith DEF Make, Step, Made, TypeInv, FunctionsOK
      <4> QED
        BY <3>1, <4>1 DEF Equipped
    <3>3. CASE SetThreaded(t)
      <4>1. n \in Made /\ pc'[t] = "cpus" /\ dirs' = With(n, [dirs[n] EXCEPT !.threaded = TRUE])
        BY <3>1, <3>3 DEF SetThreaded, Step, Equipped, OwnSteps, TypeInv, FunctionsOK
      <4>2. n \in Made' /\ dirs'[n] = [dirs[n] EXCEPT !.threaded = TRUE]
        BY <4>1, MadeWith
      <4>3. dirs'[n].threaded
        BY <4>1, <4>2 DEF TypeInv, FilesOK
      <4> QED
        BY <3>1, <4>1, <4>2, <4>3 DEF Equipped
    <3>4. CASE SetCpuset(t)
      <4>1. /\ n \in Made /\ dirs[n].threaded /\ pc'[t] = "join"
            /\ dirs' = With(n, [dirs[n] EXCEPT !.cpus = {cpu}])
        BY <1>6, <3>1, <3>4 DEF SetCpuset, Step, Equipped, OwnSteps, TypeInv, FunctionsOK
      <4>2. n \in Made' /\ dirs'[n] = [dirs[n] EXCEPT !.cpus = {cpu}]
        BY <4>1, MadeWith
      <4>3. dirs'[n].threaded /\ dirs'[n].cpus = {cpu}
        BY <4>1, <4>2 DEF TypeInv, FilesOK
      <4> QED
        BY <3>1, <4>1, <4>2, <4>3 DEF Equipped
    <3>5. CASE SetCgroupThreads(t)
      BY <1>7, <3>1, <3>5 DEF SetCgroupThreads, Step, Equipped, OwnSteps, Made, TypeInv, FunctionsOK
    <3>6. CASE Drop(t)
      <4>1. group[t] = n /\ ~Empty(n)
        BY <1>7, <3>6 DEF Drop, Step, PinOK, Placed, Empty
      <4>2. dirs' = dirs /\ pc[t] = "drop" /\ pc'[t] = "running"
        BY <3>6, <4>1 DEF Drop, Step, TypeInv, FunctionsOK
      <4> QED
        BY <3>1, <4>2 DEF Equipped, OwnSteps, Made
    <3> QED
      BY <3>2, <3>3, <3>4, <3>5, <3>6 DEF OwnStep
  <2> QED
    BY <2>1, <2>2, <2>3 DEF PinOK
<1> QED
  BY <1>12, <1>13, <1>14 DEF PinInv

\* The inductive invariant of one server: each thread has come as far with its
\* directory as its program counter says, and no step of another thread, no
\* leftover of an earlier server and no destructor undoes it.
THEOREM Pinning == SingleServer /\ CpusetOffered => (Spec => [](TypeInv /\ PinInv))
<1> SUFFICES ASSUME SingleServer, CpusetOffered PROVE Spec => [](TypeInv /\ PinInv)
  OBVIOUS
<1>1. Init => PinInv
  BY MainThread DEF Init, PinInv, TopReady, PinOK, Spawned, Placed, Equipped, Alive, OwnSteps, TopSteps
<1>2. TypeInv /\ PinInv /\ [Next]_vars => PinInv'
  <2>1. CASE UNCHANGED vars
    BY <2>1 DEF PinInv, TopReady, PinOK, Spawned, Placed, Equipped, Alive, Name, CpuOf, Range, Made, vars
  <2> QED
    BY <2>1, PinServers, PinTop, PinOwn DEF Next, OwnStep
<1> QED
  BY <1>1, <1>2, CgroupTyping, PTL DEF Spec

\* A thread that is past the first steps runs in the range of its server.
LEMMA InRange ==
  ASSUME TypeInv, PinInv, NEW t \in Threads, pc[t] \in OwnSteps
  PROVE  /\ RunsOn(t) \subseteq Range(arg[t[1]])
         /\ group[t] = Name(t) => RunsOn(t) = {CpuOf(t[1], t[2])}
<1> DEFINE p == t[1]
           cpu == CpuOf(t[1], t[2])
<1>1. /\ Alive(t) /\ arg[p] \in ArgsOf[p] /\ t[2] \in RolesOf(arg[p]) /\ p \in Procs
      /\ group[t] \in {Outside, Top} \union Made /\ PinOK(t)
  BY ThreadParts DEF PinInv, TypeInv, ThreadOK, Alive, OwnSteps
<1>2. pc[<<p, Main>>] \in OwnSteps
  <2>1. t[2] = Main => t = <<p, Main>>
    BY ThreadParts
  <2> QED
    BY <1>1, <2>1 DEF PinOK, Spawned, OwnSteps
<1>3. top.sub /\ top.cpus = Range(arg[p])
  BY <1>1, <1>2 DEF PinInv, TopReady
<1>4. cpu \in Range(arg[p]) /\ Range(arg[p]) \subseteq Cpus
  BY <1>1, CpuInRange
<1>5. TopCpus = Range(arg[p])
  BY <1>3, <1>4 DEF TopCpus, Narrowed
<1>6. Outside # Top /\ Outside # Main /\ Top # Main /\ Name(t) \notin {Outside, Top}
  BY NameKinds DEF Outside, Top, Main
<1>7. group[t] # Outside
  BY <1>1, <1>6 DEF PinOK, Placed, OwnSteps
<1>8. Top \notin Made
  BY DEF TypeInv, FilesOK
<1>9. RunsOn(t) = IF group[t] = Top THEN TopCpus ELSE Narrowed(dirs[group[t]].cpus, TopCpus)
  BY <1>1, <1>3, <1>7, <1>8 DEF RunsOn
<1>10. RunsOn(t) \subseteq Range(arg[p])
  BY <1>4, <1>5, <1>9 DEF Narrowed
<1>11. ASSUME group[t] = Name(t) PROVE RunsOn(t) = {cpu}
  <2>1. dirs[Name(t)].cpus = {cpu}
    <3>1. CASE pc[t] \in {"drop", "running"}
      BY <1>1, <3>1 DEF PinOK, Equipped
    <3>2. CASE pc[t] \in {"make", "type", "cpus", "join"}
      <4>1. t[2] # Main /\ group[t] = Main
        BY <1>1, <1>6, <1>11, <3>2 DEF PinOK, Placed
      <4>2. Name(t) # Main
        <5>1. t[2] = <<t[2][1], t[2][2]>>
          BY RoleKinds, ThreadParts
        <5> QED
          BY <4>1, <5>1 DEF Name, Main
      <4> QED
        BY <1>11, <4>1, <4>2
    <3> QED
      BY <3>1, <3>2 DEF OwnSteps
  <2> QED
    BY <1>4, <1>5, <1>6, <1>9, <1>11, <2>1 DEF Narrowed
<1> QED
  BY <1>10, <1>11

\* Each of the threads of a server has asked for a CPU of its own.
LEMMA CpusDiffer ==
  ASSUME TypeInv, SingleServer, NEW t \in Threads, NEW u \in Threads, t # u, Alive(t), Alive(u)
  PROVE  CpuOf(t[1], t[2]) # CpuOf(u[1], u[2])
<1> DEFINE a == arg[t[1]]
<1>1. /\ t[1] = u[1] /\ t[2] # u[2] /\ t[1] \in Procs
      /\ a \in ArgsOf[t[1]] /\ t[2] \in RolesOf(a) /\ u[2] \in RolesOf(a)
  BY ThreadParts DEF SingleServer, TypeInv, ThreadOK
<1>2. a.start \in Nat /\ a.workers \in Nat \ {0}
  BY <1>1
<1> DEFINE C(r) == CASE r = Main -> a.start
                     [] r = SchedulerThread -> a.start + 1
                     [] r = Tester -> a.start + 2 + a.workers
                     [] OTHER -> a.start + r[2] + 2
<1>3. CpuOf(t[1], t[2]) = C(t[2]) /\ CpuOf(u[1], u[2]) = C(u[2])
  BY <1>1 DEF CpuOf
<1> HIDE DEF a
<1>4. \A r \in RolesOf(a) :
        \/ r = Main /\ C(r) = a.start
        \/ r = SchedulerThread /\ C(r) = a.start + 1
        \/ r = Tester /\ C(r) = a.start + 2 + a.workers
        \/ \E i \in 0 .. a.workers - 1 : r = <<"worker", i>> /\ C(r) = a.start + i + 2
  <2> SUFFICES ASSUME NEW r \in RolesOf(a)
               PROVE  \/ r = Main /\ C(r) = a.start
                      \/ r = SchedulerThread /\ C(r) = a.start + 1
                      \/ r = Tester /\ C(r) = a.start + 2 + a.workers
                      \/ \E i \in 0 .. a.workers - 1 : r = <<"worker", i>> /\ C(r) = a.start + i + 2
    OBVIOUS
  <2>1. Main # SchedulerThread /\ Main # Tester /\ SchedulerThread # Tester
    BY DEF Main, SchedulerThread, Tester
  <2>2. CASE r \in {Main, SchedulerThread, Tester}
    BY <2>1, <2>2
  <2>3. ASSUME NEW i \in 0 .. a.workers - 1, r = <<"worker", i>> PROVE C(r) = a.start + i + 2
    <3>1. r \notin {Main, SchedulerThread, Tester} /\ r[2] = i
      BY <2>3 DEF Main, SchedulerThread, Tester
    <3> QED
      BY <3>1
  <2> QED
    BY <2>2, <2>3 DEF RolesOf, WorkersOf
<1> HIDE DEF C
<1> QED
  BY <1>1, <1>2, <1>3, <1>4

\* With one server on the machine, a thread in the directory it asked for runs
\* on the CPU it asked for, whatever an earlier server has left behind.
THEOREM JoinedPinned == SingleServer /\ CpusetOffered => (Spec => []JoinedIsPinned)
<1> SUFFICES ASSUME SingleServer, CpusetOffered PROVE Spec => []JoinedIsPinned
  OBVIOUS
<1>1. TypeInv /\ PinInv => JoinedIsPinned
  <2> SUFFICES ASSUME TypeInv, PinInv, NEW t \in Threads, Alive(t), group[t] = Name(t)
               PROVE  RunsOn(t) = {CpuOf(t[1], t[2])}
    BY DEF JoinedIsPinned
  <2>1. pc[t] \notin TopSteps
    <3>1. pc[t] \in TopSteps => group[t] = Outside
      BY DEF PinInv, PinOK, Placed
    <3> QED
      BY <3>1, NameKinds
  <2>2. pc[t] \in OwnSteps
    BY <2>1 DEF Alive, TypeInv, FunctionsOK, Steps, TopSteps, OwnSteps
  <2> QED
    BY <2>2, InRange
<1> QED
  BY <1>1, Pinning, PTL

\* With one server on the machine, no thread leaves the CPUs the server was
\* given, from the step that moves its process on.
THEOREM RangeKept == SingleServer /\ CpusetOffered => (Spec => []StaysInRange)
<1> SUFFICES ASSUME SingleServer, CpusetOffered PROVE Spec => []StaysInRange
  OBVIOUS
<1>1. TypeInv /\ PinInv => StaysInRange
  BY InRange DEF StaysInRange, Alive, TypeInv, FunctionsOK, Steps, OwnSteps
<1> QED
  BY <1>1, Pinning, PTL

\* With one server on the machine, threads that have set themselves up share
\* no CPU, as the table in Server::start has it, across restarts.
THEOREM CpusApart == SingleServer /\ CpusetOffered => (Spec => []OwnCpus)
<1> SUFFICES ASSUME SingleServer, CpusetOffered PROVE Spec => []OwnCpus
  OBVIOUS
<1>1. TypeInv /\ PinInv => OwnCpus
  <2> SUFFICES ASSUME TypeInv, PinInv, NEW t \in Threads, NEW u \in Threads,
                      t # u, pc[t] = "running", pc[u] = "running"
               PROVE  RunsOn(t) \intersect RunsOn(u) = {}
    BY DEF OwnCpus
  <2>1. group[t] = Name(t) /\ group[u] = Name(u)
    BY DEF PinInv, PinOK, Placed
  <2>2. RunsOn(t) = {CpuOf(t[1], t[2])} /\ RunsOn(u) = {CpuOf(u[1], u[2])}
    BY <2>1, InRange DEF OwnSteps
  <2>3. CpuOf(t[1], t[2]) # CpuOf(u[1], u[2])
    BY CpusDiffer DEF Alive
  <2> QED
    BY <2>2, <2>3
<1> QED
  BY <1>1, Pinning, PTL
=============================================================================
