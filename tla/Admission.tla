------------------------------ MODULE Admission ------------------------------
(***************************************************************************)
(* The arithmetic of admission control: the durations of call_func         *)
(* (src/runwasm.rs), the accounting of SchedulerStatus (src/task/mod.rs),  *)
(* is_schedulable (src/runtime.rs) and the ava_time map                    *)
(* (src/scheduler/mod.rs), for one worker and in integer time.             *)
(*                                                                         *)
(* GlobalScheduler and Worker interleave every step of a hand-over and     *)
(* leave the arithmetic open; this module does the arithmetic, with the    *)
(* coroutine's own status and its copy on the board kept apart.  Time      *)
(* passes while a task runs, while nothing is left to run, between a push  *)
(* and the note on the board, and while is_schedulable busy-waits, for as  *)
(* long as it waits: compiling, instantiating, signals and switches cost   *)
(* nothing.  What goes wrong here goes wrong on the fastest machine.       *)
(***************************************************************************)
EXTENDS Integers, FiniteSets, FiniteSetsExt

CONSTANTS
    MaxTasks,      \* bound: real-time requests that get an id
    Horizon,       \* bound: the last instant looked at
    Costs,         \* expected_execution_time of a request, 0 when not given
    RelDeadlines,  \* expected_deadline of a request, 0 when not given
    MaxOverrun     \* a guest function runs at most this much longer than declared

ASSUME AdmissionAssumption ==
    /\ {MaxTasks, Horizon, MaxOverrun} \subseteq Nat
    /\ Costs \subseteq Nat /\ RelDeadlines \subseteq Nat

None == 0
Tasks == 1 .. MaxTasks      \* real-time tasks, in the order of their ids
Nrt == MaxTasks + 1         \* one task without a deadline
Ids == Tasks \union {Nrt}
NotStarted == -1            \* curr_start_time is None
Instants == 0 .. Horizon

VARIABLES
    now,        \* Instant::now()
    nextId,     \* the counter ID
    \* SchedulerStatus in the coroutine
    cost,       \* expected_execution_time
    due,        \* absolute_deadline
    ran,        \* running_time
    rem,        \* expected_remaining_execution_time
    start,      \* curr_start_time
    \* struct Scheduler, one worker
    board,      \* co_status: id -> copy of the part of the status that changes
    ava,        \* ava_time: id -> available time
    curId,      \* curr_running_id
    \* the worker
    run,        \* the task on the CPU
    ready,      \* real-time tasks handed over and not running
    nrt,        \* the task without a deadline: "absent", "waiting", "running", "over"
    done,       \* finished real-time tasks
    got,        \* history: the CPU time a task has really had
    \* the global scheduler thread
    spc,        \* where it is
    job,        \* id of the request in hand
    snap,       \* status_map: copy of the board
    copy,       \* map: changed copy of ava_time
    verdict,    \* AdmissionControl
    via,        \* the branch that gave the verdict
    waited,     \* history: has a busy-wait taken time?
    late        \* history: tasks noted after the worker had begun them

statusVars == <<cost, due, ran, rem, start>>
workerVars == <<run, ready, nrt, done, got, curId>>
historyVars == <<waited, late>>
threadVars == <<spc, job, snap, copy, verdict, via, historyVars>>
vars == <<now, nextId, statusVars, board, ava, workerVars, threadVars>>

NoMap == [c \in {} |-> 0]

Init ==
    /\ now = 0 /\ nextId = 1
    /\ cost = [c \in Ids |-> 0] /\ due = [c \in Ids |-> 0]
    /\ ran = [c \in Ids |-> 0] /\ rem = [c \in Ids |-> 0]
    /\ start = [c \in Ids |-> NotStarted]
    /\ board = NoMap /\ ava = NoMap /\ curId = None
    /\ run = None /\ ready = {} /\ nrt = "absent" /\ done = {}
    /\ got = [c \in Ids |-> 0]
    /\ spc = "idle" /\ job = None /\ snap = NoMap /\ copy = NoMap
    /\ verdict = "none" /\ via = "none" /\ waited = FALSE /\ late = {}

-----------------------------------------------------------------------------
(* Maps and durations *)

NonNeg(x) == IF x < 0 THEN 0 ELSE x           \* Instant - Instant saturates
PutEntry(map, c, x) == [d \in DOMAIN map \union {c} |-> IF d = c THEN x ELSE map[d]]
DropEntry(map, c) == [d \in DOMAIN map \ {c} |-> map[d]]

-----------------------------------------------------------------------------
(* SchedulerStatus *)

\* Mutant of Remaining: the time run so far is charged again at each switch.
RemainingAgain(c, total) == NonNeg(rem[c] - total)

\* update_remaining: a task that has run longer than declared is charged in full.
Remaining(c, total) == IF cost[c] >= total THEN cost[c] - total ELSE cost[c]

\* The changing part of a status: before the coroutine has run ...
Initial(c) == [rem |-> cost[c], start |-> NotStarted]

\* Mutant of Started: the copy is made before the clock is started.
StartedUnclocked(c) == [rem |-> rem[c], start |-> NotStarted]

\* ... once resume has started its clock ...
Started(c) == [rem |-> rem[c], start |-> now]

\* ... and after Coroutine::suspend: update_running_time, update_remaining.
Used(c) == ran[c] + (now - start[c])
Stopped(c) == [rem |-> Remaining(c, Used(c)), start |-> NotStarted]

-----------------------------------------------------------------------------
(* Requests *)

RealTime(e, r) == e # 0 /\ r # 0

\* call_func: Invalid_deadline otherwise.
ValidDeadline(e, r) == r > e

\* call_func and admission_control_result: the status starts its clock here,
\* not when the request arrived.
Request(e, r) ==
    /\ spc = "idle" /\ nextId <= MaxTasks
    /\ RealTime(e, r) /\ ValidDeadline(e, r) /\ now + r <= Horizon
    /\ nextId' = nextId + 1 /\ job' = nextId
    /\ cost' = [cost EXCEPT ![nextId] = e] /\ rem' = [rem EXCEPT ![nextId] = e]
    /\ due' = [due EXCEPT ![nextId] = now + r]
    /\ spc' = "admit"
    /\ UNCHANGED <<now, ran, start, board, ava, workerVars, snap, copy, verdict,
                   via, historyVars>>

\* A request without deadline or execution time goes to the global queue.
RequestNrt(e, r) ==
    /\ spc = "idle" /\ ~RealTime(e, r) /\ nrt = "absent"
    /\ nrt' = "waiting"
    /\ UNCHANGED <<now, nextId, statusVars, board, ava, run, ready, done, got,
                   curId, threadVars>>

-----------------------------------------------------------------------------
(* is_schedulable *)

\* get_status: copy the board.
Snapshot ==
    /\ spc = "admit"
    /\ snap' = board /\ spc' = "judge"
    /\ UNCHANGED <<now, nextId, statusVars, board, ava, workerVars, job, copy,
                   verdict, via, historyVars>>

\* Mutant of Known: a task without a start time is taken for one started at once.
KnownAnyway == curId \in DOMAIN snap

\* The running task of the copy, and whether it is known when it started.
Known == curId \in DOMAIN snap /\ snap[curId].start # NotStarted

Retry ==
    /\ spc = "judge" /\ DOMAIN snap # {} /\ ~Known
    /\ spc' = "admit" /\ snap' = NoMap
    /\ UNCHANGED <<now, nextId, statusVars, board, ava, workerVars, job, copy,
                   verdict, via, historyVars>>

\* curr_stat: what a task of the copy still needs; the running one has used
\* some of it since it was started.
Charged(c) ==
    IF c = curId THEN NonNeg(snap[c].rem - (now - snap[c].start)) ELSE snap[c].rem

RtSnap == DOMAIN snap \intersect Tasks
Total(S) == MapThenSumSet(Charged, S)

\* Mutant of EndDdl: the deadline of the running task is taken for the last.
EndDdlRunning == IF run \in DOMAIN board /\ run # Nrt THEN due[run] ELSE now

\* get_end_ddl: the latest deadline on the board as it is now.
EndDdl == Max({now} \union {due[c] : c \in DOMAIN board \intersect Tasks})

\* The request leaves is_schedulable with a verdict.
Verdict(v, branch) == verdict' = v /\ via' = branch /\ snap' = NoMap

\* Instant - Instant saturates.
Slack == NonNeg(due[job] - now)

\* Mutant of AloneOrPanic: the second subtraction saturates as well.
AloneSaturating(v, branch) ==
    /\ ava' = PutEntry(ava, job, NonNeg(Slack - cost[job]))
    /\ Verdict(v, branch) /\ spc' = "spawn"

\* Duration - Duration: a negative result panics, in the scheduler thread.
AloneOrPanic(v, branch) ==
    IF Slack < cost[job]
    THEN /\ spc' = "panicked" /\ snap' = NoMap
         /\ UNCHANGED <<ava, verdict, via>>
    ELSE /\ ava' = PutEntry(ava, job, Slack - cost[job])
         /\ Verdict(v, branch) /\ spc' = "spawn"

\* Nothing on the board.
JudgeEmpty ==
    /\ spc = "judge" /\ DOMAIN snap = {}
    /\ AloneOrPanic("SCHEDULABLE", "empty")
    /\ UNCHANGED <<now, nextId, statusVars, board, workerVars, job, copy,
                   historyVars>>

\* A task without a deadline runs: it is preempted, whatever waits.
JudgeNrt ==
    /\ spc = "judge" /\ Known /\ curId = Nrt
    /\ AloneOrPanic("PREEMPTIVE", IF RtSnap = {} THEN "nrt" ELSE "nrtBlind")
    /\ UNCHANGED <<now, nextId, statusVars, board, workerVars, job, copy,
                   historyVars>>

\* The quick test: room for the request behind the latest deadline.
QuickFits == cost[job] <= NonNeg(due[job] - EndDdl)

JudgeQuick ==
    /\ spc = "judge" /\ Known /\ curId # Nrt /\ QuickFits
    /\ ava' = PutEntry(ava, job, Slack - Total(RtSnap))
    /\ Verdict("SCHEDULABLE", "quick") /\ spc' = "spawn"
    /\ UNCHANGED <<now, nextId, statusVars, board, workerVars, job, copy,
                   historyVars>>

\* The heap is emptied up to the first deadline equal to the request's: tasks
\* with the same deadline are neither before it nor after it.
Sooner == {c \in RtSnap : due[c] < due[job]}
Later == {c \in RtSnap : due[c] > due[job]}

\* Mutant of Fits: the request's own execution time is forgotten.
FitsWithoutOwn == Slack - Total(Sooner) >= 0

\* d_new - t - RC >= C_new
Fits == Slack - Total(Sooner) >= cost[job]

\* Mutant of LaterFit: the request's execution time is not taken off.
LaterFitBefore == \A c \in Later \intersect DOMAIN ava : ava[c] >= Charged(c)

\* time_i - C_new >= C_i, for the later tasks that have an entry.
LaterFit ==
    \A c \in Later \intersect DOMAIN ava : ava[c] - cost[job] >= Charged(c)

\* The copy of ava_time with the request's time taken off the later tasks.
Shifted ==
    [c \in DOMAIN ava |-> IF c \in Later THEN ava[c] - cost[job] ELSE ava[c]]

JudgeInsert ==
    /\ spc = "judge" /\ Known /\ curId # Nrt /\ ~QuickFits /\ Fits /\ LaterFit
    /\ copy' = Shifted
    /\ Verdict(IF Sooner = {} THEN "PREEMPTIVE" ELSE "SCHEDULABLE", "insert")
    /\ spc' = "writeBack"
    /\ UNCHANGED <<now, nextId, statusVars, board, ava, workerVars, job,
                   historyVars>>

\* update_ava_time_map: the whole map is replaced.
WriteBack ==
    /\ spc = "writeBack"
    /\ ava' = copy /\ copy' = NoMap /\ spc' = "spawn"
    /\ UNCHANGED <<now, nextId, statusVars, board, workerVars, job, snap, verdict,
                   via, historyVars>>

ToIdle == /\ spc' = "idle" /\ job' = None /\ snap' = NoMap /\ verdict' = "none"
          /\ via' = "none"

\* UNSCHEDULABLE: the caller is answered.
JudgeReject ==
    /\ spc = "judge" /\ Known /\ curId # Nrt /\ ~QuickFits /\ ~(Fits /\ LaterFit)
    /\ ToIdle
    /\ UNCHANGED <<now, nextId, statusVars, board, ava, workerVars, copy, historyVars>>

\* instantiate fails (external: the module or the export); the caller is
\* answered, ava_time keeps the entry.
InstantiateFails ==
    /\ spc = "spawn" /\ ToIdle
    /\ UNCHANGED <<now, nextId, statusVars, board, ava, workerVars, copy, historyVars>>

-----------------------------------------------------------------------------
(* Hand-over and worker *)

\* micro_process, SCHEDULABLE: the real-time queue first ...
Push ==
    /\ spc = "spawn" /\ verdict = "SCHEDULABLE"
    /\ ready' = ready \union {job} /\ spc' = "note"
    /\ UNCHANGED <<now, nextId, statusVars, board, ava, run, nrt, done, got, curId,
                   job, snap, copy, verdict, via, historyVars>>

\* ... then the board, with the status cloned before the push, whatever the
\* worker has done with the coroutine in the meantime.
Note ==
    /\ spc = "note"
    /\ board' = PutEntry(board, job, Initial(job))
    /\ late' = IF job \in DOMAIN board \union done THEN late \union {job} ELSE late
    /\ ToIdle
    /\ UNCHANGED <<now, nextId, statusVars, ava, workerVars, copy, waited>>

\* set_curr: the earliest deadline; the task without one if there is no other.
Chosen(c) ==
    \/ c \in ready /\ \A d \in ready : due[c] <= due[d]
    \/ c = Nrt /\ ready = {} /\ nrt = "waiting"

\* micro_process, PREEMPTIVE: board, slot and SIGURG; its handler suspends
\* what runs and the loop resumes the new coroutine.
HandOverNow ==
    /\ spc = "spawn" /\ verdict = "PREEMPTIVE"
    /\ IF run = None
       THEN /\ start' = [start EXCEPT ![job] = now]
            /\ board' = PutEntry(board, job, Started(job))
            /\ UNCHANGED <<ran, rem>>
       ELSE /\ ran' = [ran EXCEPT ![run] = Used(run)]
            /\ rem' = [rem EXCEPT ![run] = Stopped(run).rem]
            /\ start' = [start EXCEPT ![run] = NotStarted, ![job] = now]
            /\ board' = PutEntry(PutEntry(board, run, Stopped(run)), job, Started(job))
    /\ run' = job /\ curId' = job
    /\ ready' = ready \union ({run} \intersect Tasks)
    /\ nrt' = IF run = Nrt THEN "waiting" ELSE nrt
    /\ ToIdle
    /\ UNCHANGED <<now, nextId, cost, due, ava, done, got, copy, historyVars>>

\* Mutant of Resume: the task is read from the queue, not removed.
ResumePeeks(c) ==
    /\ run = None /\ Chosen(c)
    /\ run' = c /\ curId' = c /\ board' = PutEntry(board, c, Started(c))
    /\ start' = [start EXCEPT ![c] = now]
    /\ nrt' = IF c = Nrt THEN "running" ELSE nrt
    /\ UNCHANGED <<now, nextId, cost, due, ran, rem, ready, ava, done, got,
                   threadVars>>

\* The idle loop: set_curr, resume.
Resume(c) ==
    /\ run = None /\ Chosen(c)
    /\ run' = c /\ curId' = c /\ board' = PutEntry(board, c, Started(c))
    /\ start' = [start EXCEPT ![c] = now]
    /\ ready' = ready \ {c}
    /\ nrt' = IF c = Nrt THEN "running" ELSE nrt
    /\ UNCHANGED <<now, nextId, cost, due, ran, rem, ava, done, got, threadVars>>

\* SIGALRM over the task without a deadline: it is suspended for a fetched
\* real-time task; the loop resumes that one.
Alarm ==
    /\ run = Nrt /\ ready # {}
    /\ ran' = [ran EXCEPT ![Nrt] = Used(Nrt)]
    /\ rem' = [rem EXCEPT ![Nrt] = Stopped(Nrt).rem]
    /\ start' = [start EXCEPT ![Nrt] = NotStarted]
    /\ board' = PutEntry(board, Nrt, Stopped(Nrt))
    /\ run' = None /\ nrt' = "waiting"
    /\ UNCHANGED <<now, nextId, cost, due, ava, ready, done, got, curId,
                   threadVars>>

\* The guest function returns (at any time within its bound); main and
\* update_completed_status: the board entry and the ava_time entry go.
Finish ==
    /\ run # None
    /\ run' = None /\ board' = DropEntry(board, run) /\ ava' = DropEntry(ava, run)
    /\ start' = [start EXCEPT ![run] = NotStarted]
    /\ done' = done \union ({run} \intersect Tasks)
    /\ nrt' = IF run = Nrt THEN "over" ELSE nrt
    /\ UNCHANGED <<now, nextId, cost, due, ran, rem, ready, got, curId, threadVars>>

\* One instant passes for what runs.
Elapse ==
    /\ now < Horizon /\ now' = now + 1
    /\ run \in Tasks => got[run] < cost[run] + MaxOverrun
    /\ got' = IF run \in Tasks THEN [got EXCEPT ![run] = @ + 1] ELSE got
    /\ UNCHANGED <<nextId, statusVars, board, ava, run, ready, nrt, done, curId,
                   spc, job, snap, copy, verdict, via, late>>

\* Nothing is under way on the worker that costs no time.
Settled ==
    /\ run = None => ready = {} /\ nrt # "waiting"
    /\ run = Nrt => ready = {}

Tick ==
    /\ spc \in {"idle", "note", "panicked"} /\ Settled
    /\ Elapse /\ UNCHANGED waited

\* The loop of is_schedulable goes round and round while its copy names no
\* start time and the next one would be the same.
WaitTick ==
    /\ spc = "judge" /\ DOMAIN snap # {} /\ ~Known /\ snap = board /\ Settled
    /\ Elapse /\ waited' = TRUE

Judge == JudgeEmpty \/ JudgeNrt \/ JudgeQuick \/ JudgeInsert \/ JudgeReject

Next ==
    \/ \E e \in Costs, r \in RelDeadlines : Request(e, r) \/ RequestNrt(e, r)
    \/ Snapshot \/ Retry \/ Judge \/ WriteBack \/ InstantiateFails
    \/ Push \/ Note \/ HandOverNow
    \/ \E c \in Ids : Resume(c)
    \/ Alarm \/ Finish \/ Tick \/ WaitTick

Spec == Init /\ [][Next]_vars

-----------------------------------------------------------------------------
(* Properties *)

StatusOK ==
    /\ cost \in [Ids -> Costs \union {0}] /\ due \in [Ids -> Instants]
    /\ ran \in [Ids -> Nat] /\ rem \in [Ids -> Nat]
    /\ start \in [Ids -> Instants \union {NotStarted}]

Entry == [rem : Nat, start : Instants \union {NotStarted}]

ThreadOK ==
    /\ spc \in {"idle", "admit", "judge", "writeBack", "spawn", "note", "panicked"}
    /\ job \in Tasks \union {None}
    /\ waited \in BOOLEAN /\ late \subseteq Tasks
    /\ verdict \in {"none", "SCHEDULABLE", "PREEMPTIVE"}
    /\ via \in {"none", "empty", "nrt", "nrtBlind", "quick", "insert"}
    /\ DOMAIN snap \subseteq Ids /\ \A c \in DOMAIN snap : snap[c] \in Entry
    /\ DOMAIN copy \subseteq Tasks

\* The real-time tasks in the worker's hands: accepted and not ended.
Living == (ready \union {run}) \intersect Tasks

\* The types, and who is where.  The board is no guide to that: a task may be
\* queued, run or have ended before it is noted.
AdmissionTypeOK ==
    /\ now \in Instants /\ nextId \in 1 .. MaxTasks + 1
    /\ StatusOK /\ ThreadOK
    /\ DOMAIN board \subseteq Ids /\ \A c \in DOMAIN board : board[c] \in Entry
    /\ DOMAIN ava \subseteq Tasks
    /\ run \in Ids \union {None} /\ curId \in Ids \union {None}
    /\ ready \subseteq Tasks \ {run} /\ done \subseteq Tasks \ Living
    /\ nrt \in {"absent", "waiting", "running", "over"}
    /\ got \in [Ids -> Nat]

\* What an accepted task still needs, if it keeps its declared time.
Left(c) == NonNeg(cost[c] - got[c])
Work(S) == MapThenSumSet(Left, S)

\* The reference: the tasks of S, run by earliest deadline, all end in time.
Feasible(S) ==
    \A c \in S : now + Work({d \in S : due[d] <= due[c]}) <= due[c]

\* c ends in time if only the tasks with a strictly earlier deadline run first.
EndsInTime(c, S) ==
    now + Work({d \in S : due[d] < due[c]}) + Left(c) <= due[c]

Accepted(branches) ==
    spc \in {"writeBack", "spawn"} /\ via \in branches /\ Feasible(Living)

\* An accepted request meets its own deadline if no more requests come, as
\* long as the accepted tasks before it were feasible and none has its
\* deadline (is_schedulable: the branches of an empty board, of a running task
\* without a deadline and nothing else, the quick test and the insertion).
OwnTimeFits ==
    Accepted({"empty", "nrt", "quick", "insert"})
        => EndsInTime(job, Living \union {job})

\* A request accepted behind all others (or alone) leaves the whole set
\* feasible: get_end_ddl on the fresh board and the quick test together are
\* sound although the copy of the board is older.
LastKeepsFeasible ==
    Accepted({"empty", "nrt", "quick"}) => Feasible(Living \union {job})

\* Nothing has cost time that admission control does not reckon with: an
\* overrun, a busy-wait, a verdict given for a task without a deadline.
Undisturbed == nrt = "absent" /\ ~waited /\ \A c \in Tasks : got[c] <= cost[c]

\* No two requests have had the same deadline.
DeadlinesDiffer ==
    \A c, d \in Tasks : c # d /\ c < nextId /\ d < nextId => due[c] # due[d]

\* A request accepted between others leaves those later tasks that have an
\* entry in ava_time and have not been run in time: the entries, lowered by
\* every insertion and never touched by the passing of time, still bound the
\* slack of a task that has not had the CPU.  Only for deadlines that differ:
\* is_schedulable takes a task with the request's own deadline neither for an
\* earlier one nor for a later one, so its entry is not lowered, and four
\* requests are enough to be late.
UnstartedStayInTime ==
    Accepted({"insert"}) /\ Undisturbed /\ DeadlinesDiffer =>
        \A c \in Living \intersect DOMAIN ava :
            due[c] > due[job] /\ got[c] = 0 => EndsInTime(c, Living \union {job})

\* What the board charges a task now.
Charge(c) ==
    IF board[c].start = NotStarted THEN board[c].rem
    ELSE board[c].rem - (now - board[c].start)

\* The board charges an accepted task exactly what it still needs, through any
\* number of preemptions, until it has run longer than declared; but a task
\* that was noted after the worker had begun it may be charged in full.
ChargeExact ==
    \A c \in Living \intersect DOMAIN board :
        got[c] <= cost[c] =>
            \/ Charge(c) = cost[c] - got[c]
            \/ c \in late /\ Charge(c) = cost[c]

\* When a verdict is given, no accepted task is charged less than it needs,
\* although the board was copied before curr_running_id is read.
NeverUnderCharged ==
    spc = "judge" /\ Known /\ curId # Nrt =>
        \A c \in Living :
            got[c] <= cost[c] => c \in RtSnap /\ Charged(c) >= Left(c)

\* As long as every task is noted before the worker begins it, is_schedulable
\* waits no longer than a switch takes (no time, here), and the subtraction of
\* Durations in the scheduler thread never panics: the start time a copy lacks
\* is on the board as soon as the worker has settled, and an idle worker
\* leaves no entry behind.
WaitsOnlyIfLate == waited \/ spc = "panicked" => late # {}

\* However long is_schedulable has waited, it accepts no request whose own
\* execution time no longer fits before its deadline; it may panic (spc is
\* "panicked" then, and no request is answered any more).
AcceptsInTime ==
    spc \in {"writeBack", "spawn"} => now + cost[job] <= due[job]

\* What the test plan expects (hyperwasm test.txt:7): tasks that were let
\* through admission control, run no longer than declared, end in time.
MeetsDeadlines == \A c \in Living : now <= due[c]
=============================================================================
