----------------------------- MODULE SchedState -----------------------------
(***************************************************************************)
(* The state shared by the global scheduler thread and the worker threads: *)
(* the Scheduler structure (src/scheduler/mod.rs), the workers' own        *)
(* structures and thread-locals (src/scheduler/worker.rs, src/task/mod.rs) *)
(* and the life of every coroutine.  GlobalScheduler and Worker hold the   *)
(* actions, HyperSched composes them.                                      *)
(*                                                                         *)
(* A coroutine is named by its id (1, 2, ...), drawn from one counter; 0   *)
(* is no coroutine (None).  Instants are abstracted to their order: a      *)
(* real-time task has a deadline in Deadlines, a task without one has      *)
(* NotRealtime.  Run-time bounds: MaxId ids are handed out.                *)
(***************************************************************************)
EXTENDS Integers, Sequences, FiniteSets, SequencesExt

CONSTANTS
    NumWorkers,    \* worker threads of Scheduler::new
    MaxId,         \* bound: ids handed out by get_id
    Deadlines,     \* absolute deadlines a request may carry (their order only)
    Capacity,      \* Worker.capacity (256 in Scheduler::start)
    TimerOn,       \* is a timer period configured? (0 disables LocalTimer)
    SignalPoints   \* the control points of a worker a signal may interrupt

\* Everything a worker does outside a signal handler.
LoopPoints == {"top", "drainRt", "drainNrt", "pick", "picked", "resume", "mark",
               "enter", "entered", "returned", "cleanup"}
TaskPoints == {"body", "exiting", "stats"}
HandlerPoints == {"hDrainRt", "hDrainNrt", "hPick"}
ControlPoints == {"boot", "corrupt"} \union LoopPoints \union TaskPoints
                    \union HandlerPoints

ASSUME SchedAssumption ==
    /\ NumWorkers \in Nat \ {0}
    /\ MaxId \in Nat
    /\ Deadlines \subseteq Nat \ {0}
    /\ Capacity \in Nat \ {0}
    /\ TimerOn \in BOOLEAN
    /\ SignalPoints \subseteq LoopPoints \union TaskPoints

Workers == 0 .. NumWorkers - 1
Ids == 1 .. MaxId
None == 0
NotRealtime == 0
CoStatus == {"NONE", "PENDING", "READY", "RUNNING", "SUSPENDED", "COMPLETED"}
BoardEntry == {"ABSENT", "PENDING", "RUNNING", "SUSPENDED", "COMPLETED"}
Verdicts == {"none", "NOTREALTIME", "SCHEDULABLE", "PREEMPTIVE"}

VARIABLES
    \* the global scheduler thread
    nextId,     \* the counter ID
    spc,        \* where the thread is
    job,        \* id of the request in hand, None before it has one
    verdict,    \* SchedulabilityResult.ac of the request in hand
    snap,       \* status_map: the copy of the board admission works on
    \* struct Scheduler
    gq,         \* global_queue
    rtq,        \* realtime_queue, per worker
    slot,       \* slots, per worker
    board,      \* co_status, per worker: id -> status (RUNNING has a start time)
    runningId,  \* curr_running_id, per worker
    completed,  \* ids passed to update_completed_status; their memory is freed
    dropped,    \* coroutines set_slots let go of
    urg,        \* SIGURG pending for the worker's thread
    \* struct Worker and the thread-locals of its thread
    pc,         \* where the thread is
    ret,        \* where the interrupting SIGALRM handler returns to
    curr,       \* Worker.curr: chosen, not yet taken
    cur,        \* COROUTINE: current()
    hold,       \* the coroutine run_co was called with
    newq,       \* new_spawned
    suspq,      \* suspend_queue
    rt,         \* realtime_queue together with realtime_status
    len,        \* Worker.len
    \* coroutines
    ddl,        \* absolute_deadline, NotRealtime when None
    st,         \* Coroutine.status, "NONE" before the coroutine exists
    at,         \* the point its saved context continues from
    latency     \* holder of the LATENCY mutex

requestVars == <<nextId, spc, job, verdict, snap, ddl>>
schedulerVars == <<gq, rtq, slot, board, dropped, urg>>
loopVars == <<pc, curr, cur, hold, ret>>
queueVars == <<newq, suspq, rt, len>>
taskVars == <<st, at, latency>>
markVars == <<runningId, completed>>
vars == <<requestVars, schedulerVars, markVars, loopVars, queueVars, taskVars>>

EmptyBoard == [c \in Ids |-> "ABSENT"]

Init ==
    /\ nextId = 1 /\ spc = "idle" /\ job = None /\ verdict = "none"
    /\ snap = EmptyBoard
    /\ gq = <<>>
    /\ rtq = [w \in Workers |-> {}]
    /\ slot = [w \in Workers |-> None]
    /\ board = [w \in Workers |-> EmptyBoard]
    /\ runningId = [w \in Workers |-> None]
    /\ completed = {} /\ dropped = {}
    /\ urg = [w \in Workers |-> FALSE]
    /\ pc = [w \in Workers |-> "boot"]
    /\ ret = [w \in Workers |-> "top"]
    /\ curr = [w \in Workers |-> None]
    /\ cur = [w \in Workers |-> None]
    /\ hold = [w \in Workers |-> None]
    /\ newq = [w \in Workers |-> <<>>]
    /\ suspq = [w \in Workers |-> <<>>]
    /\ rt = [w \in Workers |-> {}]
    /\ len = [w \in Workers |-> 0]
    /\ ddl = [c \in Ids |-> NotRealtime]
    /\ st = [c \in Ids |-> "NONE"]
    /\ at = [c \in Ids |-> "body"]
    /\ latency = None

\* is_realtime: a task with an execution time and a deadline
IsRealtime(c) == c # None /\ ddl[c] # NotRealtime

\* The worker is_schedulable places a real-time request on.
Home(c) == c % NumWorkers

\* What a BinaryHeap of (reversed) deadlines may pop: equal keys in any order.
Earliest(S) == {c \in S : \A d \in S : ddl[c] <= ddl[d]}

\* update_status: insert one entry in a worker's board
UpdateStatus(w, c, status) == board' = [board EXCEPT ![w][c] = status]
=============================================================================
