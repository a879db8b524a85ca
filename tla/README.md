# A TLA+ model of hyperwasm's scheduling core

hyperwasm is a server that runs WebAssembly functions as stackful coroutines
("microprocesses") on a few pinned worker threads. Functions with a deadline
are admitted by a schedulability test and preempt functions without one;
functions without a deadline share a worker by a timer. Preemption is by
signals: a handler that interrupts guest code switches to another stack.

The project models what is hard about that: three kinds of threads and two
signal handlers working on the same queues; the arithmetic that admits a task;
the way a request takes to its answer; what can be asked about a task while it
moves; and the files that bind threads to CPUs. Paths below are relative to the
repository root (`src/...` of the crate is `src/src/...` in PROJECT.json).

## 1. Inventory

### Threads

| thread | code | what it does |
|---|---|---|
| HTTP executor | `axum/server.rs`, tokio `current_thread` | `/init`, `/register`, `/call`, `/status`, ...; `/call` queues a request and awaits a `ResultFuture` |
| global scheduler | `spawn_scheduler`, `runwasm.rs`, `runtime.rs` | takes requests one by one: names, admission control, wasm instance, hand-over of a coroutine |
| worker 0 .. n-1 | `scheduler/worker.rs`, `task/mod.rs` | fetches coroutines, chooses one, resumes it, frees it; interrupted by SIGURG (preempt) and SIGALRM (timer) |
| tester | `spawn_tester` | measures a function in the background |

### Components

| component | state | operations | correct when |
|---|---|---|---|
| Global scheduler thread (`spawn_scheduler`, `call_func`, `admission_control_result`, `is_schedulable`, `micro_process`) | the request in hand, the id counter, the copy of a worker's status board | admit, reject, retry, instantiate, spawn | every request is answered or becomes a coroutine that is handed over; verdicts follow the board; nobody is signalled who cannot handle it |
| Task statuses (`scheduler/mod.rs`, `/status`, `/uname`) | a board per worker, the LRU cache of completed statuses | put, delete, push; query by id, query of all | a task is not missed while it moves; the cache drops the least recently used |
| Scheduler shared structures (`scheduler/mod.rs`) | global queue, one real-time queue, slot, status board and running id per worker, completed statuses, `ava_time` | `push`, `pop`, `set_slots`, `get_slots`, `update_status`, `update_completed_status`, ... | a coroutine is in one place; a filled slot has a signal behind it; the board tells the truth about what runs |
| Worker and signal handlers (`scheduler/worker.rs`, `signal_handler`) | `curr`, three queues, `len`, `current()` | `run`, `get_task`, `set_curr`, `preemptive`, `suspend`, `run_co` | no coroutine is lost, duplicated or shared, whatever is interrupted; `len` is exact; real-time first; non-real-time tasks take turns |
| Coroutine (`task/mod.rs`) | status, saved context, time accounting, the global LATENCY mutex | `init`, `main`, `resume`, `suspend` | the saved context is the coroutine's; a mutex is never held off the CPU |
| Result future (`result.rs`) | `completed`, `result`, `waker`, three mutexes | `poll`, `set_result`, `set_completed` | a completed call wakes its handler, which finds the result |
| Request pipeline (`axum/server.rs`) | `REQUEST_QUEUE` (10000), `ENV_MAP`, counters | `/call`, `/call_with_name`, `/init`, `/register` | a registered name stays; each accepted request is answered once |
| Task names (`runwasm.rs`) | `NAME_ID` | insert, look up | unique among living tasks, visible to `/uname` |
| Test thread | `TEST_QUEUE`, test environment | `/test` | one measurement at a time |
| Wasm environments and parameters (`runwasm.rs`) | engine, linker, module | compile, instantiate, parse | library calls and data |
| Contexts and stacks (`task/context.rs`, `stack.rs`, `page_size.rs`) | ucontext, mmap | `getcontext`, `swapcontext`, `setcontext`, allocate, guard pages | sizes are rounded to pages without overflow |
| cgroup v2 controller (`cgroupv2.rs`, its callers) | directories and files under `/sys/fs/cgroup/hyperwasm` that outlive the server | make, declare threaded, set CPUs, move a thread, remove | the threads of a server share no CPU, whatever an earlier one left |
| HTTP types and client, examples | none of the server's | serde, command lines, measurement | - |

### How they interact

    /call --REQUEST_QUEUE--> scheduler thread --global_queue------> any worker
                               |  ^            --realtime_queue[w]-> worker w
                               |  |            --slot[w], SIGURG---> worker w
                               |  +--co_status[w], curr_running_id[w]-- worker w
                               +--FuncResult (error)--+
                                                      +--> ResultFuture of /call
        coroutine on a worker ---FuncResult (value)---+

Hard behaviours: a handler that interrupts the run loop between any two of its
steps and changes the same fields; a handler that leaves by a context switch
and returns much later, on another turn of the loop; `try_lock` that fails
because the interrupted code holds the lock; verdicts and board entries that
are stale when used; two writes of one hand-over in an order the receiver can
overtake; SIGURG that is not queued; a mutex taken by code that can be
switched out; a future polled while it is being completed; statuses read board
by board while tasks end; sums of durations that age while they are kept. The
server keeps nothing on disk and talks to no other: the only state that survives
a crash is the kernel's, the cgroup directories.

PROJECT.json lists these as hazards, each at its line, with the property that
would catch it or the reason there is none yet.

## 2. Modules

| module | models | lines it stands for |
|---|---|---|
| `TaskLifecycle` | abstract: what the core promises of a task | - (implemented by `HyperSched`) |
| `SchedState` | the state of scheduler, workers and coroutines, `Init`, `Home`, `Earliest`, `UpdateStatus` | `Scheduler::new`, `Coroutine`, `SchedulerStatus` |
| `GlobalScheduler` | the scheduler thread, one action per step on shared state | `spawn_scheduler`, `call_func`, `admission_control_result`, `is_schedulable`, `micro_process`, `set_slots` |
| `Worker` | a worker's loop, its coroutine and both handlers | `worker.rs`, `signal_handler`, `task/mod.rs`, the queue operations of `scheduler/mod.rs` |
| `HyperSched`, `MCHyperSched` | their composition, its properties and the fairness; values for TLC | - |
| `Strikes`, `MCStrikes` | `HyperSched` with a history of which workers a badly timed signal has struck, and what the harm cannot reach | `signal_handler` |
| `Admission`, `MCAdmission` | the arithmetic of admission control, which `GlobalScheduler` leaves open | `call_func`, `is_schedulable`, `SchedulerStatus`, `ava_time` |
| `FuncResult`, `MCFuncResult` | the rendezvous of `/call` with its answer | `result.rs`, its callers |
| `Requests`, `MCRequests` | handlers, `ENV_MAP`, `REQUEST_QUEUE`, `NAME_ID`, scheduler loop and tester around the core; composes `FuncResult` | `axum/server.rs`, `runwasm.rs` |
| `Status`, `MCStatus` | boards and cache under their locks, and the queries over them | `scheduler/mod.rs`, `runtime.rs`, `/status`, `/uname` |
| `Cgroup`, `MCCgroup` | binding threads to CPUs, with servers that are killed and restarted | `cgroupv2.rs`, `create_cg`, the callers of `set_cgroup` |
| `HyperSchedProofs` | theorems about the core: types, slots and signals, who has a coroutine | - |
| `LifecycleProofs` (extends it) | what runs, what has completed; `HyperSched` implements `TaskLifecycle` | - |
| `StrikesProofs` (extends that) | signals anywhere: what the workers not struck keep | - |
| `RequestsProofs` | theorems about `FuncResult` and `Requests`, which implements it | - |
| `AdmissionProofs` | charges and times of admission control | - |
| `StatusProofs` | the cache and the queries | - |
| `CgroupProofs` | threads, directories and CPUs | - |
| `Sums` | lemmas about sums over and greatest elements of finite sets, for `AdmissionProofs` and `StatusProofs` | - |

The parts meet as follows. `HyperSched` is the core with every interleaving and
no arithmetic, `Admission` the arithmetic with every verdict; a verdict
`Admission` can give is one `GlobalScheduler.Allowed` has. Both have the two steps
of a SCHEDULABLE hand-over (push, then note on the board) with the worker and time
in between. `Requests` sees the core as the set `live`. `Status` sees a task as an entry
that a worker puts on its board and moves to the cache, under the locks that the
core's steps take and release. `Cgroup` sees a thread up to the moment it begins
its loop.

A definition whose name ends like a bug (`SetSlotOverwrites`,
`AlrmReturnsUnlessNew`, ...) and whose comment says "Mutant of" is not part of
the system: it is the variant of the definition after it that a run must be
able to reject. PROJECT.json pairs each property with one.

### 2.1 State

A coroutine is its id. `nextId` is the global counter; a real-time request
draws its id before admission, another one when its coroutine is created, as
in the code. Instants are abstracted to their order: `ddl[c]` is a deadline or
`NotRealtime`. Each variable of `SchedState` names the field it stands for.

`pc[w]` says where a worker is *outside* a handler, or in which handler it is;
while the SIGALRM handler runs, `ret[w]` remembers the interrupted point. The
points are: `boot`; `top` (the loop finds `curr` empty), `drainRt` and
`drainNrt` (the two loops of `get_task`), `pick` (`set_curr`), `picked`
(`curr` is set, `take` is next), `resume`, `mark`, `enter`, `entered` (the
steps of `Coroutine::resume` up to the switch), `body` (guest code),
`exiting`, `stats` (the end of `main`, the latter with LATENCY locked),
`returned` (after the switch back), `cleanup` (`run_co` after a completed
coroutine). `at[c]` is the point the saved context of a coroutine resumes.

`corrupt` is the point of a worker whose behaviour is undefined: a context
switch saved a piece of the run loop as if it were the coroutine, or a freed
coroutine was used. That worker takes no further step; the others and the
scheduler thread go on, with what it holds in its hands for ever. So `Full.cfg`,
which reaches it, shows what the rest of the system makes of a worker that is
gone, on the assumption that its undefined behaviour spares the memory of the
others.

### 2.2 Why the steps are as large as they are

* A handler blocks all signals on entry (`sigfillset`, SIG_BLOCK), and
  `swapcontext` saves and restores the mask with the context: no handler is
  interrupted by another one, and a coroutine that was switched out in a
  handler comes back with the mask of the handler until `sigreturn`. The
  `SIG_UNBLOCK` of an empty set at the end of each handler does nothing; the
  return from the handler restores the mask. So no mask is in the state: the
  points of a handler are simply not in `SignalPoints`.
* SIGURG's handler touches the slot (one lock), its own thread's structures,
  and the board (one lock, read by one thread): it is one step. SIGALRM's calls
  `get_task`, whose `try_lock`s can meet others: one step per attempt.
  `get_length` followed by `pop` is one step: a queue emptied in between is the
  same as one found empty.
* The run loop's structures are thread-private, so only signals can see
  between two of its steps; a step is what no signal can usefully split, and
  `Full.cfg` allows a signal between any two.
* The scheduler thread is one thread; `Snapshot` copies the board, `Decide`
  reads `curr_running_id` later, as the code does. Each lock it takes is a
  step, and the two writes of a hand-over (queue and board, board and slot and
  signal) are separate steps.
* `Cleanup` is one step: its board deletion is one lock, the rest private.
* A pending SIGALRM needs no flag: the timer can expire at any moment.
* Reordering by the compiler of the non-atomic accesses a handler shares with
  the code it interrupts is not modelled; the model takes program order.

### 2.3 What the core leaves open

The remaining-time arithmetic of `is_schedulable` is a choice in
`GlobalScheduler` (it is in `Admission`): over a running real-time task every
verdict the branch can give is possible, PREEMPTIVE only if the request has the
earliest deadline of the copy. The wasm instance either exists or fails.
`local_queue` is not modelled: only `_spawn_local`, which nothing calls, fills
it. The boards `co_status` keep a status and, for RUNNING, a start time; the
cache of completed statuses and its eviction are in `Status`. `SCHED_TIME`,
`CNT` and the like are statistics.

### 2.4 FuncResult

One record of state per call. `poll` is three steps (flag, waker, result),
`set_result` one, `set_completed` two (the waker is taken while the flag's
mutex is held: `locked`). The executor must poll a woken future and may poll
one that was not (the handler shares a task with the connection); a client
that disconnects drops it. An answer is one pair set_result/set_completed, two
of them when `call_func` answers a rejection and `spawn_scheduler` answers the
error again, or none (full request queue, dropped coroutine, panic).

### 2.5 Requests

`hpc[c]` is the handler of call `c`: `idle` before it arrives, `begin` until
its future is polled first, `await`, `testLock` and `timeLock` where `/test`
waits for the write lock of `ENV_MAP`, and how it ended. `live` are the calls
whose coroutine the workers have: all of `HyperSched` is reduced to an element
of `live` that comes and goes (`CallSpawns`, `GuestEnds`). Each action that touches an
answer has the action of `FuncResult` as a conjunct.

* The executor is tokio's `current_thread` (`examples/server.rs:21`): a handler
  runs from one await to the next without another handler in between
  (`ExecutorFree`), interleaved with the scheduler, tester and worker threads.
  A handler that waits for the write lock blocks it, as `RwLock::write` does.
* The scheduler thread holds the read lock of `ENV_MAP` from the lookup to the
  end of the answer (`Reading`). Locks that are taken and released with no
  other thread's step in between that could matter are one step.
* `/register` awaits the upload between its look at the map and the insertion
  (`RegisterChecks`, `RegisterResumes`); `/init` awaits only
  `Environment::new`, which never suspends.
* `call_func` may answer a value of any branch: deadlines, admission and
  instances are open; the check of the name is not. `call_func` is assumed to
  return: `admission_spin` shows when it does not, and the spinning thread then
  holds the read lock, so that the next `/test` or `/register` stops the
  executor too. It is assumed not to panic (`runtime.rs:173` can, and does in `Admission`).
* A call is drawn once from `Calls`. The times that `/test` measures, parameters
  and counters are left out.

### 2.6 TaskLifecycle

Six variables: the tasks created, begun, returned, freed and lost, and the task
each worker thread executes. The refinement mapping (`Lifecycle` in
`HyperSched`) reads the first five off the coroutine's status, `completed` and
`dropped`; a thread executes a coroutine from the beginning of `resume` to the
switch back, or to the end of `main` (`InResume`). Everything else, queues,
slots, signals, verdicts, is a stutter. A worker whose context is corrupt stops,
which the abstract task may always do.

### 2.7 Admission

Integer time, one worker. Time passes while a task runs, while nothing is left to
run, between the push and the note of a hand-over, and in the busy-wait of
`is_schedulable`, which nothing bounds (`WaitTick`: the copy names no start time
and the next one would be the same). Compiling, signals and switches cost
nothing, so that what goes wrong here does not need a slow machine.
A coroutine has its own status (`cost`, `due`, `ran`, `rem`, `start`), and the
`board` has copies of it: `resume` and `suspend` copy it (`Started`, `Stopped`),
and the scheduler thread notes the copy it made before the push (`Initial`),
whatever the worker has done with the coroutine since. `Push` and `Note` are two
steps, so a note may hide the start time of a task that runs, or be left behind by
one that has ended. `late` remembers the tasks noted after they had begun, and
`waited` that a busy-wait has taken time. After a panic of the scheduler thread
(`spc = "panicked"`) the worker goes on and no request is served.
Each branch of `is_schedulable` is an action:
`JudgeEmpty`, `JudgeNrt`, `JudgeQuick`, `JudgeInsert`, `JudgeReject`, `Retry`.
The copy of the board is taken in `Snapshot`, a step before `curr_running_id`,
`get_end_ddl` and the clock are read, and the copy of `ava_time` is written back
in `WriteBack`, a step after it was changed, as in the code. `Instant - Instant`
saturates at zero and `Duration - Duration` panics, as in Rust's library. A guest
may run `MaxOverrun` longer than declared, or shorter. A request that fails to
instantiate leaves its `ava_time` entry behind. The reference the verdicts are
measured by (`Feasible`, `EndsInTime`) is earliest-deadline-first on what the
tasks really still need.

### 2.8 Status

`board[w]` are the ids on `co_status[w]`, `completed` the cache in order of use.
A writer locks, changes and unlocks: `UpdateLocks`/`UpdateStatus`,
`CompleteLocks`/`Push`/`DeleteLocks`/`DeleteStatus`, so that a reader's
`try_read` or `try_lock` can fail in between (`BoardHeld`, `CompletedHeld`). The
scheduler thread puts a real-time task on the board too, before or after the
worker has run it (`NoteLocks`). `get_status_by_id` passes over the boards in
any order (a `HashMap`) and the cache last, and skips what is locked;
`get_status` waits for each board in turn; the handler of `/status` asks the
cache only if no board had an entry. One query at a time: both handlers run on
the single-threaded executor and do not await. `query.before`, `gone`, `stayed`
and `since` are history variables.

### 2.9 Cgroup

Each thread makes its directory, declares it threaded, writes its CPU, moves
itself there, and drops the controller, whose destructor tries to remove the
directory. One action per write; a failed write is ignored, as `cgroupv2.rs`
does. `Kill` may come between any two. The kernel's side is modelled from its
documentation of cgroup v2, as far as the code depends on it: a directory with a
thread or a directory in it is not removed; `cpuset.cpus` exists where the
parent's `subtree_control` has the controller; a group with CPUs none of which
its parent has runs on its parent's; a thread moves only into a threaded group
below the domain its process is in. Thread ids are few and reused, so that a
worker meets a directory of an earlier one's name.

## 3. Properties

Wherever signals strike (`Full.cfg`; proved for all sizes where marked):

* `TypeOK` (proved).
* `RunningAccurate` (proved): the board says RUNNING, with a start time that admission
  control charges, only of the coroutine in `run_co`'s hands.
* `PreemptionArmed` (proved): a filled slot always has a SIGURG pending or
  about to be sent. It needs the order slot-then-signal, and that a signal which
  is not queued is only ever lost to one that finds the same slot.
* `NoEarlySignal` (proved): SIGURG and the slot only reach a worker that has
  installed its handler. Nothing in the code waits for the workers to be ready;
  it holds because a PREEMPTIVE verdict needs a running task on that worker.
* `ExclusiveRun` (proved): a coroutine that runs is in no other worker's hands
  and in no queue between threads.

* `RunsOnce` (proved): the core implements `TaskLifecycle`. A coroutine runs on
  one thread at a time, is not resumed after its return, is freed once and not
  under a thread that executes it, and `set_slots` only lets go of one that has
  not begun.

`Strikes` adds to these how far the harm of a badly timed signal reaches. A worker
is *struck* by a handler that interrupts it away from guest code and the head of
its idle loop and does something there: takes the coroutine of the slot, or
chooses by `set_curr` (`Strike`; a handler that finds nothing to do returns). A
struck worker may lose, duplicate or free too early what it has, or stop; the
code does not prevent it, and section 5 shows it. What the code does keep, with
signals anywhere:

* `OneSoundOwner` (proved): a coroutine has at most one owner among the queues
  between threads and the workers not struck, and no struck worker has it as well;
  a freed one is nowhere there. So no damaged copy travels: the struck worker
  pushes nothing back, and fetches nothing that another one keeps.
* `LostToStruck` (proved): a coroutine that exists and is in none of these places
  may be lost to a struck worker: for a real-time one, the worker admission
  reckoned with. A worker loses nothing through what befell another.
* `SoundLenExact`, `SoundNrtYields` (proved): on a worker not struck `len` counts
  what it owns, and guest code without a deadline runs only when no fetched
  real-time coroutine waits.
* `LatencyHolderRuns` (proved): the holder of the process-wide LATENCY mutex is at
  its critical section, on a CPU, unless it may be lost to a struck worker. That
  exception is real: such a signal switches the holder out, and every coroutine that
  ends afterwards blocks, on all workers: so the harm to one worker can spread.

With signals at safe points, guest code and the head of the idle loop
(`Safe.cfg`, `Live.cfg`; model-checked):

* `OneOwner`: a living coroutine is in exactly one place, a finished one in
  none. No loss, no duplication, no dangling pointer.

It holds *under the hypothesis* `SafePoints`, which is not what the code
guarantees but what would have to be added to it (blocking signals outside
guest code), and the violations below show that it is needed. The point of
checking it is that everything else is then right, with a third task and a
second deadline. The hypothesis is a value of the constant `SignalPoints`; the
actions are the same. No theorem rests on it.

Liveness, with fairness (`Live.cfg`):

* `TakeTurns`: each coroutine a worker has accepted gets the CPU again and
  again until it is done, even if no guest function ever returns. It speaks of
  accepted tasks because a worker that is full of endless tasks fetches no
  further one, and the code has no rule for those.
* `RealtimeDone`: a real-time task is run to its end and freed although the
  tasks without deadlines never end and leave the loop no room to fetch it
  (`worker.rs:155`): the timer's handler fetches whatever the worker holds.
* `EndIfGuestsEnd`: if all guest functions end, so does every coroutine,
  unless `set_slots` let go of it.

Admission (`Admission.cfg`; all proved), the first three at the moment an
accepting verdict is given:

* `OwnTimeFits`: the accepted task ends in time if nothing else comes, except
  for tasks with exactly its deadline (see 5).
* `LastKeepsFeasible`: one accepted behind all others, by the quick test on a
  fresher board than the rest of the reckoning, leaves the whole set feasible.
* `UnstartedStayInTime`: one accepted between others leaves those later tasks in
  time that have an `ava_time` entry and have not begun, if no two requests have
  had one deadline and nothing has cost time that is not reckoned with. The entry
  is as old as the last insertion; this is what it is still good for.
* `ChargeExact`: through any number of preemptions a task is charged exactly what
  it still needs, until it overruns; one noted after the worker had begun it
  may be charged in full. `NeverUnderCharged`: and no less
  when a verdict is given, although `curr_running_id` is read after the copy and
  the entry may be the late one.
* `WaitsOnlyIfLate`: no busy-wait takes time, and no subtraction of durations is
  negative, as long as every task is noted before the worker begins it. The
  overtaken hand-over is the only cause of both; with it they do happen, and a
  wait may be as long as the task that runs, or endless (`admission_spin`).
* `AcceptsInTime`: however long `is_schedulable` has waited, what it accepts still fits
  before its deadline. It rests on the present being read after the wait, and
  on the panic where it does not fit.

FuncResult: `ReadyHasResult` (proved; the `unwrap` in `poll` never fails and the answer
is the answerer's, twice answered or not), `WaitersServed` (a future that has
stored its waker is woken by the answer).

Requests (`Requests.cfg`):

* `OneAnswerer` (proved): every accepted call that is not answered is in exactly one
  place that will answer it: one queue, one thread, or the workers. This is
  what `FuncResult` takes for granted of its callers.
* `NamesStay` (proved): a name that a handler has looked up is there when the scheduler
  thread, or `/test` after its await, looks it up again without having kept the
  lock. It covers the silent drop in `spawn_scheduler` and the `unwrap` under
  the write lock.
* `UniqueTasks` (proved): no two living coroutines have one task name.
* `ExecutorRuns`, `SchedulerRuns`: neither thread is kept for good, even if no
  guest function ever returns. They rest on the code's habit of leaving the
  block of the lock guard before it awaits (the variable `status`), and on
  `call_func` not waiting for the coroutine.

Status (`Status.cfg`; all proved):

* `KnownFound`: `get_status_by_id` finds a task that was there when it began,
  although the task may move between two looks. It rests on `push` before
  `delete_status`, and excepts busy locks and evictions, of which it knows.
* `NothingVanishes`: when `/status` finds no running task, the completed ones it
  lists include all that ran or had completed when it began.
* `StayersListed` (a theorem only, in no run): a task on its board throughout is
  reported.
* `RecentKept`: a completed status stays in the cache until as many others as it
  holds have completed or been looked up.

Cgroup (`Cgroup.cfg`; all proved, of one server on a machine with the controller `cpuset`):

* `OwnCpus`: threads that have set themselves up share no CPU, whatever an
  earlier server left and whenever it was killed.
* `JoinedIsPinned`: a thread in its directory is on its CPU from the first moment.
* `StaysInRange`: no thread leaves the CPUs the server was given.

### 3.1 Fairness

`WF` of the scheduler thread and of each loop: threads run. `SF` of
`Decide`: the busy-wait of `is_schedulable` meets a task with a start time if
it meets one again and again. `SF` of the loop outside handlers: `run_co`
resets the timer before each resume (`reset_timer`), so a resumed coroutine has
a whole period before the next SIGALRM, and the period is longer than a few
steps of the loop. `SF` of `Urg`: the kernel delivers a pending signal to a
thread that keeps coming back unblocked. `WF` of `Alrm`: a configured timer
expires. `RealtimeGuestsEnd`, in `Live.cfg`: a guest function with a deadline,
which has declared how long it runs, returns if it keeps getting the CPU. That
*all* guest functions do (`GuestsEnd`) is assumed only by `AdmissionSpin.cfg`, to
show that it does not help, and by `EndIfGuestsEnd`, as its hypothesis. FuncResult: the answering thread and the
executor run; nothing obliges the executor to poll a future that is not woken.
Requests: `WF` of the threads that go on by themselves, `SF` of the poll of a
woken task (tokio polls them in turn) and of the write lock (the `RwLock` of the
standard library lets no reader pass a waiting writer). No fairness of guest
functions, coroutines or tester. `Admission`, `Status` and `Cgroup` have safety
properties only.

## 4. Runs

| run | bounds | shows |
|---|---|---|
| `full` | 2 workers, 2 ids, one deadline, capacity 2, signals everywhere | board, slots, signals and exclusive running survive any interruption, and so does the refinement; the harm stays with the workers struck |
| `safe` | 2 workers, 3 ids, two deadlines, capacity 2, signals at safe points | exactly one owner, with more tasks and deadlines than `full` |
| `live` | 1 worker, 3 ids, one deadline, capacity 2, signals at safe points | turns, real-time tasks end, all end if guests do |
| `requests` | 2 calls, 1 wasm name, 1 task name and "anon", queue of 1, 1 upload in flight | one answerer per call, names, locks, answers |
| `admission` | 3 real-time requests and one other, instants 0..6, execution time 2, deadlines 2, 3 and 5, overrun 1 | what a verdict guarantees, what the board charges, when admission waits |
| `status` | 2 workers, 3 tasks, two with deadlines, cache of 2 | queries while tasks move |
| `cgroup` | one server, started with 1 worker from CPU 0 or 2 workers from CPU 1, killed and restarted at will, 2 thread ids, 7 CPUs | threads on their own CPUs |
| `task_lost` | 1 worker, 2 ids, signals also at `picked` | violated: see 5 |
| `admission_spin` | 1 worker, 2 ids | violated |
| `slot_occupied` | 1 worker, 3 ids | violated |
| `lost_wakeup` | 1 call | violated |
| `deadline_missed` | 2 requests, instants 0..4, execution times 1, 2 and 4, deadlines 2, 3 and 6 | violated |

Why the bounds are enough to be interesting: three tasks are one running, one
in the slot and one arriving; with `Capacity = 2` a worker is half full with
one task and full with two, so every branch on `len` is taken (256 would need
128 tasks); two workers are enough for every conflict on the global queue and
the mutex, and ids are placed by `c % NumWorkers`, so both get some. Two
deadlines give earlier, later and equal. In `requests` two calls are enough for
a full queue, for a name asked for twice, and for a handler that waits for the
lock the scheduler thread holds for another call; one upload and `/init` are
two registrations of one name. In `admission` three tasks are one before, one
after and one in between, and the deadline 2 with the execution time 2 is one
that `call_func` refuses. In `status` three tasks overflow a cache of two, and
two workers give a query a place before and after the one a task leaves. In
`cgroup` the second start asks for other CPUs under the names of the first, and
two thread ids make workers meet old directories, of the other index too.

`CHECK_DEADLOCK FALSE` is in `Full.cfg` (a corrupt worker stops, and the id
bound stops the rest), in `Requests.cfg` and `LostWakeup.cfg` (all calls over)
and in `Admission.cfg` and `DeadlineMissed.cfg` (the horizon reached); the
others run with deadlock checked.

## 5. Where the code and its documents differ

With a run:

* `task_lost`: `set_curr` writes `curr` without looking at it. A SIGALRM
  between the loop's `set_curr` and its `take` chooses again, and the coroutine
  chosen first is in no queue any more. The test plan ("hyperwasm test.txt:12")
  expects tasks without deadlines to run in turns.
* `admission_spin`: for a SCHEDULABLE verdict the coroutine is pushed before
  its board entry is written (`runtime.rs:145-146`). If the worker finishes it in
  between, the entry stays for ever, and `is_schedulable` looks for a start
  time of `curr_running_id` for ever ("perhaps the task has just started",
  `runtime.rs:190`), with the scheduler thread. If it has only begun it, the entry
  hides the start time, and the loop spins until the task ends.
* `slot_occupied`: `set_slots` does nothing when the slot is full: the second
  coroutine admitted as PREEMPTIVE is dropped, its caller never answered.
* `lost_wakeup`: `poll` stores its waker after it has released the flag's
  mutex; a completion in between wakes nobody.
* `deadline_missed`: statuses are equal when their deadlines are, so a task with
  the request's deadline is counted neither before it nor after it. The test
  plan (line 7) expects tasks that pass admission control to end in time.

Met while modelling, without a run of their own:

* `preemptive` makes the slot's coroutine `curr` whatever the worker has fetched
  since the verdict, against the order by deadlines the plan expects
  (`hyperwasm test.txt:11`); and a task admitted as SCHEDULABLE may find one with
  a later deadline running when it arrives, which nothing preempts.
* A task that runs uses up the slack of those behind it, but their `ava_time` stays as
  it was at the last insertion; and a task accepted by insertion gets no entry
  (the update is commented out, `runtime.rs:314-320`), so later insertions do not
  check it. `UnstartedStayInTime` has the two exceptions as hypotheses.
* Equal deadlines have a second effect besides `deadline_missed`: an insertion
  lowers the entries of strictly later tasks only (`runtime.rs:330`), so a task with
  the deadline of the inserted one keeps an entry that no longer bounds its slack,
  and the next insertion makes it late. It takes four requests, which is more
  than `Admission.cfg` has: the attempt to prove `UnstartedStayInTime` brought it
  up. The property excludes it by `DeadlinesDiffer`.
* Over a running task without a deadline a request is PREEMPTIVE without a look at the
  real-time tasks that wait (the branch `nrtBlind` of `Admission`).
* `update_ava_time_map` writes a whole copy back: an entry a worker has deleted
  meanwhile returns.
* `/uname` is documented to find a task by its name (`server.rs:347`,
  `runwasm.rs:436`), but `NAME_ID` is a thread-local that the scheduler thread
  fills and the HTTP thread reads: the task of a `/call` is never found.
* `Runtime::get_status` is documented as all tasks that run or are ready
  (`runtime.rs:427`): tasks without deadlines that wait for their first turn are
  on no board, and the race of `admission_spin` leaves entries of finished ones.
  It is no snapshot either: tasks of different boards need never have run
  together. The properties of `Status` say what can be relied on.
* Two servers on one machine, as in the first step of the test plan
  (`hyperwasm test.txt:1`), use the same directories `main`, `scheduler`,
  `tester` and the same `hyperwasm`: the second gives them its own CPUs and so
  moves the first one's threads. With two servers in `Procs` TLC finds `OwnCpus`
  violated at once.
* With `--workers 0` one worker is made, on the CPU the tester is bound to.
* Every 10000th call reads a start time of the HTTP thread that only `/init` sets
  (`server.rs:259`), and panics without one.

## 6. Proofs

Every invariant that a passing run checks of the code as it is is a theorem, and
so are the two refinements. The theorems hold for every value of the constants
that satisfies the named assumption of the module they are about
(`SchedAssumption`, `CallsAssumption`, `RequestsAssumption`,
`AdmissionAssumption`, `StatusAssumption`, `CgroupAssumption`): any number of
workers, ids, deadlines, calls and thread ids, any capacity, any set of signal
points. One hypothesis comes on top, in the theorems of `CgroupProofs` that state
it: `SingleServer /\ CpusetOffered` (one server on a machine whose root group
offers the controller), which the values in `Cgroup.cfg` satisfy. The properties
of `Safe.cfg` and `Live.cfg`, which hold only with signals at safe points, are
model-checked; the theorems about their subject are those of `StrikesProofs`,
which assume nothing about signals.

* `HyperSchedProofs`: `TypeInv` strengthens `TypeOK` with what indexing needs: a
  worker from `resume` to `cleanup` holds a coroutine and one at `picked` has
  chosen one (`HoldOK`), a real-time request in hand has an id, and one without
  a deadline finds an id left (`JobOK`). THEOREMs `Typing` and `TypeCorrect`.
* Slots and signals (same module): `PreemptionArmed` is inductive once `urg` is known to be
  cleared only with the slot empty or taken (`UrgOnly`) and other steps leave both alone
  (`Elsewhere`). `NoEarlySignal` follows from `NotStarted`: a worker that
  is still booting has an empty `curr_running_id`, no signal and no coroutine in
  its slot, and no PREEMPTIVE verdict is about it; no worker boots twice
  (`BootOnce`).
* Ownership (same module): `Zone(c, k, w)` says where a coroutine may be: the
  scheduler's hand, the global queue, a real-time queue, a slot, or a worker's
  own structures. `OwnInv` says that a coroutine is in one zone (`Exclusive`),
  exists if it is in one (`Created`), is in the global queue once
  (`QueuedOnce`, or `Tail` would leave a copy behind), and that ids to come are
  fresh (`Fresh`, or a spawn could put a coroutine in a second zone). What a
  worker does among its own structures, corrupt or not, does not change the
  zone; that is why `ExclusiveRun` survives every signal while `OneOwner`,
  which tells places inside a zone apart, does not.
* `LifecycleProofs`, what runs: `RunInv` adds, per worker (`RunsOK`), what is on the board
  (`OnBoard`), that `current()` is the coroutine `run_co` holds (`CurHeld`), that
  it is not freed (`HeldAlive`), that one on its way out of `main` has completed
  (`ExitingDone`) and that a switch back is noted on the board or is the end
  (`Noted`). Whoever is switched out away from guest code has completed
  (`DoneAway`), and a completed coroutine is freed or still in the hands that
  free it (`DoneHeld`). The last two are the heart: with `Exclusive` they say
  that a coroutine whose context lies past guest code is never resumed, so the
  LATENCY section and the end of `main` run once. THEOREM `BoardRight` is
  `RunningAccurate`.
* `LifecycleProofs`, the refinement: `LifeInv` adds where `hold` and `current()` may be
  set (`HandsOK`), that what is freed has completed (`FreedDone`), that the
  coroutine in the scheduler's hand is fresh (`HandFresh`) and that one which
  `set_slots` dropped has not begun and is in no zone (`DroppedOut`), hence never
  comes back. `OneThread` and `Alone` take from `Exclusive` that nobody else
  executes a coroutine that is about to start; `StepMaps` then shows each step
  of a worker to be `Start`, `Stop`, `Return`, `Free` or a stutter, and
  `SchedulerMaps` each step of the scheduler thread to be `Submit`, `Lose` or a
  stutter. THEOREM `Refines` is `RunsOnce`.
* `RequestsProofs`, the answer: `ReadyHasResult` for any number of calls. It is inductive
  with: a completed call has the answer stored (`completed`'s flag is raised
  after `set_result`, and a second pair stores the same answer), and a future
  that found the flag found a completed call.

* `RequestsProofs`, the pipeline: `ReqInv` adds to `ReqTypeOK` that a busy scheduler thread
  has a request in hand (`InHand`), that a polled future's handler is at its
  await (`Polled`), that whoever is queued, served or past the lookup has
  arrived and asks for a deployed name (`Known`), and that the names of living
  tasks are in `NAME_ID` (`Named`). THEOREM `AnswersByTheRules` is the
  refinement: every step of `Requests` is a step of `FuncResult` or leaves it
  alone, so `CallsUnwrap` carries `ReadyHasResult` over. `HoldInv` is about the
  five zones a call can be in: it is in one (`OneZone`) and once (`QueuesOnce`),
  in none until accepted and in some until its answer begins (`ZoneIfClaimed`),
  which only the thread that has it can do (`NotYet`). THEOREM `AnsweredByOne` is
  `OneAnswerer`: the set it counts has the one element the zone gives.

* `StrikesProofs`: `SafeOK` divides the own zone of a worker into its places
  (`curr`, `current()`'s hands, the two queues and the fetched real-time
  coroutines): they are disjoint and without repetition, `len` is the sum of
  their sizes, and what has been chosen has the precedence it should. `SoundInv`
  claims it of the workers not struck. A struck worker is not described at all; what
  bounds it is `AllInv`, the invariant that holds wherever signals strike: its
  coroutines are in its own zone (`Exclusive`), so nothing it does to them
  shows up in another place. `Found` says that what exists is in a sound place or
  may be lost; it is kept because what goes to a struck worker with a deadline was
  admitted there (`AtHome`), and that needs `Timed` and `Untimed`: slots and real-time
  queues have only coroutines with a deadline, the global queue only others.
  `FreedOut` says that what is freed is in no sound place. The mutex: whoever holds it
  and is switched out of its critical section was switched by a handler at an
  unsafe point, which strikes that worker.
* `AdmissionProofs`, the accounts: `AdmInv` is `AdmissionTypeOK` with the order
  of ids (`Fresh`), the clock and the start times (`Clock`), what each coroutine's
  own status has been charged (`Accounts`), how its entry on the board relates to
  that status (`Boarded`: a copy, or a late note; missing only between push and
  note), what the worker has announced (`Announced`) and what of the copy is
  still right about the tasks that live (`Copied`). `ChargeExact` and
  `NeverUnderCharged` follow, the latter because an id that `curr_running_id` names
  without a start time in the copy is retried (`Known`). `Spare` says that while
  no note has come late the clock has not moved between admission and verdict, and
  carries `WaitsOnlyIfLate`; `AcceptsInTime` follows from what each branch compares.
* `AdmissionProofs`, the times: `TimeInv` says what each branch of
  `is_schedulable` has established (`Judged`, `Inserted`), until the hand-over
  has made it true of the board. `Entries` is the heart: with deadlines that
  differ and nothing unreckoned, the entry of a task that has not run, plus the
  work due before it, plus the present, does not exceed its deadline. Time that
  passes is work done on an earlier task (`InOrder`, earliest deadline first), so
  the sum stays; an insertion adds to the work what it takes off the entry. The
  reference `Feasible` sums what tasks need over sets; `Sums` has what that takes.
* `Sums`: a sum over a finite set exists, is unique, and adds, splits and
  compares as sums do. The library's induction theorems take an operator and
  cannot be used; instead the least counterexample is taken of a set of
  counterexamples, by the well-foundedness of strict inclusion among subsets.
* `StatusProofs`: `Used` and `Put` keep a sequence without repetitions that is
  in the order of use: whoever stands before a task is in the task's history
  `since` (`Recency`). So the task that drops out of a full cache has as many
  others in its history as the cache holds (an injection of `1 .. CompletedCap`),
  which is `Driven`. `Searching` is about a query under way: what it looks for is
  in the cache, or on a board that it has not looked at yet and not about to be
  deleted (`Ahead`). A writer's step keeps that (`Kept`) because the push comes
  before the deletion.
* `CgroupProofs`: `TypeInv` adds to `CgroupTypeOK` that a living thread's
  directory exists. `PinInv` follows each thread through its set-up, per program
  counter: what it has made, declared and written so far (`Equipped`), where it
  is (`Placed`), and the same of `hyperwasm` and the main thread (`TopReady`).
  Names differ between the threads of one server (`NamesDiffer`), so no other
  thread undoes it; that fails with two servers (section 5).

Only model-checked: `OneOwner` under `SafePoints`; liveness (`TakeTurns`, `RealtimeDone`, `EndIfGuestsEnd`,
`WaitersServed`, `ExecutorRuns`, `SchedulerRuns`), as fairness and ENABLED are
beyond the prover; and the violations of section 5, which are no theorems.
`Total` and `Work` of `Admission` are the library's `MapThenSumSet`: its
recursion is over finite sets, where the argument of `Sums` replaces induction.

## 7. Not modelled, and the plan

Not modelled:

* Contexts and stacks: ucontext and mmap change memory that the model has no
  state for; their effect is in `Swap`, `Restore`, `SwitchOut`. All stacks have
  one size, so the rounding of sizes meets one value.
* Wasm environments, parameters: calls into wasmtime and serde; their outcomes
  are choices.
* HTTP types, client, examples: no state of the server.
* The getters and unused setters of the cgroup controller (`cpu.max`,
  `cpu.weight`): nothing calls them.
* Counters and times that are only reported.
* The allocator that handlers re-enter, and the moment between arming the timer
  and installing its handler: both need a state of the C library or the kernel
  that the code does not show. They are listed as hazards.
* `/call_with_name` as a second caller of admission control: the route is
  documented as unusable (`server.rs:438`); `Requests` has the route, the core
  has one scheduler thread.

Next, in this order:

1. `Requests` over `TaskLifecycle`: `live` and `GuestEnds` replaced by the
   abstract task, so that `OneAnswerer` and `RunsOnce` meet in one statement.
2. Invariants that liveness rests on, as theorems: that a filled slot is taken at
   the next SIGURG, that a waker stored is woken.
3. What several servers on one machine can still rely on (section 5).
