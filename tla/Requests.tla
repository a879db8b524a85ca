------------------------------ MODULE Requests ------------------------------
(***************************************************************************)
(* What becomes of a request before and after the scheduling core: the     *)
(* handlers of /call, /test, /call_with_name, /register and /init on the   *)
(* HTTP executor, the queue to the global scheduler thread, the tester     *)
(* thread, and the map of deployed wasm environments under its RwLock      *)
(* (src/axum/server.rs, src/runwasm.rs).                                   *)
(*                                                                         *)
(* Each call has a FuncResult, whose actions are conjuncts of those here.  *)
(* The executor is single-threaded: what a handler does between two awaits *)
(* excludes other handlers, but not the other threads.                     *)
(***************************************************************************)
EXTENDS FuncResult, FiniteSets, Sequences

CONSTANTS WasmNames,   \* names under which environments are deployed
          TaskNames,   \* task_unique_name of a request, "anon" aside
          Anon,        \* "anon": call_func makes a fresh name of it
          QCapacity,   \* capacity of REQUEST_QUEUE
          MaxUploads,  \* bound: uploads of /register in flight, per name
          NoCall, NoName

ASSUME RequestsAssumption ==
    /\ QCapacity \in Nat \ {0} /\ MaxUploads \in Nat
    /\ NoCall \notin Calls /\ NoName \notin WasmNames /\ Anon \notin TaskNames

VARIABLES
    hpc,          \* the handler of a call
    kind,         \* its route
    wasm, task,   \* what the call asks for
    requestQueue, \* REQUEST_QUEUE
    testQueue,    \* TEST_QUEUE
    sched,        \* where spawn_scheduler's loop is
    serving,      \* the request it serves
    testing,      \* the test spawn_tester's loop runs
    live,         \* calls whose coroutine is in the workers' hands
    registered,   \* the keys of ENV_MAP
    configured,   \* ... whose environment has a func_config
    uploads,      \* /register requests past their check, per name
    installing,   \* the name a handler waits to insert, on the executor
    names         \* the keys of NAME_ID, the scheduler thread's own

callVars == <<completed, result, waker, locked, fpc, woken, answerVars>>
mapVars == <<registered, configured, uploads, installing>>
threadVars == <<requestQueue, sched, serving, names>>
testVars == <<testQueue, testing>>
reqVars == <<callVars, mapVars, threadVars, testVars, live, hpc, kind, wasm, task>>

ReqInit ==
    /\ Init
    /\ hpc = [c \in Calls |-> "idle"]
    /\ kind = [c \in Calls |-> "call"]
    /\ wasm = [c \in Calls |-> NoName] /\ task = [c \in Calls |-> Anon]
    /\ requestQueue = <<>> /\ testQueue = <<>>
    /\ sched = "idle" /\ serving = NoCall /\ testing = NoCall /\ live = {}
    /\ registered = {} /\ configured = {}
    /\ uploads = [n \in WasmNames |-> 0] /\ installing = NoName
    /\ names = {}

\* The scheduler thread holds the read lock of ENV_MAP from the lookup until
\* call_func has returned and an error is answered.
Reading == sched \in {"call", "answer"}

\* A handler that polls, waits for the write lock or has not reached its await
\* keeps the executor.
Busy(c) == \/ hpc[c] \in {"begin", "testLock", "timeLock"}
           \/ fpc[c] \in {"check", "register", "ready"}
ExecutorFree == installing = NoName /\ \A c \in Calls : ~Busy(c)

Arrives(c, k, n, pc) ==
    /\ ExecutorFree /\ hpc[c] = "idle"
    /\ hpc' = [hpc EXCEPT ![c] = pc]
    /\ kind' = [kind EXCEPT ![c] = k]
    /\ wasm' = [wasm EXCEPT ![c] = n]

---------------------------------------------------------------------------
(* Handlers, on the executor *)

\* Parameters that do not parse, a name that is not deployed, or, for
\* /call_with_name, no configuration or an error of call_func.
Refuse(c, n) ==
    /\ Arrives(c, "call", n, "refused")
    /\ UNCHANGED <<callVars, mapVars, threadVars, testVars, live, task>>

\* Mutant of CallArrives: the name is not looked up.
CallArrivesUnchecked(c, n, t) ==
    /\ Len(requestQueue) < QCapacity
    /\ Arrives(c, "call", n, "begin")
    /\ task' = [task EXCEPT ![c] = t]
    /\ requestQueue' = Append(requestQueue, c)
    /\ UNCHANGED <<callVars, mapVars, sched, serving, names, testVars, live>>

\* /call: the request is queued ...
CallArrives(c, n, t) ==
    /\ n \in registered /\ Len(requestQueue) < QCapacity
    /\ Arrives(c, "call", n, "begin")
    /\ task' = [task EXCEPT ![c] = t]
    /\ requestQueue' = Append(requestQueue, c)
    /\ UNCHANGED <<callVars, mapVars, sched, serving, names, testVars, live>>

\* Mutant of CallOverflows: the queue takes one too many.
CallOverflowsInto(c, n, t) ==
    /\ n \in registered /\ Len(requestQueue) = QCapacity
    /\ Arrives(c, "call", n, "begin")
    /\ task' = [task EXCEPT ![c] = t]
    /\ requestQueue' = Append(requestQueue, c)
    /\ UNCHANGED <<callVars, mapVars, sched, serving, names, testVars, live>>

\* ... or dropped when the queue is full: the handler awaits all the same.
CallOverflows(c, n, t) ==
    /\ n \in registered /\ Len(requestQueue) = QCapacity
    /\ Arrives(c, "call", n, "begin")
    /\ task' = [task EXCEPT ![c] = t]
    /\ NoAnswer(c)
    /\ UNCHANGED <<mapVars, threadVars, testVars, live>>

\* /call_with_name calls call_func itself, under the fresh name of "anon", which
\* goes into the NAME_ID of the executor thread and clashes with none.
NamedArrives(c, n) ==
    /\ n \in configured
    /\ Arrives(c, "named", n, "begin")
    /\ live' = live \union {c}
    /\ UNCHANGED <<callVars, mapVars, threadVars, testVars, task>>

\* /test needs the write lock ...
TestArrives(c, n) ==
    /\ Arrives(c, "test", n, "testLock")
    /\ UNCHANGED <<callVars, mapVars, threadVars, testVars, live, task>>

\* Mutant of SetTestEnv: the test is queued before the name is looked up.
SetTestEnvFirst(c) ==
    /\ hpc[c] = "testLock" /\ ~Reading
    /\ testQueue' = Append(testQueue, c)
    /\ hpc' = [hpc EXCEPT ![c] = IF wasm[c] \in registered THEN "begin" ELSE "refused"]
    /\ configured' = configured \union (registered \intersect {wasm[c]})
    /\ UNCHANGED <<callVars, registered, uploads, installing, threadVars, testing,
                   live, kind, wasm, task>>

\* ... under which it configures the environment and queues the test ...
SetTestEnv(c) ==
    /\ hpc[c] = "testLock" /\ ~Reading
    /\ \/ /\ wasm[c] \in registered
          /\ testQueue' = Append(testQueue, c)
          /\ configured' = configured \union {wasm[c]}
          /\ hpc' = [hpc EXCEPT ![c] = "begin"]
       \/ /\ wasm[c] \notin registered
          /\ hpc' = [hpc EXCEPT ![c] = "refused"]
          /\ UNCHANGED <<testQueue, configured>>
    /\ UNCHANGED <<callVars, registered, uploads, installing, threadVars, testing,
                   live, kind, wasm, task>>

\* ... and again for the time measured, if the environment is configured still.
\* The name is looked up once more, and unwrapped.
SetTestTime(c) ==
    /\ hpc[c] = "timeLock" /\ ~Reading
    /\ hpc' = [hpc EXCEPT ![c] = IF wasm[c] \in registered THEN "done" ELSE "panicked"]
    /\ UNCHANGED <<callVars, mapVars, threadVars, testVars, live, kind, wasm, task>>

\* get_result: the first poll follows without a pause, others when the executor
\* comes to a woken task.  (Polls for other reasons are FuncResult's.)
PollResult(c) ==
    /\ hpc[c] = "begin" \/ (hpc[c] = "await" /\ ExecutorFree)
    /\ hpc' = [hpc EXCEPT ![c] = "await"]
    /\ Executor(c)
    /\ UNCHANGED <<mapVars, threadVars, testVars, live, kind, wasm, task>>

Awaiting(c) ==
    /\ Check(c) \/ Register(c)
    /\ UNCHANGED <<mapVars, threadVars, testVars, live, hpc, kind, wasm, task>>

\* The handler goes on with the answer; /test stores the time measured.
Return(c) ==
    /\ Deliver(c)
    /\ hpc' = [hpc EXCEPT ![c] =
                  IF kind[c] = "test" /\ result[c] = "value" THEN "timeLock" ELSE "done"]
    /\ UNCHANGED <<mapVars, threadVars, testVars, live, kind, wasm, task>>

\* The client goes away while its handler awaits.
Drop(c) ==
    /\ hpc[c] = "await" /\ ExecutorFree
    /\ hpc' = [hpc EXCEPT ![c] = "done"]
    /\ Disconnect(c)
    /\ UNCHANGED <<mapVars, threadVars, testVars, live, kind, wasm, task>>

\* /register looks the name up and awaits the upload ...
RegisterChecks(n) ==
    /\ ExecutorFree /\ n \notin registered /\ uploads[n] < MaxUploads
    /\ uploads' = [uploads EXCEPT ![n] = @ + 1]
    /\ UNCHANGED <<callVars, registered, configured, installing, threadVars, testVars,
                   live, hpc, kind, wasm, task>>

\* ... compiles what came, if it compiles, and goes on to insert it.
RegisterResumes(n) ==
    /\ ExecutorFree /\ uploads[n] > 0
    /\ uploads' = [uploads EXCEPT ![n] = @ - 1]
    /\ installing' \in {n, NoName}
    /\ UNCHANGED <<callVars, registered, configured, threadVars, testVars,
                   live, hpc, kind, wasm, task>>

\* /init does it all without an await that waits.
InitChecks(n) ==
    /\ ExecutorFree /\ n \notin registered
    /\ installing' = n
    /\ UNCHANGED <<callVars, registered, configured, uploads, threadVars, testVars,
                   live, hpc, kind, wasm, task>>

\* The insertion, which replaces an environment of that name.
Install ==
    /\ installing # NoName /\ ~Reading
    /\ registered' = registered \union {installing}
    /\ configured' = configured \ {installing}
    /\ installing' = NoName
    /\ UNCHANGED <<callVars, uploads, threadVars, testVars, live, hpc, kind, wasm, task>>

---------------------------------------------------------------------------
(* spawn_scheduler's loop *)

Pop ==
    /\ sched = "idle" /\ requestQueue # <<>>
    /\ serving' = Head(requestQueue)
    /\ requestQueue' = Tail(requestQueue)
    /\ sched' = "lookup"
    /\ UNCHANGED <<callVars, mapVars, names, testVars, live, hpc, kind, wasm, task>>

\* The read lock; a request whose name is not deployed is dropped.
Lookup ==
    /\ sched = "lookup"
    /\ IF wasm[serving] \in registered
       THEN sched' = "call" /\ UNCHANGED <<callVars, serving>>
       ELSE sched' = "idle" /\ serving' = NoCall /\ NoAnswer(serving)
    /\ UNCHANGED <<mapVars, requestQueue, names, testVars, live, hpc, kind, wasm, task>>

NameFree(t) == t \notin names

\* call_func gives an error, which the loop answers: the name is taken, the
\* deadline is not after the execution time, or there is no instance.
CallFails ==
    /\ sched = "call"
    /\ Answered(serving, "error")
    /\ sched' = "answer"
    /\ UNCHANGED <<mapVars, serving, requestQueue, names, testVars, live,
                   hpc, kind, wasm, task>>

\* Past the names: admission control or micro_process refuses.
CallUnschedulable ==
    /\ sched = "call" /\ NameFree(task[serving])
    /\ CallRejected(serving)
    /\ sched' = "answer"
    /\ UNCHANGED <<mapVars, serving, requestQueue, names, testVars, live,
                   hpc, kind, wasm, task>>

\* Mutants of CallSpawns: the name is not kept; the loop waits for the guest.
CallSpawnsUnnamed ==
    /\ sched = "call" /\ NameFree(task[serving])
    /\ live' = live \union {serving}
    /\ sched' = "idle" /\ serving' = NoCall
    /\ UNCHANGED <<callVars, mapVars, requestQueue, names, testVars, hpc, kind, wasm, task>>

CallSpawnsAndWaits ==
    /\ sched = "call" /\ NameFree(task[serving])
    /\ live' = live \union {serving}
    /\ names' = names \union ({task[serving]} \ {Anon})
    /\ sched' = "answer" /\ UNCHANGED serving
    /\ UNCHANGED <<callVars, mapVars, requestQueue, testVars, hpc, kind, wasm, task>>

\* The coroutine is the workers'; its name is taken for good.
CallSpawns ==
    /\ sched = "call" /\ NameFree(task[serving])
    /\ live' = live \union {serving}
    /\ names' = names \union ({task[serving]} \ {Anon})
    /\ sched' = "idle" /\ serving' = NoCall
    /\ UNCHANGED <<callVars, mapVars, requestQueue, testVars, hpc, kind, wasm, task>>

\* The error is answered and the read lock released.
ServeEnds ==
    /\ sched = "answer" /\ apc[serving] = "gone"
    /\ sched' = "idle" /\ serving' = NoCall
    /\ UNCHANGED <<callVars, mapVars, requestQueue, names, testVars, live,
                   hpc, kind, wasm, task>>

SchedulerLoop ==
    Pop \/ Lookup \/ CallFails \/ CallUnschedulable \/ CallSpawns \/ ServeEnds

---------------------------------------------------------------------------
(* The other threads that answer *)

\* A coroutine ends, or is lost (set_slots, a panic).
GuestEnds(c) ==
    /\ c \in live
    /\ live' = live \ {c}
    /\ NoAnswer(c) \/ \E a \in Answers : Answered(c, a)
    /\ UNCHANGED <<mapVars, threadVars, testVars, hpc, kind, wasm, task>>

\* spawn_tester's loop: get_test_env, call_func_sync, the answer.
TakeTest ==
    /\ testing = NoCall /\ testQueue # <<>>
    /\ testing' = Head(testQueue) /\ testQueue' = Tail(testQueue)
    /\ UNCHANGED <<callVars, mapVars, threadVars, live, hpc, kind, wasm, task>>

CallSync(a) ==
    /\ testing # NoCall
    /\ Answered(testing, a)
    /\ UNCHANGED <<mapVars, threadVars, testVars, live, hpc, kind, wasm, task>>

TestEnds ==
    /\ testing # NoCall /\ apc[testing] = "gone"
    /\ testing' = NoCall
    /\ UNCHANGED <<callVars, mapVars, threadVars, testQueue, live, hpc, kind, wasm, task>>

\* set_result, set_completed, by whichever thread answers.
Answer(c) ==
    /\ Answering(c)
    /\ UNCHANGED <<mapVars, threadVars, testVars, live, hpc, kind, wasm, task>>

---------------------------------------------------------------------------
\* What the executor does once it has begun.
Handling(c) ==
    (PollResult(c) /\ hpc[c] = "begin") \/ Awaiting(c) \/ Return(c)
Locking == Install \/ \E c \in Calls : SetTestEnv(c) \/ SetTestTime(c)

ReqNext ==
    \/ \E c \in Calls :
        \/ \E n \in WasmNames :
            \/ Refuse(c, n) \/ NamedArrives(c, n) \/ TestArrives(c, n)
            \/ \E t \in TaskNames \union {Anon} :
                CallArrives(c, n, t) \/ CallOverflows(c, n, t)
        \/ SetTestEnv(c) \/ SetTestTime(c)
        \/ PollResult(c) \/ Awaiting(c) \/ Return(c) \/ Drop(c)
        \/ GuestEnds(c) \/ Answer(c)
    \/ \E n \in WasmNames : RegisterChecks(n) \/ RegisterResumes(n) \/ InitChecks(n)
    \/ Install
    \/ SchedulerLoop
    \/ TakeTest \/ TestEnds
    \/ \E a \in Answers : CallSync(a)

ReqSpec == ReqInit /\ [][ReqNext]_reqVars

\* Threads go on, the executor polls its woken tasks in turn, and a writer of
\* ENV_MAP is not overtaken by readers for ever.  Nothing says that a guest
\* function returns, neither a coroutine's nor the tester's.
ReqFairSpec ==
    /\ ReqSpec
    /\ WF_reqVars(SchedulerLoop) /\ WF_reqVars(TakeTest) /\ WF_reqVars(TestEnds)
    /\ SF_reqVars(Locking)
    /\ \A c \in Calls :
        WF_reqVars(Answer(c)) /\ WF_reqVars(Handling(c)) /\ SF_reqVars(PollResult(c))

---------------------------------------------------------------------------
ReqTypeOK ==
    /\ TypeOK
    /\ hpc \in [Calls -> {"idle", "refused", "begin", "await", "testLock", "timeLock",
                          "done", "panicked"}]
    /\ kind \in [Calls -> {"call", "named", "test"}]
    /\ wasm \in [Calls -> WasmNames \union {NoName}]
    /\ task \in [Calls -> TaskNames \union {Anon}]
    /\ requestQueue \in Seq(Calls) /\ Len(requestQueue) <= QCapacity
    /\ testQueue \in Seq(Calls)
    /\ sched \in {"idle", "lookup", "call", "answer"}
    /\ serving \in Calls \union {NoCall} /\ testing \in Calls \union {NoCall}
    /\ live \subseteq Calls
    /\ configured \subseteq registered /\ registered \subseteq WasmNames
    /\ uploads \in [WasmNames -> 0 .. MaxUploads]
    /\ installing \in WasmNames \union {NoName}
    /\ names \subseteq TaskNames

\* Who has a call that nobody has answered.
Holders(c) ==
    {<<"queue", i>> : i \in {j \in DOMAIN requestQueue : requestQueue[j] = c}}
    \union {<<"tests", i>> : i \in {j \in DOMAIN testQueue : testQueue[j] = c}}
    \union {<<"thread", t>> : t \in {s \in {serving, testing} : s = c}}
    \union {<<"workers", k>> : k \in live \intersect {c}}

\* Every call a handler has accepted has exactly one thread or queue that will
\* answer it, until it is answered or known to be lost; one that was refused
\* has none (CallArrives, SetTestEnv, call_func, get_test_env).
OneAnswerer ==
    \A c \in Calls :
        apc[c] = "working" =>
            Cardinality(Holders(c)) =
                IF hpc[c] \in {"idle", "refused", "testLock"} THEN 0 ELSE 1

\* The name a handler has looked up is deployed still when it is used, without
\* the lock in between: spawn_scheduler drops no request, and the unwrap under
\* the write lock in /test does not panic (which would poison ENV_MAP).
NamesStay ==
    /\ sched = "lookup" => wasm[serving] \in registered
    /\ \A c \in Calls : hpc[c] # "panicked"

\* No two coroutines have one name, whoever asks for it first ("must be
\* unique", FuncConfig).
UniqueTasks ==
    \A c, d \in live : c # d /\ task[c] = task[d] => task[c] = Anon

\* The executor is never kept for good: a handler that waits for the write lock
\* of ENV_MAP gets it, even if no guest function ever returns.
ExecutorRuns == []<>ExecutorFree

\* Nor is the scheduler thread: the next request of the queue is served, even if
\* no guest function ever returns.
SchedulerRuns == []<>(sched = "idle")
=============================================================================
