----------------------------- MODULE HyperSched -----------------------------
(***************************************************************************)
(* The scheduling core of hyperwasm: requests, the global scheduler thread *)
(* and the workers, composed; what must hold of them.                      *)
(***************************************************************************)
EXTENDS GlobalScheduler, Worker

Next ==
    \/ Request \/ SchedulerStep
    \/ \E w \in Workers : WorkerStep(w)

Spec == Init /\ [][Next]_vars

---------------------------------------------------------------------------
TypeOK ==
    /\ nextId \in 1 .. MaxId + 1
    /\ spc \in {"idle", "admit", "judge", "instantiate", "spawn", "note", "slot",
                "signal"}
    /\ job \in Ids \union {None}
    /\ verdict \in Verdicts
    /\ snap \in [Ids -> BoardEntry]
    /\ gq \in Seq(Ids)
    /\ rtq \in [Workers -> SUBSET Ids]
    /\ slot \in [Workers -> Ids \union {None}]
    /\ board \in [Workers -> [Ids -> BoardEntry]]
    /\ runningId \in [Workers -> Ids \union {None}]
    /\ completed \in SUBSET Ids
    /\ dropped \in SUBSET Ids
    /\ urg \in [Workers -> BOOLEAN]
    /\ pc \in [Workers -> ControlPoints]
    /\ ret \in [Workers -> LoopPoints \union TaskPoints]
    /\ curr \in [Workers -> Ids \union {None}]
    /\ cur \in [Workers -> Ids \union {None}]
    /\ hold \in [Workers -> Ids \union {None}]
    /\ newq \in [Workers -> Seq(Ids)]
    /\ suspq \in [Workers -> Seq(Ids)]
    /\ rt \in [Workers -> SUBSET Ids]
    /\ len \in [Workers -> Int]
    /\ ddl \in [Ids -> Deadlines \union {NotRealtime}]
    /\ st \in [Ids -> CoStatus]
    /\ at \in [Ids -> TaskPoints]
    /\ latency \in Ids \union {None}

---------------------------------------------------------------------------
(* With signals at any point *)

\* The point of the interrupted code: a handler in progress hides it in ret.
Point(w) == IF pc[w] \in HandlerPoints THEN ret[w] ELSE pc[w]

\* The board says RUNNING, with a start time admission control reckons with,
\* only of the coroutine run_co has in hand (resume, suspend, delete_status).
RunningAccurate ==
    \A w \in Workers, c \in Ids :
        board[w][c] = "RUNNING" =>
            hold[w] = c /\ Point(w) \notin {"boot", "top", "picked", "resume"}

\* A filled slot is never forgotten: its SIGURG is pending, or the scheduler
\* thread is still to send it (set_slots, pthread_sigqueue, preemptive).
PreemptionArmed ==
    \A w \in Workers :
        slot[w] # None => urg[w] \/ (spc = "signal" /\ Home(job) = w)

\* SIGURG is only ever sent to a thread that has registered itself, installed
\* its handler and made its Worker (Scheduler::start): before that the signal
\* is lost, micro_process fails, or the handler panics.
NoEarlySignal ==
    \A w \in Workers :
        urg[w] \/ slot[w] # None \/ (spc \in {"slot", "signal"} /\ Home(job) = w)
            => pc[w] # "boot"

\* The coroutine a worker executes or is about to.
Executing(w) == IF pc[w] = "returned" THEN None ELSE hold[w]

\* No coroutine runs on two threads, or runs while the queues through which
\* threads hand coroutines over still have it.
ExclusiveRun ==
    \A w \in Workers :
        LET c == Executing(w) IN
        c # None =>
            /\ \A v \in Workers \ {w} :
                /\ hold[v] # c /\ curr[v] # c
                /\ c \notin ToSet(newq[v]) \union ToSet(suspq[v]) \union rt[v]
            /\ c \notin ToSet(gq)
            /\ \A v \in Workers : c \notin rtq[v] /\ slot[v] # c

\* The coroutine between the beginning and the end of resume on a worker.
InResume(w) ==
    IF Point(w) \in {"resume", "cleanup"} \/ hold[w] \in completed
    THEN None ELSE hold[w]

Lifecycle == INSTANCE TaskLifecycle WITH
    created <- {c \in Ids : st[c] # "NONE"},
    begun <- {c \in Ids : st[c] \in {"RUNNING", "SUSPENDED", "COMPLETED"}},
    returned <- {c \in Ids : st[c] = "COMPLETED"},
    freed <- completed,
    lost <- dropped,
    on <- [w \in Workers |-> InResume(w)]

\* The threads, queues and signals implement the promise of TaskLifecycle: no
\* coroutine is on two threads, resumed after its return, freed twice or under
\* a thread that executes it, or dropped by set_slots once it has run.
RunsOnce == Lifecycle!Spec

---------------------------------------------------------------------------
(* With signals at safe points *)

\* Control points where a signal finds no coroutine in curr and no context but
\* a coroutine's own: guest code, and the loop head of an idle worker.
SafePoints == {"body", "top"}

\* Is c in run_co's hands, rather than already back in a queue?
Held(w, c) ==
    hold[w] = c /\ ~(Point(w) = "returned" /\ st[c] = "SUSPENDED")

\* Every place that may own the coroutine c.
If(b, place) == IF b THEN {place} ELSE {}
Positions(q, c) == {i \in DOMAIN q : q[i] = c}
Places(c) ==
    If(spc = "slot" /\ job = c, <<"scheduler", 0, 0>>)
    \union {<<"global", 0, i>> : i \in Positions(gq, c)}
    \union UNION {
        If(c \in rtq[w], <<"real-time global", w, 0>>)
        \union If(slot[w] = c, <<"slot", w, 0>>)
        \union If(curr[w] = c, <<"chosen", w, 0>>)
        \union If(Held(w, c), <<"held", w, 0>>)
        \union If(c \in rt[w], <<"real-time", w, 0>>)
        \union {<<"new", w, i>> : i \in Positions(newq[w], c)}
        \union {<<"suspended", w, i>> : i \in Positions(suspq[w], c)}
      : w \in Workers}

\* A coroutine that exists has exactly one owner until it is freed or let go
\* by set_slots, and none afterwards: none is lost, none is queued twice, no
\* queue holds a dangling pointer.
OneOwner ==
    \A c \in Ids :
        Cardinality(Places(c)) =
            IF st[c] = "NONE" \/ c \in completed \union dropped THEN 0 ELSE 1

---------------------------------------------------------------------------
(* Liveness, with signals at safe points *)

\* Every thread keeps running; the kernel delivers a pending signal to a
\* thread that keeps coming back unblocked, and a configured timer expires,
\* with a period that lets the interrupted code go on between two expiries.
\* Admission control retries until it meets a task with a start time.
Fairness ==
    /\ WF_vars(SchedulerStep) /\ SF_vars(Decide)
    /\ \A w \in Workers :
        /\ WF_vars(RunLoop(w)) /\ SF_vars(pc[w] \notin HandlerPoints /\ RunLoop(w))
        /\ SF_vars(Urg(w)) /\ WF_vars(Alrm(w))

FairSpec == Spec /\ Fairness

\* Guest functions end: one that gets the CPU again and again returns.
GuestsEnd ==
    \A c \in Ids : SF_vars(\E w \in Workers : hold[w] = c /\ Finish(w))

\* Those of real-time tasks do, which declare an execution time.
RealtimeGuestsEnd ==
    \A c \in Ids :
        SF_vars(IsRealtime(c) /\ \E w \in Workers : hold[w] = c /\ Finish(w))

EndingSpec == FairSpec /\ GuestsEnd
RealtimeEndingSpec == FairSpec /\ RealtimeGuestsEnd

\* Every coroutine that was created runs to its end and is freed, unless
\* set_slots let go of it.
EventuallyDone ==
    \A c \in Ids : st[c] # "NONE" ~> c \in completed \union dropped

\* The same, for a run in which only real-time tasks are obliged to end: if all
\* do, every coroutine created, fetched or not, is run to its end and freed.
EndIfGuestsEnd == GuestsEnd => EventuallyDone

\* A real-time task ends although the tasks without deadlines never do, and
\* although a worker half full of them no longer fetches in its loop: the
\* timer's handler fetches, whatever the worker holds (get_task, set_curr).
RealtimeDone ==
    \A c \in Ids :
        IsRealtime(c) /\ st[c] # "NONE" ~> c \in completed \union dropped

OnCpu(c) == \E w \in Workers : hold[w] = c /\ pc[w] = "body"

\* The timer makes tasks without deadlines take turns: each one a worker has
\* accepted gets the CPU again and again until it is done, even if none of
\* them ever returns.
Accepted(c) == st[c] # "NONE" /\ c \notin ToSet(gq)
TakeTurns ==
    \A c \in Ids : [](Accepted(c) => <>(c \in completed \union dropped \/ OnCpu(c)))

---------------------------------------------------------------------------
(* What the documents, comments and tests say, and the code does not do *)

\* is_schedulable waits only for a task that has just started: a real-time
\* request is answered by admission control.
AdmissionAnswers == spc = "admit" ~> spc \in {"idle", "instantiate"}

\* micro_process: a coroutine admitted as PREEMPTIVE is put in the slot.
SlotTaken == dropped = {}
=============================================================================
