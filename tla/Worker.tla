------------------------------- MODULE Worker -------------------------------
(***************************************************************************)
(* A worker thread: its run loop, the coroutine it runs, and the two       *)
(* signals that interrupt it (src/scheduler/worker.rs, signal_handler of   *)
(* src/scheduler/mod.rs, resume, suspend and main of src/task/mod.rs).     *)
(*                                                                         *)
(* A handler runs with every signal blocked, so SIGURG's, which touches    *)
(* nothing another thread waits for, is one step; SIGALRM's takes the      *)
(* queue mutexes and is a step per try_lock.  A handler that switches      *)
(* away leaves the coroutine's context at the interrupted point: away from *)
(* guest code (TaskPoints) that context is a piece of the run loop itself, *)
(* and what the thread does next is undefined (control point "corrupt").   *)
(***************************************************************************)
EXTENDS SchedState

\* The thread registers itself, installs the handlers, makes its Worker and
\* timer, and enters run.
Boot(w) ==
    /\ pc[w] = "boot"
    /\ pc' = [pc EXCEPT ![w] = "top"]
    /\ UNCHANGED <<requestVars, schedulerVars, markVars, curr, cur, hold, ret,
                   queueVars, taskVars>>

\* The head of the loop: a chosen coroutine is taken first.
LoopHead(c) == IF c = None THEN "top" ELSE "picked"

\* run, `else`: fetch only while less than half full, then choose.
LoopGet(w) ==
    /\ pc[w] = "top"
    /\ pc' = [pc EXCEPT ![w] = IF len[w] < Capacity \div 2 THEN "drainRt" ELSE "pick"]
    /\ UNCHANGED <<requestVars, schedulerVars, markVars, curr, cur, hold, ret,
                   queueVars, taskVars>>

---------------------------------------------------------------------------
(* get_task, of the run loop and of the SIGALRM handler *)

\* try_lock fails: the scheduler thread is in push, another worker is at the
\* queue, or the handler interrupted this thread with the lock held.
RtLocked(w) ==
    \/ spc = "spawn" /\ verdict = "SCHEDULABLE" /\ Home(job) = w
    \/ pc[w] = "hDrainRt" /\ ret[w] = "drainRt"
GlobalLocked(w) ==
    \/ spc = "spawn" /\ verdict = "NOTREALTIME"
    \/ \E v \in Workers \ {w} : pc[v] \in {"drainNrt", "hDrainNrt"}
    \/ pc[w] = "hDrainNrt" /\ ret[w] = "drainNrt"

FetchRealtime(w) ==
    /\ pc[w] \in {"drainRt", "hDrainRt"}
    /\ \E c \in Earliest(rtq[w]) :
        /\ rtq' = [rtq EXCEPT ![w] = @ \ {c}]
        /\ rt' = [rt EXCEPT ![w] = @ \union {c}]
    /\ len' = [len EXCEPT ![w] = @ + 1]
    /\ UNCHANGED <<requestVars, gq, slot, board, dropped, urg, markVars,
                   loopVars, newq, suspq, taskVars>>

FetchRealtimeEnds(w) ==
    /\ pc[w] \in {"drainRt", "hDrainRt"}
    /\ rtq[w] = {} \/ RtLocked(w)
    /\ pc' = [pc EXCEPT ![w] = IF @ = "drainRt" THEN "drainNrt" ELSE "hDrainNrt"]
    /\ UNCHANGED <<requestVars, schedulerVars, markVars, curr, cur, hold, ret,
                   queueVars, taskVars>>

\* Mutant of FetchGlobal: the front of the queue is read, not removed.
FetchGlobalPeeks(w) ==
    /\ pc[w] \in {"drainNrt", "hDrainNrt"}
    /\ len[w] < Capacity /\ gq # <<>>
    /\ newq' = [newq EXCEPT ![w] = Append(@, Head(gq))]
    /\ len' = [len EXCEPT ![w] = @ + 1]
    /\ UNCHANGED <<requestVars, gq, rtq, slot, board, dropped, urg, markVars,
                   loopVars, suspq, rt, taskVars>>

FetchGlobal(w) ==
    /\ pc[w] \in {"drainNrt", "hDrainNrt"}
    /\ len[w] < Capacity /\ gq # <<>>
    /\ newq' = [newq EXCEPT ![w] = Append(@, Head(gq))]
    /\ gq' = Tail(gq)
    /\ len' = [len EXCEPT ![w] = @ + 1]
    /\ UNCHANGED <<requestVars, rtq, slot, board, dropped, urg, markVars,
                   loopVars, suspq, rt, taskVars>>

FetchGlobalEnds(w) ==
    /\ pc[w] \in {"drainNrt", "hDrainNrt"}
    /\ len[w] >= Capacity \/ gq = <<>> \/ GlobalLocked(w)
    /\ pc' = [pc EXCEPT ![w] = IF @ = "drainNrt" THEN "pick" ELSE "hPick"]
    /\ UNCHANGED <<requestVars, schedulerVars, markVars, curr, cur, hold, ret,
                   queueVars, taskVars>>

---------------------------------------------------------------------------
(* Choosing and running a coroutine *)

\* set_curr chooses the earliest real-time task, else a new one, else a
\* suspended one; curr keeps its value when there is none.  `tail` is what the
\* caller appends to suspend_queue afterwards.
ChooseRealtime(w, tail) ==
    /\ \E c \in Earliest(rt[w]) :
        /\ curr' = [curr EXCEPT ![w] = c]
        /\ rt' = [rt EXCEPT ![w] = @ \ {c}]
    /\ suspq' = [suspq EXCEPT ![w] = @ \o tail]
    /\ UNCHANGED newq

\* Mutant of ChooseNew: a new coroutine goes before real-time ones.
ChooseNewFirst(w, tail) ==
    /\ newq[w] # <<>>
    /\ curr' = [curr EXCEPT ![w] = Head(newq[w])]
    /\ newq' = [newq EXCEPT ![w] = Tail(@)]
    /\ suspq' = [suspq EXCEPT ![w] = @ \o tail]
    /\ UNCHANGED rt

ChooseNew(w, tail) ==
    /\ rt[w] = {} /\ newq[w] # <<>>
    /\ curr' = [curr EXCEPT ![w] = Head(newq[w])]
    /\ newq' = [newq EXCEPT ![w] = Tail(@)]
    /\ suspq' = [suspq EXCEPT ![w] = @ \o tail]
    /\ UNCHANGED rt

ChooseSuspended(w, tail) ==
    /\ rt[w] = {} /\ newq[w] = <<>> /\ suspq[w] # <<>>
    /\ curr' = [curr EXCEPT ![w] = Head(suspq[w])]
    /\ suspq' = [suspq EXCEPT ![w] = Tail(@) \o tail]
    /\ UNCHANGED <<rt, newq>>

ChooseNothing(w, tail) ==
    /\ rt[w] = {} /\ newq[w] = <<>> /\ suspq[w] = <<>>
    /\ suspq' = [suspq EXCEPT ![w] = tail]
    /\ UNCHANGED <<curr, rt, newq>>

SetCurr(w, tail) ==
    \/ ChooseRealtime(w, tail) \/ ChooseNew(w, tail)
    \/ ChooseSuspended(w, tail) \/ ChooseNothing(w, tail)

Pick(w) ==
    /\ pc[w] = "pick"
    /\ SetCurr(w, <<>>)
    /\ pc' = [pc EXCEPT ![w] = LoopHead(curr'[w])]
    /\ UNCHANGED <<requestVars, schedulerVars, markVars, cur, hold, ret, len,
                   taskVars>>

\* curr.take(), init of a new coroutine; a freed one is a dangling pointer.
Take(w) ==
    /\ pc[w] = "picked"
    /\ curr' = [curr EXCEPT ![w] = None]
    /\ hold' = [hold EXCEPT ![w] = curr[w]]
    /\ IF curr[w] \in completed
       THEN pc' = [pc EXCEPT ![w] = "corrupt"] /\ UNCHANGED st
       ELSE /\ pc' = [pc EXCEPT ![w] = "resume"]
            /\ st' = [st EXCEPT ![curr[w]] = IF @ = "PENDING" THEN "READY" ELSE @]
    /\ UNCHANGED <<requestVars, schedulerVars, markVars, cur, ret, queueVars,
                   at, latency>>

\* run_co, resume: the status and its copy on the board ...
Resume(w) ==
    /\ pc[w] = "resume"
    /\ st' = [st EXCEPT ![hold[w]] = "RUNNING"]
    /\ UpdateStatus(w, hold[w], "RUNNING")
    /\ pc' = [pc EXCEPT ![w] = "mark"]
    /\ UNCHANGED <<requestVars, gq, rtq, slot, dropped, urg, markVars, curr,
                   cur, hold, ret, queueVars, at, latency>>

\* ... curr_running_id ...
Mark(w) ==
    /\ pc[w] = "mark"
    /\ runningId' = [runningId EXCEPT ![w] = hold[w]]
    /\ pc' = [pc EXCEPT ![w] = "enter"]
    /\ UNCHANGED <<requestVars, schedulerVars, completed, curr, cur, hold, ret,
                   queueVars, taskVars>>

\* ... Scope::enter ...
Enter(w) ==
    /\ pc[w] = "enter"
    /\ cur' = [cur EXCEPT ![w] = hold[w]]
    /\ pc' = [pc EXCEPT ![w] = "entered"]
    /\ UNCHANGED <<requestVars, schedulerVars, markVars, curr, hold, ret,
                   queueVars, taskVars>>

\* ... and the switch to where the coroutine left off.
Swap(w) ==
    /\ pc[w] = "entered"
    /\ pc' = [pc EXCEPT ![w] = at[hold[w]]]
    /\ UNCHANGED <<requestVars, schedulerVars, markVars, curr, cur, hold, ret,
                   queueVars, taskVars>>

\* Coroutine::main: the guest function returns or unwinds ...
Finish(w) ==
    /\ pc[w] = "body"
    /\ st' = [st EXCEPT ![hold[w]] = "COMPLETED"]
    /\ pc' = [pc EXCEPT ![w] = "exiting"]
    /\ UNCHANGED <<requestVars, schedulerVars, markVars, curr, cur, hold, ret,
                   queueVars, at, latency>>

\* ... enters its latency in the statistics, under a mutex ...
LockStats(w) ==
    /\ pc[w] = "exiting" /\ latency = None
    /\ latency' = hold[w]
    /\ pc' = [pc EXCEPT ![w] = "stats"]
    /\ UNCHANGED <<requestVars, schedulerVars, markVars, curr, cur, hold, ret,
                   queueVars, st, at>>

\* Mutant of Restore: the guard of the mutex is never dropped.
RestoreLocked(w) ==
    /\ pc[w] = "stats"
    /\ pc' = [pc EXCEPT ![w] = "returned"]
    /\ UNCHANGED <<requestVars, schedulerVars, markVars, curr, cur, hold, ret,
                   queueVars, taskVars>>

\* ... and switches back to the run loop.
Restore(w) ==
    /\ pc[w] = "stats"
    /\ latency' = None
    /\ pc' = [pc EXCEPT ![w] = "returned"]
    /\ UNCHANGED <<requestVars, schedulerVars, markVars, curr, cur, hold, ret,
                   queueVars, st, at>>

\* The end of resume: the Scope is dropped, the status tells what happened.
Leave(w) ==
    /\ pc[w] = "returned"
    /\ cur' = [cur EXCEPT ![w] = None]
    /\ IF st[hold[w]] = "COMPLETED"
       THEN pc' = [pc EXCEPT ![w] = "cleanup"] /\ UNCHANGED hold
       ELSE /\ pc' = [pc EXCEPT ![w] = LoopHead(curr[w])]
            /\ hold' = [hold EXCEPT ![w] = None]
    /\ UNCHANGED <<requestVars, schedulerVars, markVars, curr, ret, queueVars,
                   taskVars>>

\* Mutant of Cleanup: it frees current(), which Leave has reset.
CleanupCurrent(w) ==
    /\ pc[w] = "cleanup"
    /\ len' = [len EXCEPT ![w] = @ - 1]
    /\ completed' = completed \union {cur[w]}
    /\ UpdateStatus(w, hold[w], "ABSENT")
    /\ hold' = [hold EXCEPT ![w] = None]
    /\ pc' = [pc EXCEPT ![w] = LoopHead(curr[w])]
    /\ UNCHANGED <<requestVars, gq, rtq, slot, dropped, urg, runningId, curr,
                   cur, ret, newq, suspq, rt, taskVars>>

\* The end of run_co: update_completed_status and drop_coroutine.
Cleanup(w) ==
    /\ pc[w] = "cleanup"
    /\ len' = [len EXCEPT ![w] = @ - 1]
    /\ completed' = completed \union {hold[w]}
    /\ UpdateStatus(w, hold[w], "ABSENT")
    /\ hold' = [hold EXCEPT ![w] = None]
    /\ pc' = [pc EXCEPT ![w] = LoopHead(curr[w])]
    /\ UNCHANGED <<requestVars, gq, rtq, slot, dropped, urg, runningId, curr,
                   cur, ret, newq, suspq, rt, taskVars>>

---------------------------------------------------------------------------
(* Signals *)

\* Mutant of SwitchOut: the board keeps the coroutine as running.
SwitchOutUnrecorded(w, p) ==
    /\ st' = [st EXCEPT ![cur[w]] = IF @ = "COMPLETED" THEN @ ELSE "SUSPENDED"]
    /\ UNCHANGED board
    /\ IF p \in TaskPoints
       THEN /\ at' = [at EXCEPT ![cur[w]] = p]
            /\ pc' = [pc EXCEPT ![w] = "returned"]
       ELSE pc' = [pc EXCEPT ![w] = "corrupt"] /\ UNCHANGED at

\* Mutant of SwitchOut: a coroutine that has returned is suspended all the same.
SwitchOutRevives(w, p) ==
    /\ st' = [st EXCEPT ![cur[w]] = "SUSPENDED"]
    /\ UpdateStatus(w, cur[w], st'[cur[w]])
    /\ IF p \in TaskPoints
       THEN /\ at' = [at EXCEPT ![cur[w]] = p]
            /\ pc' = [pc EXCEPT ![w] = "returned"]
       ELSE pc' = [pc EXCEPT ![w] = "corrupt"] /\ UNCHANGED at

\* Coroutine::suspend at the interrupted point p: status, board, context.
SwitchOut(w, p) ==
    /\ st' = [st EXCEPT ![cur[w]] = IF @ = "COMPLETED" THEN @ ELSE "SUSPENDED"]
    /\ UpdateStatus(w, cur[w], st'[cur[w]])
    /\ IF p \in TaskPoints
       THEN /\ at' = [at EXCEPT ![cur[w]] = p]
            /\ pc' = [pc EXCEPT ![w] = "returned"]
       ELSE pc' = [pc EXCEPT ![w] = "corrupt"] /\ UNCHANGED at

\* Where the run loop goes on when a handler returns to it.
BackTo(p, c) == IF p = "top" THEN LoopHead(c) ELSE p

\* SIGURG, preemptive finds no coroutine in the slot
UrgIgnored(w) ==
    /\ urg[w] /\ pc[w] \in SignalPoints
    /\ slot[w] = None
    /\ urg' = [urg EXCEPT ![w] = FALSE]
    /\ UNCHANGED <<requestVars, gq, rtq, slot, board, dropped, markVars,
                   loopVars, queueVars, taskVars>>

\* Mutants of TakeSlot: the coroutine stays in the slot; it is not counted.
TakeSlotCopied(w) ==
    /\ slot[w] # None
    /\ curr' = [curr EXCEPT ![w] = slot[w]]
    /\ len' = [len EXCEPT ![w] = @ + 1]
    /\ urg' = [urg EXCEPT ![w] = FALSE]
    /\ UNCHANGED slot

TakeSlotUncounted(w) ==
    /\ slot[w] # None
    /\ curr' = [curr EXCEPT ![w] = slot[w]]
    /\ slot' = [slot EXCEPT ![w] = None]
    /\ urg' = [urg EXCEPT ![w] = FALSE]
    /\ UNCHANGED len

\* preemptive: the coroutine of the slot becomes curr, whatever curr was.
TakeSlot(w) ==
    /\ slot[w] # None
    /\ curr' = [curr EXCEPT ![w] = slot[w]]
    /\ slot' = [slot EXCEPT ![w] = None]
    /\ len' = [len EXCEPT ![w] = @ + 1]
    /\ urg' = [urg EXCEPT ![w] = FALSE]

\* SIGURG outside a coroutine: suspend does nothing.
UrgInLoop(w) ==
    /\ urg[w] /\ pc[w] \in SignalPoints
    /\ cur[w] = None
    /\ TakeSlot(w)
    /\ pc' = [pc EXCEPT ![w] = BackTo(@, slot[w])]
    /\ UNCHANGED <<requestVars, gq, rtq, board, dropped, markVars, cur, hold,
                   ret, newq, suspq, rt, taskVars>>

\* Mutant of UrgPreempts: a preempted real-time coroutine is not queued.
UrgPreemptsLossy(w) ==
    /\ urg[w] /\ pc[w] \in SignalPoints
    /\ cur[w] # None
    /\ TakeSlot(w)
    /\ IF IsRealtime(cur[w])
       THEN UNCHANGED <<rt, suspq>>
       ELSE suspq' = [suspq EXCEPT ![w] = Append(@, cur[w])] /\ UNCHANGED rt
    /\ SwitchOut(w, pc[w])
    /\ UNCHANGED <<requestVars, gq, rtq, dropped, markVars, cur, hold, ret,
                   newq, latency>>

\* SIGURG in a coroutine: it goes to the queue of its kind and is switched out.
UrgPreempts(w) ==
    /\ urg[w] /\ pc[w] \in SignalPoints
    /\ cur[w] # None
    /\ TakeSlot(w)
    /\ IF IsRealtime(cur[w])
       THEN rt' = [rt EXCEPT ![w] = @ \union {cur[w]}] /\ UNCHANGED suspq
       ELSE suspq' = [suspq EXCEPT ![w] = Append(@, cur[w])] /\ UNCHANGED rt
    /\ SwitchOut(w, pc[w])
    /\ UNCHANGED <<requestVars, gq, rtq, dropped, markVars, cur, hold, ret,
                   newq, latency>>

\* Mutant of Alrm: the handler fetches under the condition of the run loop.
AlrmUnlessHalfFull(w) ==
    /\ TimerOn /\ pc[w] \in SignalPoints
    /\ ~IsRealtime(cur[w])
    /\ ret' = [ret EXCEPT ![w] = pc[w]]
    /\ pc' = [pc EXCEPT ![w] = IF len[w] < Capacity \div 2 THEN "hDrainRt" ELSE "hPick"]
    /\ UNCHANGED <<requestVars, schedulerVars, markVars, curr, cur, hold,
                   queueVars, taskVars>>

\* SIGALRM: a real-time coroutine is left alone, otherwise fetch and choose.
Alrm(w) ==
    /\ TimerOn /\ pc[w] \in SignalPoints
    /\ ~IsRealtime(cur[w])
    /\ ret' = [ret EXCEPT ![w] = pc[w]]
    /\ pc' = [pc EXCEPT ![w] = "hDrainRt"]
    /\ UNCHANGED <<requestVars, schedulerVars, markVars, curr, cur, hold,
                   queueVars, taskVars>>

\* Mutant of AlrmReturns: the coroutine goes on unless there is a new one.
AlrmReturnsUnlessNew(w) ==
    /\ pc[w] = "hPick" /\ (len[w] <= 1 \/ newq[w] = <<>>)
    /\ pc' = [pc EXCEPT ![w] = ret[w]]
    /\ ret' = [ret EXCEPT ![w] = "top"]
    /\ UNCHANGED <<requestVars, schedulerVars, markVars, curr, cur, hold,
                   queueVars, taskVars>>

\* No second coroutine: the handler returns.
AlrmReturns(w) ==
    /\ pc[w] = "hPick" /\ len[w] <= 1
    /\ pc' = [pc EXCEPT ![w] = ret[w]]
    /\ ret' = [ret EXCEPT ![w] = "top"]
    /\ UNCHANGED <<requestVars, schedulerVars, markVars, curr, cur, hold,
                   queueVars, taskVars>>

\* len > 1 outside a coroutine: set_curr only.
AlrmInLoop(w) ==
    /\ pc[w] = "hPick" /\ len[w] > 1 /\ cur[w] = None
    /\ SetCurr(w, <<>>)
    /\ pc' = [pc EXCEPT ![w] = BackTo(ret[w], curr'[w])]
    /\ ret' = [ret EXCEPT ![w] = "top"]
    /\ UNCHANGED <<requestVars, schedulerVars, markVars, cur, hold, len, taskVars>>

\* Mutant of AlrmSwitches: the coroutine is suspended, but in no queue.
AlrmSwitchesUnqueued(w) ==
    /\ pc[w] = "hPick" /\ len[w] > 1 /\ cur[w] # None
    /\ SetCurr(w, <<>>)
    /\ SwitchOut(w, ret[w])
    /\ ret' = [ret EXCEPT ![w] = "top"]
    /\ UNCHANGED <<requestVars, gq, rtq, slot, dropped, urg, markVars, cur,
                   hold, len, latency>>

\* len > 1 in a coroutine: choose the next, then suspend this one.
AlrmSwitches(w) ==
    /\ pc[w] = "hPick" /\ len[w] > 1 /\ cur[w] # None
    /\ SetCurr(w, <<cur[w]>>)
    /\ SwitchOut(w, ret[w])
    /\ ret' = [ret EXCEPT ![w] = "top"]
    /\ UNCHANGED <<requestVars, gq, rtq, slot, dropped, urg, markVars, cur,
                   hold, len, latency>>

---------------------------------------------------------------------------
\* The steps of the thread itself, guest code aside.
RunLoop(w) ==
    \/ Boot(w) \/ LoopGet(w)
    \/ FetchRealtime(w) \/ FetchRealtimeEnds(w)
    \/ FetchGlobal(w) \/ FetchGlobalEnds(w)
    \/ Pick(w) \/ Take(w) \/ Resume(w) \/ Mark(w) \/ Enter(w) \/ Swap(w)
    \/ LockStats(w) \/ Restore(w) \/ Leave(w) \/ Cleanup(w)
    \/ AlrmReturns(w) \/ AlrmInLoop(w) \/ AlrmSwitches(w)

Urg(w) == UrgIgnored(w) \/ UrgInLoop(w) \/ UrgPreempts(w)

WorkerStep(w) == RunLoop(w) \/ Finish(w) \/ Urg(w) \/ Alrm(w)
=============================================================================
