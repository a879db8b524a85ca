--------------------------- MODULE GlobalScheduler ---------------------------
(***************************************************************************)
(* The global scheduler thread (spawn_scheduler, src/axum/server.rs) from  *)
(* the admission of a request to the hand-over of its coroutine:           *)
(* admission_control_result, is_schedulable and micro_process              *)
(* (src/runtime.rs).  The remaining-time arithmetic that tells UNSCHEDULABLE*)
(* from the rest is left open: this module keeps which verdicts a board    *)
(* allows, and everything the thread does with a verdict.                  *)
(***************************************************************************)
EXTENDS SchedState

\* call_func, admission_control_result: a request without a deadline is
\* not real-time and skips admission; its coroutine gets an id when created.
RequestNrt ==
    /\ spc = "idle" /\ nextId <= MaxId
    /\ spc' = "instantiate" /\ verdict' = "NOTREALTIME"
    /\ UNCHANGED <<nextId, job, snap, ddl, schedulerVars, markVars, loopVars,
                   queueVars, taskVars>>

\* admission_control_result: a real-time request draws its id at once.
RequestRt(d) ==
    /\ spc = "idle" /\ nextId <= MaxId
    /\ job' = nextId /\ nextId' = nextId + 1
    /\ ddl' = [ddl EXCEPT ![nextId] = d]
    /\ spc' = "admit"
    /\ UNCHANGED <<verdict, snap, schedulerVars, markVars, loopVars, queueVars,
                   taskVars>>

\* is_schedulable, get_status: copy the board of the worker the id selects.
Snapshot ==
    /\ spc = "admit"
    /\ snap' = board[Home(job)]
    /\ spc' = "judge"
    /\ UNCHANGED <<nextId, job, verdict, ddl, schedulerVars, markVars, loopVars,
                   queueVars, taskVars>>

\* The task the verdict is relative to: curr_running_id, if the copy has a
\* start time for it.  Only a RUNNING entry has one.
Running == runningId[Home(job)]
StartKnown == Running # None /\ snap[Running] = "RUNNING"

\* s1 == co_stat: no real-time task of the copy has an earlier deadline.
EarliestDeadline ==
    \A c \in Ids : snap[c] # "ABSENT" /\ IsRealtime(c) => ddl[job] <= ddl[c]

\* Mutant of Allowed: a worker nobody has heard of yet is sent a signal.
AllowedEagerly(v) ==
    \/ v = "PREEMPTIVE" /\ snap = EmptyBoard
    \/ v = "PREEMPTIVE" /\ StartKnown /\ ~IsRealtime(Running)
    \/ v = "SCHEDULABLE" /\ StartKnown /\ IsRealtime(Running)

\* The verdicts is_schedulable can return on this copy.  Over a running
\* real-time task the time arithmetic decides between them, and between a
\* verdict and a rejection.
Allowed(v) ==
    \/ v = "SCHEDULABLE" /\ snap = EmptyBoard
    \/ v = "PREEMPTIVE" /\ StartKnown /\ ~IsRealtime(Running)
    \/ v = "SCHEDULABLE" /\ StartKnown /\ IsRealtime(Running)
    \/ v = "PREEMPTIVE" /\ StartKnown /\ IsRealtime(Running) /\ EarliestDeadline

Admit(v) ==
    /\ spc = "judge" /\ Allowed(v)
    /\ verdict' = v /\ spc' = "instantiate" /\ snap' = EmptyBoard
    /\ UNCHANGED <<nextId, job, ddl, schedulerVars, markVars, loopVars,
                   queueVars, taskVars>>

\* The request is answered with an error: UNSCHEDULABLE.
Reject ==
    /\ spc = "judge" /\ StartKnown /\ IsRealtime(Running)
    /\ spc' = "idle" /\ job' = None /\ snap' = EmptyBoard
    /\ UNCHANGED <<nextId, verdict, ddl, schedulerVars, markVars, loopVars,
                   queueVars, taskVars>>

\* The `continue` of is_schedulable: no running task found, or without a start
\* time; take another copy.
Retry ==
    /\ spc = "judge" /\ snap # EmptyBoard /\ ~StartKnown
    /\ spc' = "admit" /\ snap' = EmptyBoard
    /\ UNCHANGED <<nextId, job, verdict, ddl, schedulerVars, markVars, loopVars,
                   queueVars, taskVars>>

\* instantiate: build the wasm instance (external), or fail and answer.
Instantiate ==
    /\ spc = "instantiate"
    /\ spc' = "spawn"
    /\ UNCHANGED <<nextId, job, verdict, snap, ddl, schedulerVars, markVars,
                   loopVars, queueVars, taskVars>>

InstantiateFails ==
    /\ spc = "instantiate"
    /\ spc' = "idle" /\ job' = None /\ verdict' = "none"
    /\ UNCHANGED <<nextId, snap, ddl, schedulerVars, markVars, loopVars,
                   queueVars, taskVars>>

Done == spc' = "idle" /\ job' = None /\ verdict' = "none"

\* micro_process, NOTREALTIME: a new coroutine on the global queue.
SpawnNrt ==
    /\ spc = "spawn" /\ verdict = "NOTREALTIME"
    /\ st' = [st EXCEPT ![nextId] = "PENDING"]
    /\ gq' = Append(gq, nextId)
    /\ nextId' = nextId + 1
    /\ Done
    /\ UNCHANGED <<snap, ddl, rtq, slot, board, dropped, urg, markVars,
                   loopVars, queueVars, at, latency>>

\* micro_process, SCHEDULABLE: first the worker's real-time queue ...
SpawnSchedulable ==
    /\ spc = "spawn" /\ verdict = "SCHEDULABLE"
    /\ st' = [st EXCEPT ![job] = "PENDING"]
    /\ rtq' = [rtq EXCEPT ![Home(job)] = @ \union {job}]
    /\ spc' = "note"
    /\ UNCHANGED <<nextId, job, verdict, snap, ddl, gq, slot, board, dropped,
                   urg, markVars, loopVars, queueVars, at, latency>>

\* ... then the board.
NoteSchedulable ==
    /\ spc = "note"
    /\ UpdateStatus(Home(job), job, "PENDING")
    /\ Done
    /\ UNCHANGED <<nextId, snap, ddl, gq, rtq, slot, dropped, urg, markVars,
                   loopVars, queueVars, taskVars>>

\* micro_process, PREEMPTIVE: first the board ...
SpawnPreemptive ==
    /\ spc = "spawn" /\ verdict = "PREEMPTIVE"
    /\ st' = [st EXCEPT ![job] = "PENDING"]
    /\ UpdateStatus(Home(job), job, "PENDING")
    /\ spc' = "slot"
    /\ UNCHANGED <<nextId, job, verdict, snap, ddl, gq, rtq, slot, dropped,
                   urg, markVars, loopVars, queueVars, at, latency>>

\* Mutant of SetSlot: the coroutine in the slot is replaced, and lost.
SetSlotOverwrites ==
    /\ spc = "slot"
    /\ slot' = [slot EXCEPT ![Home(job)] = job]
    /\ spc' = "signal"
    /\ UNCHANGED <<nextId, job, verdict, snap, ddl, gq, rtq, board, dropped,
                   urg, markVars, loopVars, queueVars, taskVars>>

\* ... then set_slots: an occupied slot keeps its coroutine, the new one is
\* dropped with the Box ...
SetSlot ==
    /\ spc = "slot"
    /\ IF slot[Home(job)] = None
       THEN slot' = [slot EXCEPT ![Home(job)] = job] /\ UNCHANGED dropped
       ELSE dropped' = dropped \union {job} /\ UNCHANGED slot
    /\ spc' = "signal"
    /\ UNCHANGED <<nextId, job, verdict, snap, ddl, gq, rtq, board, urg,
                   markVars, loopVars, queueVars, taskVars>>

\* Mutant of Signal: a worker outside a coroutine is left to find the slot.
SignalBusyOnly ==
    /\ spc = "signal"
    /\ urg' = [urg EXCEPT ![Home(job)] = @ \/ cur[Home(job)] # None]
    /\ Done
    /\ UNCHANGED <<nextId, snap, ddl, gq, rtq, slot, board, dropped, markVars,
                   loopVars, queueVars, taskVars>>

\* ... and the signal.  SIGURG is not queued: one already pending absorbs it.
Signal ==
    /\ spc = "signal"
    /\ urg' = [urg EXCEPT ![Home(job)] = TRUE]
    /\ Done
    /\ UNCHANGED <<nextId, snap, ddl, gq, rtq, slot, board, dropped, markVars,
                   loopVars, queueVars, taskVars>>

Decide == Reject \/ \E v \in Verdicts : Admit(v)

SchedulerStep ==
    \/ Snapshot \/ Decide \/ Retry
    \/ Instantiate \/ InstantiateFails
    \/ SpawnNrt \/ SpawnSchedulable \/ NoteSchedulable
    \/ SpawnPreemptive \/ SetSlot \/ Signal

Request == RequestNrt \/ \E d \in Deadlines : RequestRt(d)
=============================================================================
