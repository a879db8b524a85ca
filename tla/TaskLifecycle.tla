---------------------------- MODULE TaskLifecycle ----------------------------
(***************************************************************************)
(* What the scheduling core promises of tasks, whatever the queues,        *)
(* signals and verdicts do: a task runs on one thread at a time, to its    *)
(* end at most once, is freed once, off every thread, and is only ever let *)
(* go of before it has begun.  HyperSched implements it.                   *)
(***************************************************************************)
CONSTANTS Ids, Workers, None

VARIABLES
    created,    \* tasks whose coroutine was made
    begun,      \* ... that have had the CPU
    returned,   \* ... whose guest function has returned
    freed,      \* ... whose coroutine is freed
    lost,       \* ... let go of
    on          \* the task each worker thread executes

vars == <<created, begun, returned, freed, lost, on>>

Init ==
    /\ created = {} /\ begun = {} /\ returned = {} /\ freed = {} /\ lost = {}
    /\ on = [w \in Workers |-> None]

Running == {on[w] : w \in Workers}

Submit(c) ==
    /\ c \notin created
    /\ created' = created \union {c}
    /\ UNCHANGED <<begun, returned, freed, lost, on>>

\* A task starts, or goes on, on any thread that is free.
Start(w, c) ==
    /\ on[w] = None
    /\ c \in created \ (returned \union lost \union Running)
    /\ on' = [on EXCEPT ![w] = c]
    /\ begun' = begun \union {c}
    /\ UNCHANGED <<created, returned, freed, lost>>

\* It leaves the thread: preempted, or after its return.
Stop(w) ==
    /\ on[w] # None
    /\ on' = [on EXCEPT ![w] = None]
    /\ UNCHANGED <<created, begun, returned, freed, lost>>

Return(w) ==
    /\ on[w] \notin returned \union {None}
    /\ returned' = returned \union {on[w]}
    /\ UNCHANGED <<created, begun, freed, lost, on>>

Free(c) ==
    /\ c \in returned \ (freed \union Running)
    /\ freed' = freed \union {c}
    /\ UNCHANGED <<created, begun, returned, lost, on>>

Lose(c) ==
    /\ c \in created \ (begun \union lost)
    /\ lost' = lost \union {c}
    /\ UNCHANGED <<created, begun, returned, freed, on>>

Next ==
    \/ \E c \in Ids : Submit(c) \/ Free(c) \/ Lose(c)
    \/ \E w \in Workers : Stop(w) \/ Return(w) \/ \E c \in Ids : Start(w, c)

Spec == Init /\ [][Next]_vars
=============================================================================
