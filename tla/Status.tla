---------------------------- MODULE Status ----------------------------
(***************************************************************************)
(* Asking what a task is doing while it moves from its worker's board to   *)
(* the cache of completed ones (scheduler/mod.rs, behind /status and       *)
(* /uname).  A worker writes co_status under a write lock, and a task that *)
(* ends is pushed into completed_status under one lock and deleted from    *)
(* the board under another.  The HTTP thread reads board after board, and  *)
(* the cache last.                                                         *)
(*                                                                         *)
(* Statuses are reduced to being there or not.  One query is answered at a *)
(* time: the handlers of both routes run on one thread and never await.    *)
(***************************************************************************)
EXTENDS Naturals, FiniteSets, Sequences, SequencesExt, Functions

CONSTANTS
    Tasks,         \* ids of coroutines
    NumWorkers,    \* worker_threads
    Home,          \* Home[c]: the worker that runs task c
    Deadlined,     \* the tasks with a deadline, put on the board by the scheduler thread too
    CompletedCap,  \* capacity of completed_status, 100000 in the code
    NoTask         \* no task

Workers == 0 .. NumWorkers - 1

ASSUME StatusAssumption ==
    /\ NumWorkers \in Nat \ {0}
    /\ CompletedCap \in Nat \ {0}
    /\ Home \in [Tasks -> Workers]
    /\ Deadlined \subseteq Tasks
    /\ NoTask \notin Tasks

Scheduler == NumWorkers   \* the scheduler thread, as a writer of boards
Writers == Workers \union {Scheduler}

VARIABLES
    board,      \* co_status: board[w] are the ids with an entry
    completed,  \* completed_status, the most recently used first
    doing,      \* doing[t]: the write a thread is about and, in "update", "push", "delete", has the lock of
    noted,      \* tasks the scheduler thread has put on the board
    ended,      \* tasks their worker has done with, the deletion included
    query,      \* the query being answered, or answered last
    since       \* history: who has come into the cache, or been looked up there, since a task was

vars == <<board, completed, doing, noted, ended, query, since>>

Idle == [op |-> "none", task |-> NoTask]
Running(c) == \E w \in Workers : c \in board[w]
Cached == Range(completed)

\* Its worker has pushed the task into the cache and not yet deleted it from the board.
Leaving(c) == \E w \in Workers : doing[w].op \in {"pushed", "delete"} /\ doing[w].task = c

\* A query: "byId" of get_status_by_id, "status" of get_status and get_completed_status.  The rest
\* is what it has found (seen on boards, listed from the cache), whether a try_lock failed (busy),
\* and as history what there was to find at its beginning (before), what of that has been evicted
\* since (gone) and what has been on its board all the time (stayed).  A task the cache has dropped
\* again before its worker deletes it from the board does not count.
Asked(k, c) ==
    [kind |-> k, id |-> c, left |-> Workers, seen |-> {}, listed |-> {}, busy |-> FALSE, over |-> FALSE,
     before |-> {d \in Tasks : d \in Cached \/ (Running(d) /\ ~Leaving(d))}, gone |-> {},
     stayed |-> {d \in Tasks : Running(d)}]

Init ==
    /\ board = [w \in Workers |-> {}]
    /\ completed = <<>>
    /\ doing = [t \in Writers |-> Idle]
    /\ noted = {} /\ ended = {}
    /\ query = [Asked("byId", NoTask) EXCEPT !.over = TRUE]
    /\ since = [c \in Tasks |-> {}]

------------------------------------------------------------------------
(* Locks.  A try_read or try_lock fails while a writer is in its critical  *)
(* section; readers are done within their step.                            *)

BoardHeld(w) == \E t \in Writers : doing[t].op \in {"update", "delete"} /\ Home[doing[t].task] = w
CompletedHeld == \E t \in Writers : doing[t].op = "push"

------------------------------------------------------------------------
(* Writers.                                                                *)

\* resume and suspend call update_status: the worker takes the write lock of its board ...
UpdateLocks(w, c) ==
    /\ doing[w] = Idle /\ Home[c] = w /\ c \notin ended
    /\ ~BoardHeld(w)
    /\ doing' = [doing EXCEPT ![w] = [op |-> "update", task |-> c]]
    /\ UNCHANGED <<board, completed, noted, ended, query, since>>

\* ... and so does the scheduler thread, after it has handed a real-time coroutine over: before or
\* after the worker has run it.
NoteLocks(c) ==
    /\ doing[Scheduler] = Idle /\ c \in Deadlined \ noted
    /\ ~BoardHeld(Home[c])
    /\ doing' = [doing EXCEPT ![Scheduler] = [op |-> "update", task |-> c]]
    /\ noted' = noted \union {c}
    /\ UNCHANGED <<board, completed, ended, query, since>>

UpdateStatus(t) ==
    /\ doing[t].op = "update"
    /\ board' = [board EXCEPT ![Home[doing[t].task]] = @ \union {doing[t].task}]
    /\ doing' = [doing EXCEPT ![t] = Idle]
    /\ UNCHANGED <<completed, noted, ended, query, since>>

\* Mutant of CompleteLocks: the entry is deleted from the board before the cache is locked.
CompleteLocksLate(w, c) ==
    \/ /\ doing[w] = Idle /\ c \in board[w] \ ended
       /\ ~BoardHeld(w)
       /\ board' = [board EXCEPT ![w] = @ \ {c}]
       /\ query' = [query EXCEPT !.stayed = @ \ {c}]
       /\ doing' = [doing EXCEPT ![w] = [op |-> "deleted", task |-> c]]
       /\ UNCHANGED <<completed, noted, ended, since>>
    \/ /\ doing[w] = [op |-> "deleted", task |-> c]
       /\ ~CompletedHeld
       /\ doing' = [doing EXCEPT ![w].op = "push"]
       /\ UNCHANGED <<board, completed, noted, ended, query, since>>

\* update_completed_status: push into the cache, unlock, lock the board, delete.  Only a task that
\* has been resumed, and so put on the board, comes to its end.
CompleteLocks(w, c) ==
    /\ doing[w] = Idle /\ c \in board[w] \ ended
    /\ ~CompletedHeld
    /\ doing' = [doing EXCEPT ![w] = [op |-> "push", task |-> c]]
    /\ UNCHANGED <<board, completed, noted, ended, query, since>>

\* LruCache::push puts the entry in front and drops the last one of a full cache.
UsedTwice(s, c) == <<c>> \o s   \* Mutant of Used: an entry that is there already stays where it is.
Used(s, c) == <<c>> \o RemoveFirst(s, c)
Put(c) == SubSeq(Used(completed, c), 1, IF Len(Used(completed, c)) > CompletedCap THEN CompletedCap
                                                                                 ELSE Len(Used(completed, c)))
Touch(c) == [d \in Tasks |-> CASE d = c -> {}
                               [] d /= c /\ d \in Cached -> since[d] \union {c}
                               [] OTHER -> since[d]]

Push(w) ==
    LET c == doing[w].task IN
    /\ doing[w].op = "push"
    /\ completed' = Put(c)
    /\ query' = [query EXCEPT !.gone = @ \union (Cached \ Range(Put(c)))]
    /\ since' = Touch(c)
    /\ doing' = [doing EXCEPT ![w].op = "pushed"]
    /\ UNCHANGED <<board, noted, ended>>

DeleteLocks(w) ==
    /\ doing[w].op = "pushed" /\ ~BoardHeld(w)
    /\ doing' = [doing EXCEPT ![w].op = "delete"]
    /\ UNCHANGED <<board, completed, noted, ended, query, since>>

DeleteStatus(w) ==
    LET c == doing[w].task IN
    /\ doing[w].op = "delete"
    /\ board' = [board EXCEPT ![w] = @ \ {c}]
    /\ ended' = ended \union {c}
    /\ query' = [query EXCEPT !.stayed = @ \ {c}]
    /\ doing' = [doing EXCEPT ![w] = Idle]
    /\ UNCHANGED <<completed, noted, since>>

------------------------------------------------------------------------
(* Readers.                                                                *)

\* /uname and Runtime::get_status_by_id, or /status.
AskById(c) == query.over /\ query' = Asked("byId", c)
AskStatus == query.over /\ query' = Asked("status", NoTask)
Ask ==
    /\ (\E c \in Tasks : AskById(c)) \/ AskStatus
    /\ UNCHANGED <<board, completed, doing, noted, ended, since>>

\* get_status_by_id passes over the boards in the order of a HashMap, and over one it cannot lock.
LookAtBoard(w) ==
    LET found == ~BoardHeld(w) /\ query.id \in board[w] IN
    /\ ~query.over /\ query.kind = "byId" /\ w \in query.left
    /\ query' = [query EXCEPT !.left = @ \ {w},
                              !.seen = IF found THEN {query.id} ELSE {},
                              !.over = found,
                              !.busy = @ \/ BoardHeld(w)]
    /\ UNCHANGED <<board, completed, doing, noted, ended, since>>

\* Mutant of LookInCache: the entry is looked at and keeps its place (LruCache::peek).
LookInCachePeeks ==
    LET found == ~CompletedHeld /\ query.id \in Cached IN
    /\ ~query.over /\ query.kind = "byId" /\ query.left = {}
    /\ query' = [query EXCEPT !.listed = IF found THEN {query.id} ELSE {},
                              !.over = TRUE, !.busy = @ \/ CompletedHeld]
    /\ completed' = completed
    /\ since' = IF found THEN Touch(query.id) ELSE since
    /\ UNCHANGED <<board, doing, noted, ended>>

\* Then it tries the cache; LruCache::get makes the entry the most recently used one.
LookInCache ==
    LET found == ~CompletedHeld /\ query.id \in Cached IN
    /\ ~query.over /\ query.kind = "byId" /\ query.left = {}
    /\ query' = [query EXCEPT !.listed = IF found THEN {query.id} ELSE {},
                              !.over = TRUE, !.busy = @ \/ CompletedHeld]
    /\ completed' = IF found THEN Used(completed, query.id) ELSE completed
    /\ since' = IF found THEN Touch(query.id) ELSE since
    /\ UNCHANGED <<board, doing, noted, ended>>

\* Runtime::get_status waits for one board after the other, in the order of the workers.
NextBoard(w) == w \in query.left /\ \A v \in query.left : w <= v

CopyBoard(w) ==
    /\ ~query.over /\ query.kind = "status" /\ NextBoard(w)
    /\ ~BoardHeld(w)
    /\ query' = [query EXCEPT !.left = @ \ {w}, !.seen = @ \union board[w]]
    /\ UNCHANGED <<board, completed, doing, noted, ended, since>>

\* The handler of /status: if no board had an entry, it lists the cache, or nothing if that is
\* locked.  Iterating does not count as using.
Report ==
    /\ ~query.over /\ query.kind = "status"
    /\ \A w \in Workers : ~NextBoard(w)
    /\ query' = [query EXCEPT !.over = TRUE,
                              !.listed = IF query.seen = {} /\ ~CompletedHeld THEN Cached ELSE {},
                              !.busy = query.seen = {} /\ CompletedHeld]
    /\ UNCHANGED <<board, completed, doing, noted, ended, since>>

------------------------------------------------------------------------
Next ==
    \/ \E w \in Workers : \/ \E c \in Tasks : UpdateLocks(w, c) \/ CompleteLocks(w, c)
                          \/ Push(w) \/ DeleteLocks(w) \/ DeleteStatus(w)
                          \/ LookAtBoard(w) \/ CopyBoard(w)
    \/ \E c \in Tasks : NoteLocks(c)
    \/ \E t \in Writers : UpdateStatus(t)
    \/ Ask \/ LookInCache \/ Report

Spec == Init /\ [][Next]_vars

------------------------------------------------------------------------
(* Properties.                                                             *)

\* Every variable has its type; no task is twice in the cache, which keeps to its capacity.
StatusTypeOK ==
    /\ board \in [Workers -> SUBSET Tasks]
    /\ completed \in Seq(Tasks) /\ IsInjective(completed) /\ Len(completed) <= CompletedCap
    /\ \A t \in Writers : /\ doing[t].op \in {"none", "update", "push", "pushed", "delete"}
                          /\ doing[t].task \in Tasks \union {NoTask}
    /\ noted \subseteq Deadlined /\ ended \subseteq Tasks
    /\ query.left \subseteq Workers /\ query.over \in BOOLEAN /\ query.busy \in BOOLEAN
    /\ \A S \in {query.seen, query.listed, query.before, query.gone, query.stayed} : S \subseteq Tasks
    /\ since \in [Tasks -> SUBSET Tasks]

\* get_status_by_id finds a task that had been put on its board when the query began, although the
\* task may move to the cache between its looks at the boards, at the boards' and at the cache: if
\* no lock was busy and the cache has not dropped the task meanwhile.  It rests on push before delete.
KnownFound ==
    (query.over /\ query.kind = "byId" /\ ~query.busy /\ query.id \in query.before \ query.gone)
        => query.id \in query.seen \union query.listed

\* When /status says that no task runs, whatever ran or had completed when the query began is among
\* the completed tasks it lists: a task that ends during the query does not escape both lists.
NothingVanishes ==
    (query.over /\ query.kind = "status" /\ query.seen = {} /\ ~query.busy)
        => query.before \ query.gone \subseteq query.listed

\* A task that is on its board for the whole of a /status query is reported.
StayersListed == (query.over /\ query.kind = "status") => query.stayed \subseteq query.seen

\* A completed task stays in the cache until as many other tasks as it holds have completed or have
\* been looked up there since its completion or its last successful look-up by id.
RecentKept ==
    \A c \in ended : c \in Cached \/ Cardinality(since[c]) >= CompletedCap
=============================================================================
