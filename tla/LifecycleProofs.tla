--------------------------- MODULE LifecycleProofs ---------------------------
(***************************************************************************)
(* What the status board says of a running coroutine; a coroutine that has *)
(* completed is never resumed; and the scheduling core implements          *)
(* TaskLifecycle.  For every number of workers, tasks and deadlines and    *)
(* wherever signals strike.                                                *)
(***************************************************************************)
EXTENDS HyperSchedProofs

USE SchedAssumption

\* From the board entry made by resume to the one deleted by run_co.
RunPoints == {"mark", "enter", "entered", "returned", "cleanup", "corrupt"} \union TaskPoints
OnBoard(w) ==
    \A c \in Ids : board[w][c] = "RUNNING" => hold[w] = c /\ Point(w) \in RunPoints

\* current() is the coroutine run_co has resumed.
CurHeld(w) == Point(w) \in {"entered", "returned"} \union TaskPoints => cur[w] = hold[w]

\* A coroutine at work is not freed.
HeldAlive(w) ==
    Point(w) \in (RunPoints \ {"corrupt"}) \union {"resume"} => hold[w] \notin completed

\* On its way out of main a coroutine has completed.
ExitingDone(w) == Point(w) \in {"exiting", "stats"} => st[hold[w]] = "COMPLETED"

\* Back in run_co it has completed, or suspend has noted on the board that it
\* no longer runs.
Noted(w) ==
    Point(w) = "returned" => st[hold[w]] = "COMPLETED" \/ board[w][hold[w]] # "RUNNING"

RunsOK(w) == OnBoard(w) /\ CurHeld(w) /\ HeldAlive(w) /\ ExitingDone(w) /\ Noted(w)

\* A coroutine switched out away from guest code has completed.
DoneAway == \A c \in Ids : at[c] # "body" => st[c] = "COMPLETED"

\* A completed coroutine is freed, or still in the hands that free it.
EndPoints == {"exiting", "stats", "returned", "cleanup", "corrupt"}
DoneHeld ==
    \A c \in Ids : st[c] = "COMPLETED" =>
        c \in completed \/ \E w \in Workers : hold[w] = c /\ Point(w) \in EndPoints

RunInv == (\A w \in Workers : RunsOK(w)) /\ DoneAway /\ DoneHeld

Points == LoopPoints \union TaskPoints

---------------------------------------------------------------------------
(* One worker's step, seen from the others *)

LEMMA Apart ==
  ASSUME TypeInv, OwnInv, NEW v \in Workers, NEW w \in Workers \ {v}, hold[v] \in Ids
  PROVE  hold[v] \notin {hold[w], curr[w], cur[w]}
<1>1. Zone(hold[v], "own", v) /\ "own" \in Kinds
  BY DEF Zone, Owned, Kinds, None, Ids
<1>2. hold[v] \in {hold[w], curr[w], cur[w]} => Zone(hold[v], "own", w)
  BY DEF Zone, Owned, None, Ids
<1> QED
  BY <1>1, <1>2 DEF OwnInv, Exclusive

\* A worker touches the coroutine it holds, has chosen, or is in.
LEMMA Touched ==
  ASSUME TypeOK, NEW w \in Workers, WorkerStep(w), NEW c \in Ids,
         c \notin {hold[w], curr[w], cur[w]}
  PROVE  st'[c] = st[c] /\ at'[c] = at[c] /\ (c \in completed' <=> c \in completed)
<1> USE DEF TypeOK, taskVars, markVars
<1>1. CASE Boot(w) \/ LoopGet(w) \/ FetchRealtime(w) \/ FetchRealtimeEnds(w)
           \/ FetchGlobal(w) \/ FetchGlobalEnds(w) \/ Pick(w) \/ Mark(w) \/ Enter(w)
           \/ Swap(w) \/ LockStats(w) \/ Restore(w) \/ Leave(w)
  BY <1>1 DEF Boot, LoopGet, FetchRealtime, FetchRealtimeEnds, FetchGlobal,
     FetchGlobalEnds, Pick, Mark, Enter, Swap, LockStats, Restore, Leave
<1>2. CASE Take(w) \/ Resume(w) \/ Finish(w) \/ Cleanup(w)
  BY <1>2 DEF Take, Resume, Finish, Cleanup
<1>3. CASE AlrmReturns(w) \/ AlrmInLoop(w) \/ Alrm(w) \/ UrgIgnored(w) \/ UrgInLoop(w)
  BY <1>3 DEF AlrmReturns, AlrmInLoop, Alrm, UrgIgnored, UrgInLoop
<1>4. CASE AlrmSwitches(w)
  BY <1>4 DEF AlrmSwitches, SwitchOut
<1>5. CASE UrgPreempts(w)
  BY <1>5 DEF UrgPreempts, SwitchOut
<1> QED
  BY <1>1, <1>2, <1>3, <1>4, <1>5 DEF WorkerStep, RunLoop, Urg

LEMMA OthersOK ==
  ASSUME TypeInv, OwnInv, RunInv, NEW w \in Workers, WorkerStep(w), NEW v \in Workers \ {w}
  PROVE  RunsOK(v)'
<1>1. UNCHANGED <<board[v], pc[v], ret[v], cur[v], hold[v]>> /\ Point(v)' = Point(v)
  BY Elsewhere DEF Mine, TypeInv, Point
<1>2. hold[v] \in Ids =>
        st'[hold[v]] = st[hold[v]] /\ (hold[v] \in completed' <=> hold[v] \in completed)
  BY Apart, Touched DEF TypeInv
<1>3. Point(v) \in (RunPoints \ {"corrupt"}) \union {"resume"} => hold[v] \in Ids
  BY DEF TypeInv, HoldOK, RunPoints
<1> QED
  BY <1>1, <1>2, <1>3 DEF RunInv, RunsOK, OnBoard, CurHeld, HeldAlive, ExitingDone, Noted,
     RunPoints, TaskPoints

---------------------------------------------------------------------------
(* One worker's step, seen from itself *)

\* What the worker's step owes to the invariant.
Kept(w) ==
    /\ RunsOK(w)'
    /\ DoneAway'
    /\ completed \subseteq completed'
    /\ \A c \in Ids : st'[c] = "COMPLETED" =>
          st[c] = "COMPLETED" \/ (hold'[w] = c /\ Point(w)' \in EndPoints)
    /\ Point(w) \in EndPoints /\ st[hold[w]] = "COMPLETED" =>
          hold[w] \in completed' \/ (hold'[w] = hold[w] /\ Point(w)' \in EndPoints)

\* Away from any coroutine, and in the handlers that return, nothing the
\* invariant speaks of changes.
LEMMA KeptIdle ==
  ASSUME RunInv, NEW w \in Workers,
         UNCHANGED <<st, at, completed, board, hold, cur>>,
         \/ Point(w)' = Point(w)
         \/ {Point(w), Point(w)'} \subseteq
                {"boot", "top", "drainRt", "drainNrt", "pick", "picked"}
  PROVE  Kept(w)
<1>1. RunsOK(w) /\ DoneAway
  BY DEF RunInv
<1>2. OnBoard(w)' /\ CurHeld(w)' /\ HeldAlive(w)' /\ ExitingDone(w)' /\ Noted(w)'
  BY <1>1 DEF RunsOK, OnBoard, CurHeld, HeldAlive, ExitingDone, Noted, RunPoints, TaskPoints
<1>3. DoneAway'
  BY <1>1 DEF DoneAway
<1> QED
  BY <1>2, <1>3 DEF Kept, RunsOK, EndPoints

IdleStep(w) ==
    \/ Boot(w) \/ LoopGet(w) \/ FetchRealtime(w) \/ FetchRealtimeEnds(w)
    \/ FetchGlobal(w) \/ FetchGlobalEnds(w) \/ Pick(w)
    \/ AlrmReturns(w) \/ AlrmInLoop(w) \/ Alrm(w) \/ UrgIgnored(w) \/ UrgInLoop(w)

LEMMA IdleEffect ==
  ASSUME TypeInv, NEW w \in Workers, IdleStep(w)
  PROVE  /\ UNCHANGED <<st, at, completed, board, hold, cur>>
         /\ \/ Point(w)' = Point(w)
            \/ {Point(w), Point(w)'} \subseteq
                   {"boot", "top", "drainRt", "drainNrt", "pick", "picked"}
<1> USE DEF TypeInv, TypeOK, Point, HandlerPoints, LoopPoints, TaskPoints
<1>1. UNCHANGED <<st, at, completed, board, hold, cur>>
  <2>1. CASE Boot(w) \/ LoopGet(w) \/ FetchRealtime(w) \/ FetchRealtimeEnds(w)
             \/ FetchGlobal(w) \/ FetchGlobalEnds(w) \/ Pick(w)
    BY <2>1 DEF Boot, LoopGet, FetchRealtime, FetchRealtimeEnds, FetchGlobal,
       FetchGlobalEnds, Pick, taskVars, markVars, loopVars, schedulerVars
  <2>2. CASE AlrmReturns(w) \/ AlrmInLoop(w) \/ Alrm(w) \/ UrgIgnored(w) \/ UrgInLoop(w)
    BY <2>2 DEF AlrmReturns, AlrmInLoop, Alrm, UrgIgnored, UrgInLoop, taskVars, markVars,
       loopVars, schedulerVars
  <2> QED
    BY <2>1, <2>2 DEF IdleStep
<1>2. \/ Point(w)' = Point(w)
      \/ {Point(w), Point(w)'} \subseteq
            {"boot", "top", "drainRt", "drainNrt", "pick", "picked"}
  <2>1. CASE Boot(w) \/ LoopGet(w) \/ Pick(w)
    BY <2>1 DEF Boot, LoopGet, Pick, LoopHead
  <2>2. CASE FetchRealtime(w) \/ FetchGlobal(w)
    BY <2>2 DEF FetchRealtime, FetchGlobal, loopVars
  <2>3. CASE FetchRealtimeEnds(w) \/ FetchGlobalEnds(w)
    BY <2>3 DEF FetchRealtimeEnds, FetchGlobalEnds
  <2>4. CASE AlrmReturns(w)
    BY <2>4 DEF AlrmReturns
  <2>5. CASE AlrmInLoop(w)
    BY <2>5 DEF AlrmInLoop, BackTo, LoopHead
  <2>6. CASE Alrm(w)
    BY <2>6, SchedAssumption DEF Alrm
  <2>7. CASE UrgIgnored(w)
    BY <2>7 DEF UrgIgnored, loopVars
  <2>8. CASE UrgInLoop(w)
    BY <2>8, SchedAssumption DEF UrgInLoop, BackTo, LoopHead
  <2> QED
    BY <2>1, <2>2, <2>3, <2>4, <2>5, <2>6, <2>7, <2>8 DEF IdleStep
<1> QED
  BY <1>1, <1>2

LEMMA KeptByIdle ==
  ASSUME TypeInv, RunInv, NEW w \in Workers, IdleStep(w) PROVE Kept(w)
  BY IdleEffect, KeptIdle

\* What a worker takes or resumes has not completed: the hands that free a
\* completed coroutine would be another worker's.
LEMMA NotDone ==
  ASSUME TypeInv, OwnInv, RunInv, NEW w \in Workers, NEW c \in Ids,
         c \in {hold[w], curr[w]}, c \notin completed, Point(w) \notin EndPoints
  PROVE  st[c] # "COMPLETED" /\ at[c] = "body"
<1>1. \A u \in Workers \ {w} : hold[u] # c
  BY Apart
<1>2. st[c] # "COMPLETED"
  BY <1>1 DEF RunInv, DoneHeld
<1> QED
  BY <1>2 DEF RunInv, DoneAway

LEMMA KeptByTake ==
  ASSUME TypeInv, OwnInv, RunInv, NEW w \in Workers, Take(w) PROVE Kept(w)
<1> USE DEF TypeInv, TypeOK
<1> DEFINE c == curr[w]
<1>1. pc[w] = "picked" /\ Point(w) = "picked" /\ c \in Ids
  BY DEF Take, Point, HandlerPoints, HoldOK
<1>2. /\ hold' = [hold EXCEPT ![w] = c] /\ UNCHANGED <<board, cur, completed, at>>
      /\ \/ c \in completed /\ pc'[w] = "corrupt" /\ st' = st
         \/ /\ c \notin completed /\ pc'[w] = "resume"
            /\ st' = [st EXCEPT ![c] = IF @ = "PENDING" THEN "READY" ELSE @]
  BY DEF Take, schedulerVars, markVars
<1>3. Point(w)' = pc'[w]
  BY <1>2 DEF Point, HandlerPoints
<1>4. \A d \in Ids : board[w][d] # "RUNNING"
  BY <1>1 DEF RunInv, RunsOK, OnBoard, RunPoints, TaskPoints
<1>5. RunsOK(w)'
  BY <1>1, <1>2, <1>3, <1>4 DEF RunsOK, OnBoard, CurHeld, HeldAlive, ExitingDone, Noted,
     RunPoints, TaskPoints
<1>6. DoneAway'
  BY <1>2 DEF RunInv, DoneAway
<1> QED
  BY <1>1, <1>2, <1>5, <1>6 DEF Kept, EndPoints

LEMMA KeptByResume ==
  ASSUME TypeInv, OwnInv, RunInv, NEW w \in Workers, Resume(w) PROVE Kept(w)
<1> USE DEF TypeInv, TypeOK
<1>1. Point(w) = "resume" /\ hold[w] \in Ids /\ hold[w] \notin completed
  BY DEF Resume, Point, HandlerPoints, HoldOK, RunInv, RunsOK, HeldAlive
<1>2. st[hold[w]] # "COMPLETED" /\ at[hold[w]] = "body"
  BY <1>1, NotDone DEF EndPoints
<1>3. /\ st' = [st EXCEPT ![hold[w]] = "RUNNING"]
      /\ board' = [board EXCEPT ![w][hold[w]] = "RUNNING"]
      /\ Point(w)' = "mark" /\ UNCHANGED <<cur, hold, completed, at>>
  BY DEF Resume, UpdateStatus, Point, HandlerPoints, markVars
<1>4. \A d \in Ids : board[w][d] # "RUNNING"
  BY <1>1 DEF RunInv, RunsOK, OnBoard, RunPoints, TaskPoints
<1>5. RunsOK(w)'
  BY <1>1, <1>3, <1>4 DEF RunsOK, OnBoard, CurHeld, HeldAlive, ExitingDone, Noted,
     RunPoints, TaskPoints
<1>6. DoneAway'
  BY <1>2, <1>3 DEF RunInv, DoneAway
<1> QED
  BY <1>1, <1>3, <1>5, <1>6 DEF Kept, EndPoints

LEMMA KeptByEntry ==
  ASSUME TypeInv, OwnInv, RunInv, NEW w \in Workers, Mark(w) \/ Enter(w) \/ Swap(w)
  PROVE  Kept(w)
<1> USE DEF TypeInv, TypeOK
<1>1. /\ Point(w) \in {"mark", "enter", "entered"} /\ Point(w) = pc[w]
      /\ hold[w] \in Ids /\ hold[w] \notin completed
  BY DEF Mark, Enter, Swap, Point, HandlerPoints, HoldOK, RunInv, RunsOK, HeldAlive, RunPoints
<1>2. at[hold[w]] = "body"
  BY <1>1, NotDone DEF EndPoints
<1>3. UNCHANGED <<st, at, board, hold, completed>>
  BY DEF Mark, Enter, Swap, markVars, taskVars, schedulerVars
<1>4. /\ Point(w)' \in {"enter", "entered", "body"}
      /\ Point(w)' \in {"entered", "body"} => cur'[w] = hold[w]
  <2>1. CASE Mark(w)
    BY <2>1 DEF Mark, Point, HandlerPoints
  <2>2. CASE Enter(w)
    BY <2>2 DEF Enter, Point, HandlerPoints
  <2>3. CASE Swap(w)
    BY <1>1, <1>2, <2>3 DEF Swap, Point, HandlerPoints, RunInv, RunsOK, CurHeld
  <2> QED
    BY <2>1, <2>2, <2>3
<1>5. RunsOK(w)'
  BY <1>1, <1>3, <1>4 DEF RunInv, RunsOK, OnBoard, CurHeld, HeldAlive, ExitingDone, Noted,
     RunPoints, TaskPoints
<1>6. DoneAway'
  BY <1>3 DEF RunInv, DoneAway
<1> QED
  BY <1>1, <1>3, <1>5, <1>6 DEF Kept, EndPoints

LEMMA KeptByExit ==
  ASSUME TypeInv, OwnInv, RunInv, NEW w \in Workers, Finish(w) \/ LockStats(w) \/ Restore(w)
  PROVE  Kept(w)
<1> USE DEF TypeInv, TypeOK
<1>1. /\ Point(w) \in TaskPoints /\ Point(w) = pc[w]
      /\ hold[w] \in Ids /\ hold[w] \notin completed
  BY DEF Finish, LockStats, Restore, Point, HandlerPoints, TaskPoints, HoldOK, RunInv, RunsOK,
     HeldAlive, RunPoints
<1>2. /\ UNCHANGED <<at, board, hold, cur, completed>>
      /\ Point(w)' \in {"exiting", "stats", "returned"}
      /\ st'[hold[w]] = "COMPLETED"
      /\ \A c \in Ids \ {hold[w]} : st'[c] = st[c]
  <2>1. CASE Finish(w)
    BY <1>1, <2>1 DEF Finish, Point, HandlerPoints, markVars, schedulerVars
  <2>2. CASE LockStats(w) \/ Restore(w)
    BY <1>1, <2>2 DEF LockStats, Restore, Point, HandlerPoints, markVars, schedulerVars,
       RunInv, RunsOK, ExitingDone
  <2> QED
    BY <2>1, <2>2
<1>3. RunsOK(w)'
  BY <1>1, <1>2 DEF RunInv, RunsOK, OnBoard, CurHeld, HeldAlive, ExitingDone, Noted,
     RunPoints, TaskPoints
<1>4. DoneAway'
  BY <1>2 DEF RunInv, DoneAway
<1> QED
  BY <1>1, <1>2, <1>3, <1>4 DEF Kept, EndPoints

LEMMA KeptByReturn ==
  ASSUME TypeInv, RunInv, NEW w \in Workers, Leave(w) \/ Cleanup(w)
  PROVE  Kept(w)
<1> USE DEF TypeInv, TypeOK
<1>1. /\ Point(w) \in {"returned", "cleanup"} /\ Point(w) = pc[w]
      /\ hold[w] \in Ids /\ hold[w] \notin completed
  BY DEF Leave, Cleanup, Point, HandlerPoints, HoldOK, RunInv, RunsOK, HeldAlive, RunPoints
<1>2. UNCHANGED <<st, at>>
  BY DEF Leave, Cleanup, taskVars
<1>3. DoneAway'
  BY <1>2 DEF RunInv, DoneAway
<1>4. CASE Leave(w)
  <2>1. UNCHANGED <<board, completed>> /\ Point(w) = "returned"
    BY <1>1, <1>4 DEF Leave, schedulerVars, markVars
  <2>2. CASE st[hold[w]] = "COMPLETED"
    <3>1. Point(w)' = "cleanup" /\ hold' = hold
      BY <1>4, <2>2 DEF Leave, Point, HandlerPoints
    <3> QED
      BY <1>1, <1>2, <1>3, <2>1, <3>1 DEF Kept, RunInv, RunsOK, OnBoard, CurHeld, HeldAlive,
         ExitingDone, Noted, RunPoints, TaskPoints, EndPoints
  <2>3. CASE st[hold[w]] # "COMPLETED"
    <3>1. Point(w)' \in {"top", "picked"} /\ hold'[w] = None
      BY <1>4, <2>3 DEF Leave, Point, HandlerPoints, LoopHead
    <3>2. \A c \in Ids : board[w][c] # "RUNNING"
      BY <2>1, <2>3 DEF RunInv, RunsOK, Noted, OnBoard
    <3>3. RunsOK(w)'
      BY <2>1, <3>1, <3>2 DEF RunsOK, OnBoard, CurHeld, HeldAlive, ExitingDone, Noted,
         RunPoints, TaskPoints
    <3> QED
      BY <1>2, <1>3, <2>1, <2>3, <3>1, <3>3 DEF Kept, EndPoints
  <2> QED
    BY <2>2, <2>3
<1>5. CASE Cleanup(w)
  <2>1. /\ Point(w)' \in {"top", "picked"} /\ hold'[w] = None
        /\ completed' = completed \union {hold[w]}
        /\ board' = [board EXCEPT ![w][hold[w]] = "ABSENT"]
    BY <1>5 DEF Cleanup, UpdateStatus, Point, HandlerPoints, LoopHead
  <2>2. \A c \in Ids : board'[w][c] # "RUNNING"
    BY <1>1, <2>1 DEF RunInv, RunsOK, OnBoard
  <2>3. RunsOK(w)'
    BY <2>1, <2>2 DEF RunsOK, OnBoard, CurHeld, HeldAlive, ExitingDone, Noted,
       RunPoints, TaskPoints
  <2> QED
    BY <1>2, <1>3, <2>1, <2>3 DEF Kept
<1> QED
  BY <1>4, <1>5

LEMMA KeptBySwitch ==
  ASSUME TypeInv, OwnInv, RunInv, NEW w \in Workers, AlrmSwitches(w) \/ UrgPreempts(w)
  PROVE  Kept(w)
<1>0. OnBoard(w) /\ CurHeld(w) /\ HeldAlive(w) /\ ExitingDone(w)
  BY DEF RunInv, RunsOK
<1> USE DEF TypeInv, TypeOK
<1>1. PICK p \in Points : p = Point(w) /\ SwitchOut(w, p)
  <2>1. CASE AlrmSwitches(w)
    BY <2>1 DEF AlrmSwitches, Point, HandlerPoints, Points
  <2>2. CASE UrgPreempts(w)
    BY <2>2, SchedAssumption DEF UrgPreempts, Point, HandlerPoints, LoopPoints, TaskPoints,
       Points
  <2> QED
    BY <2>1, <2>2
<1>2. PICK c \in Ids : c = cur[w]
  BY DEF AlrmSwitches, UrgPreempts
<1>3. UNCHANGED <<cur, hold, completed>>
  BY DEF AlrmSwitches, UrgPreempts, markVars
<1>4. /\ st'[c] = IF st[c] = "COMPLETED" THEN "COMPLETED" ELSE "SUSPENDED"
      /\ \A d \in Ids \ {c} : st'[d] = st[d]
      /\ board'[w][c] # "RUNNING"
      /\ \A d \in Ids \ {c} : board'[w][d] = board[w][d]
  BY <1>1, <1>2 DEF SwitchOut, UpdateStatus
<1>5. CASE p \in TaskPoints
  <2>1. c = hold[w] /\ hold[w] \notin completed
        /\ (p # "body" => st[c] = "COMPLETED")
    BY <1>1, <1>2, <1>5 DEF RunInv, RunsOK, CurHeld, HeldAlive, ExitingDone, RunPoints,
       TaskPoints
  <2>2. at' = [at EXCEPT ![c] = p] /\ Point(w)' = "returned"
    BY <1>1, <1>2, <1>5 DEF SwitchOut, Point, HandlerPoints
  <2>3. \A d \in Ids : board'[w][d] # "RUNNING"
    BY <1>0, <1>4, <2>1 DEF OnBoard
  <2>4. RunsOK(w)'
    BY <1>2, <1>3, <2>1, <2>2, <2>3 DEF RunsOK, OnBoard, CurHeld, HeldAlive, ExitingDone,
       Noted, RunPoints, TaskPoints
  <2>5. DoneAway'
    BY <1>4, <2>1, <2>2 DEF RunInv, DoneAway
  <2> QED
    BY <1>3, <1>4, <2>2, <2>4, <2>5 DEF Kept, EndPoints
<1>6. CASE p \notin TaskPoints
  <2>1. at' = at /\ Point(w)' = "corrupt"
    BY <1>1, <1>6 DEF SwitchOut, Point, HandlerPoints
  <2>2. RunsOK(w)'
    <3>1. \A d \in Ids : board'[w][d] = "RUNNING" => hold[w] = d
      BY <1>0, <1>4 DEF OnBoard
    <3>2. OnBoard(w)'
      BY <1>3, <2>1, <3>1 DEF OnBoard, RunPoints
    <3> QED
      BY <2>1, <3>2 DEF RunsOK, CurHeld, HeldAlive, ExitingDone, Noted, RunPoints, TaskPoints
  <2>3. DoneAway'
    BY <1>4, <2>1 DEF RunInv, DoneAway
  <2> QED
    BY <1>3, <1>4, <2>1, <2>2, <2>3 DEF Kept, EndPoints
<1> QED
  BY <1>5, <1>6

LEMMA RunWorker ==
  ASSUME TypeInv, OwnInv, RunInv, NEW w \in Workers, WorkerStep(w) PROVE RunInv'
<1>1. Kept(w)
  <2>1. \/ IdleStep(w) \/ Take(w) \/ Resume(w) \/ Mark(w) \/ Enter(w) \/ Swap(w)
        \/ Finish(w) \/ LockStats(w) \/ Restore(w) \/ Leave(w) \/ Cleanup(w)
        \/ AlrmSwitches(w) \/ UrgPreempts(w)
    BY DEF WorkerStep, RunLoop, Urg, IdleStep
  <2> QED
    BY <2>1, KeptByIdle, KeptByTake, KeptByResume, KeptByEntry, KeptByExit, KeptByReturn,
       KeptBySwitch
<1>2. \A v \in Workers : RunsOK(v)'
  BY <1>1, OthersOK DEF Kept
<1>3. \A v \in Workers \ {w} : hold'[v] = hold[v] /\ Point(v)' = Point(v)
  BY Elsewhere DEF Mine, TypeInv, Point
<1>4. DoneHeld'
  <2> SUFFICES ASSUME NEW c \in Ids, st'[c] = "COMPLETED", c \notin completed'
               PROVE  \E v \in Workers : hold'[v] = c /\ Point(v)' \in EndPoints
    BY DEF DoneHeld
  <2>1. CASE st[c] # "COMPLETED"
    BY <1>1, <2>1 DEF Kept
  <2>2. CASE st[c] = "COMPLETED"
    <3>1. PICK v \in Workers : hold[v] = c /\ Point(v) \in EndPoints
      BY <1>1, <2>2 DEF RunInv, DoneHeld, Kept
    <3>2. CASE v = w
      BY <1>1, <2>2, <3>1, <3>2 DEF Kept
    <3>3. CASE v # w
      BY <1>3, <3>1, <3>3
    <3> QED
      BY <3>2, <3>3
  <2> QED
    BY <2>1, <2>2
<1> QED
  BY <1>1, <1>2, <1>4 DEF RunInv, Kept

---------------------------------------------------------------------------
(* The scheduler thread: it writes PENDING only, of a coroutine nobody has *)

LEMMA RunScheduler ==
  ASSUME TypeInv, OwnInv, RunInv, Request \/ SchedulerStep PROVE RunInv'
<1> USE DEF TypeInv, TypeOK
<1>1. UNCHANGED <<at, completed, hold, cur, pc, ret>>
  BY DEF Request, RequestNrt, RequestRt, SchedulerStep, Snapshot, Decide, Reject, Admit,
     Retry, Instantiate, InstantiateFails, NoteSchedulable, SpawnNrt, SpawnSchedulable,
     SpawnPreemptive, SetSlot, Signal, loopVars, taskVars, markVars
<1>2. \A c \in Ids : st'[c] = st[c] \/ (st[c] = "NONE" /\ st'[c] = "PENDING")
  <2>1. CASE SpawnNrt
    BY <2>1 DEF SpawnNrt, OwnInv, Fresh, JobOK
  <2>2. CASE SpawnSchedulable \/ SpawnPreemptive
    BY <2>2 DEF SpawnSchedulable, SpawnPreemptive, OwnInv, Fresh, JobOK
  <2>3. CASE ~(SpawnNrt \/ SpawnSchedulable \/ SpawnPreemptive)
    BY <2>3 DEF Request, RequestNrt, RequestRt, SchedulerStep, Snapshot, Decide, Reject, Admit,
       Retry, Instantiate, InstantiateFails, NoteSchedulable, SetSlot, Signal, taskVars
  <2> QED
    BY <2>1, <2>2, <2>3
<1>3. \A w \in Workers, c \in Ids : board'[w][c] = "RUNNING" => board[w][c] = "RUNNING"
  <2>1. CASE NoteSchedulable \/ SpawnPreemptive
    <3>1. PICK h \in Workers, j \in Ids : board' = [board EXCEPT ![h][j] = "PENDING"]
      BY <2>1, HomeInWorkers DEF NoteSchedulable, SpawnPreemptive, UpdateStatus, JobOK
    <3>2. \A w \in Workers, c \in Ids :
            board'[w][c] = IF w = h /\ c = j THEN "PENDING" ELSE board[w][c]
      BY <3>1
    <3> QED
      BY <3>2
  <2>2. CASE ~(NoteSchedulable \/ SpawnPreemptive)
    BY <2>2 DEF Request, RequestNrt, RequestRt, SchedulerStep, Snapshot, Decide, Reject, Admit,
       Retry, Instantiate, InstantiateFails, SpawnNrt, SpawnSchedulable, SetSlot, Signal,
       schedulerVars
  <2> QED
    BY <2>1, <2>2
<1>4. \A w \in Workers : Point(w)' = Point(w)
  BY <1>1 DEF Point
<1>5. \A w \in Workers : RunsOK(w)'
  <2> SUFFICES ASSUME NEW w \in Workers PROVE RunsOK(w)'
    OBVIOUS
  <2>1. RunsOK(w)
    BY DEF RunInv
  <2>2. Point(w) \in {"exiting", "stats", "returned"} => hold[w] \in Ids
    BY DEF HoldOK, TaskPoints
  <2> QED
    BY <1>1, <1>2, <1>3, <1>4, <2>1, <2>2 DEF RunsOK, OnBoard, CurHeld, HeldAlive,
       ExitingDone, Noted, RunPoints, TaskPoints
<1>6. DoneAway'
  BY <1>1, <1>2 DEF RunInv, DoneAway
<1>7. DoneHeld'
  <2> SUFFICES ASSUME NEW c \in Ids, st'[c] = "COMPLETED", c \notin completed
               PROVE  \E w \in Workers : hold[w] = c /\ Point(w)' \in EndPoints
    BY <1>1 DEF DoneHeld
  <2>1. st[c] = "COMPLETED"
    BY <1>2
  <2>2. PICK w \in Workers : hold[w] = c /\ Point(w) \in EndPoints
    BY <2>1 DEF RunInv, DoneHeld
  <2> QED
    BY <1>4, <2>2
<1> QED
  BY <1>5, <1>6, <1>7 DEF RunInv

LEMMA RunInit == Init => RunInv
  BY DEF Init, RunInv, RunsOK, OnBoard, CurHeld, HeldAlive, ExitingDone, Noted, DoneAway,
     DoneHeld, Point, HandlerPoints, EmptyBoard, RunPoints, TaskPoints

\* The inductive invariant: what runs is on the board, and what has completed
\* is freed by the worker that ran it and resumed by none.
THEOREM NeverAgain == Spec => [](TypeInv /\ OwnInv /\ RunInv)
<1>1. TypeInv /\ OwnInv /\ RunInv /\ [Next]_vars => RunInv'
  <2>1. TypeInv /\ OwnInv /\ RunInv /\ UNCHANGED vars => RunInv'
    BY DEF RunInv, RunsOK, OnBoard, CurHeld, HeldAlive, ExitingDone, Noted, DoneAway,
       DoneHeld, Point, vars, schedulerVars, markVars, loopVars, taskVars
  <2> QED
    BY <2>1, RunWorker, RunScheduler DEF Next
<1> QED
  BY <1>1, RunInit, Owning, PTL DEF Spec

\* The board says RUNNING only of the coroutine in run_co's hands, wherever
\* signals strike.
THEOREM BoardRight == Spec => []RunningAccurate
<1>1. RunInv => RunningAccurate
  BY DEF RunInv, RunsOK, OnBoard, RunningAccurate, RunPoints, TaskPoints
<1> QED
  BY <1>1, NeverAgain, PTL

---------------------------------------------------------------------------
(* The stages of a coroutine, and the refinement of TaskLifecycle *)

BegunStatus == {"RUNNING", "SUSPENDED", "COMPLETED"}

\* run_co has a coroutine in its hands, and current() is set, only between
\* their beginning and their end; what was resumed has begun, what is about
\* to be freed has returned.
HandsOK(w) ==
    /\ hold[w] # None => Point(w) \in RunPoints \union {"resume"}
    /\ cur[w] # None => Point(w) \in {"entered", "returned", "corrupt"} \union TaskPoints
    /\ Point(w) \in RunPoints => hold[w] \in Ids /\ st[hold[w]] \in BegunStatus
    /\ Point(w) = "cleanup" => st[hold[w]] = "COMPLETED"

FreedDone == \A c \in completed : st[c] = "COMPLETED"

\* A coroutine in the hand of the scheduler thread, or dropped by set_slots,
\* has not begun; the dropped one is nowhere any more.
HandFresh == spc = "slot" => st[job] = "PENDING"
DroppedOut ==
    \A c \in dropped :
        st[c] = "PENDING" /\ \A k \in Kinds, w \in Workers : ~Zone(c, k, w)

LifeInv == (\A w \in Workers : HandsOK(w)) /\ FreedDone /\ HandFresh /\ DroppedOut
AllInv == TypeInv /\ OwnInv /\ RunInv /\ LifeInv

---------------------------------------------------------------------------
(* A worker's step, seen from outside the worker *)

LEMMA ZonesWorker ==
  ASSUME TypeInv, OwnInv, NEW w \in Workers, WorkerStep(w),
         NEW c \in Ids, \A k \in Kinds, v \in Workers : ~Zone(c, k, v)
  PROVE  \A k \in Kinds, v \in Workers : ~Zone(c, k, v)'
<1>1. LocalSteps(w) \/ FetchRealtime(w) \/ FetchGlobal(w) \/ UrgInLoop(w) \/ UrgPreempts(w)
  BY DEF LocalSteps, WorkerStep, RunLoop, Urg
<1> QED
  BY <1>1, ZonesLocal, ZonesFetchRealtime, ZonesFetchGlobal, ZonesTakeSlot

LEMMA DroppedKept == ASSUME NEW w \in Workers, WorkerStep(w) PROVE dropped' = dropped
  BY DEF WorkerStep, RunLoop, Finish, Urg, Alrm, UrgIgnored, UrgInLoop, UrgPreempts,
     Boot, LoopGet, FetchRealtime, FetchRealtimeEnds, FetchGlobal, FetchGlobalEnds, Pick,
     Take, Resume, Mark, Enter, Swap, LockStats, Restore, Leave, Cleanup, AlrmReturns,
     AlrmInLoop, AlrmSwitches, schedulerVars

\* A coroutine outside every worker is not touched.
LEMMA Untouched ==
  ASSUME TypeInv, NEW w \in Workers, WorkerStep(w), NEW c \in Ids, ~Zone(c, "own", w)
  PROVE  st'[c] = st[c]
<1>1. c \notin {hold[w], curr[w], cur[w]}
  BY DEF Zone, Owned, Ids, None
<1> QED
  BY <1>1, Touched DEF TypeInv

LEMMA LifeElsewhere ==
  ASSUME AllInv, NEW w \in Workers, WorkerStep(w)
  PROVE  HandFresh' /\ DroppedOut' /\ \A v \in Workers \ {w} : HandsOK(v)'
<1> USE DEF AllInv
<1>1. HandFresh'
  <2>1. UNCHANGED <<spc, job>>
    BY WorkerKeepsRequest DEF requestVars
  <2>2. SUFFICES ASSUME spc = "slot" PROVE st'[job] = "PENDING"
    BY <2>1 DEF HandFresh
  <2>3. job \in Ids /\ 0 \in Workers /\ {"hand", "own"} \subseteq Kinds
    BY <2>2 DEF TypeInv, JobOK, Kinds, Workers
  <2>4. Zone(job, "hand", 0)
    BY <2>2 DEF Zone
  <2>5. ~Zone(job, "own", w)
    BY <2>3, <2>4 DEF OwnInv, Exclusive
  <2> QED
    BY <2>2, <2>3, <2>5, Untouched DEF LifeInv, HandFresh
<1>2. DroppedOut'
  <2>1. dropped' = dropped /\ dropped \subseteq Ids /\ "own" \in Kinds
    BY DroppedKept DEF TypeInv, TypeOK, Kinds
  <2>2. SUFFICES ASSUME NEW c \in dropped
                 PROVE  st'[c] = "PENDING" /\ \A k \in Kinds, v \in Workers : ~Zone(c, k, v)'
    BY <2>1 DEF DroppedOut
  <2>3. c \in Ids /\ st[c] = "PENDING" /\ \A k \in Kinds, v \in Workers : ~Zone(c, k, v)
    BY <2>1 DEF LifeInv, DroppedOut
  <2> QED
    BY <2>1, <2>3, Untouched, ZonesWorker
<1>3. ASSUME NEW v \in Workers \ {w} PROVE HandsOK(v)'
  <2>1. UNCHANGED <<cur[v], hold[v]>> /\ Point(v)' = Point(v)
    BY Elsewhere DEF Mine, TypeInv, Point
  <2>2. hold[v] \in Ids => st'[hold[v]] = st[hold[v]]
    BY Apart, Touched DEF TypeInv
  <2>3. HandsOK(v)
    BY DEF LifeInv
  <2> QED
    BY <2>1, <2>2, <2>3 DEF HandsOK, TypeInv, HoldOK
<1> QED
  BY <1>1, <1>2, <1>3

---------------------------------------------------------------------------
(* What a worker's step is in TaskLifecycle *)

Maps == Lifecycle!Next \/ UNCHANGED Lifecycle!vars

\* The stages of a coroutine's life that TaskLifecycle tells apart.
SameStage(c) ==
    /\ st'[c] = "NONE" <=> st[c] = "NONE"
    /\ st'[c] \in BegunStatus <=> st[c] \in BegunStatus
    /\ st'[c] = "COMPLETED" <=> st[c] = "COMPLETED"

LEMMA OthersResume ==
  ASSUME AllInv, NEW w \in Workers, WorkerStep(w), NEW v \in Workers \ {w}
  PROVE  InResume(v)' = InResume(v)
<1>1. UNCHANGED <<hold[v]>> /\ Point(v)' = Point(v)
  BY Elsewhere DEF Mine, AllInv, TypeInv, Point
<1>2. hold[v] \in Ids => (hold[v] \in completed' <=> hold[v] \in completed)
  BY Apart, Touched DEF AllInv, TypeInv
<1>3. hold[v] \in Ids \union {None}
  BY DEF AllInv, TypeInv, TypeOK
<1> QED
  BY <1>1, <1>2, <1>3 DEF InResume

LEMMA Stutters ==
  ASSUME AllInv, NEW w \in Workers, WorkerStep(w), completed' = completed,
         InResume(w)' = InResume(w), \A c \in Ids : SameStage(c)
  PROVE  Maps
<1>1. \A v \in Workers : InResume(v)' = InResume(v)
  BY OthersResume
<1>2. dropped' = dropped
  BY DroppedKept
<1>3. [v \in Workers |-> InResume(v)]' = [v \in Workers |-> InResume(v)]
  BY <1>1
<1>4. /\ {c \in Ids : st'[c] # "NONE"} = {c \in Ids : st[c] # "NONE"}
      /\ {c \in Ids : st'[c] \in BegunStatus} = {c \in Ids : st[c] \in BegunStatus}
      /\ {c \in Ids : st'[c] = "COMPLETED"} = {c \in Ids : st[c] = "COMPLETED"}
  BY DEF SameStage
<1> QED
  BY <1>2, <1>3, <1>4 DEF Maps, Lifecycle!vars, BegunStatus

\* What the worker's step owes to the invariant and to TaskLifecycle.
Lives(w) == HandsOK(w)' /\ FreedDone' /\ Maps

LEMMA LivesIdle ==
  ASSUME AllInv, NEW w \in Workers, IdleStep(w) PROVE Lives(w)
<1>1. WorkerStep(w) /\ UNCHANGED <<st, at, completed, board, hold, cur>>
      /\ (\/ Point(w)' = Point(w)
          \/ {Point(w), Point(w)'} \subseteq
                {"boot", "top", "drainRt", "drainNrt", "pick", "picked"})
  BY IdleEffect DEF AllInv, IdleStep, WorkerStep, RunLoop, Urg
<1>2. HandsOK(w) /\ FreedDone
  BY DEF AllInv, LifeInv
<1>3. HandsOK(w)' /\ FreedDone'
  BY <1>1, <1>2 DEF HandsOK, FreedDone, RunPoints, TaskPoints
<1>4. InResume(w)' = InResume(w)
  BY <1>1 DEF InResume
<1>5. \A c \in Ids : SameStage(c)
  BY <1>1 DEF SameStage
<1> QED
  BY <1>1, <1>3, <1>4, <1>5, Stutters DEF Lives

LEMMA LivesTake ==
  ASSUME AllInv, NEW w \in Workers, Take(w) PROVE Lives(w)
<1> USE DEF AllInv, TypeInv, TypeOK
<1> DEFINE c == curr[w]
<1>1. WorkerStep(w) /\ Point(w) = "picked" /\ c \in Ids
  BY DEF Take, Point, HandlerPoints, HoldOK, WorkerStep, RunLoop
<1>2. /\ hold' = [hold EXCEPT ![w] = c] /\ UNCHANGED <<cur, completed>>
      /\ \/ c \in completed /\ pc'[w] = "corrupt" /\ st' = st
         \/ /\ c \notin completed /\ pc'[w] = "resume"
            /\ st' = [st EXCEPT ![c] = IF @ = "PENDING" THEN "READY" ELSE @]
  BY DEF Take, schedulerVars, markVars
<1>3. Point(w)' = pc'[w]
  BY <1>2 DEF Point, HandlerPoints
<1>4. HandsOK(w) /\ FreedDone
  BY DEF LifeInv
<1>5. hold[w] = None /\ cur[w] = None
  BY <1>1, <1>4 DEF HandsOK, RunPoints, TaskPoints
<1>6. HandsOK(w)'
  BY <1>1, <1>2, <1>3, <1>4, <1>5 DEF HandsOK, FreedDone, RunPoints, TaskPoints, BegunStatus
<1>7. FreedDone'
  BY <1>2, <1>4 DEF FreedDone
<1>8. InResume(w) = None /\ InResume(w)' = None
  BY <1>2, <1>3, <1>5 DEF InResume
<1>9. \A d \in Ids : SameStage(d)
  BY <1>2 DEF SameStage, BegunStatus
<1> QED
  BY <1>1, <1>2, <1>6, <1>7, <1>8, <1>9, Stutters DEF Lives

\* The abstract thread of one worker changes.
LEMMA OneThread ==
  ASSUME AllInv, NEW w \in Workers, WorkerStep(w), NEW x, InResume(w)' = x
  PROVE  [v \in Workers |-> InResume(v)]' = [[v \in Workers |-> InResume(v)] EXCEPT ![w] = x]
  BY OthersResume

LEMMA Alone ==
  ASSUME AllInv, NEW w \in Workers, hold[w] \in Ids, NEW v \in Workers \ {w}
  PROVE  InResume(v) # hold[w]
<1>1. hold[v] # hold[w]
  BY Apart DEF AllInv
<1> QED
  BY <1>1 DEF InResume, Ids, None

LEMMA StepMaps ==
  ASSUME NEW w \in Workers, NEW c \in Ids,
         Lifecycle!Start(w, c) \/ Lifecycle!Stop(w) \/ Lifecycle!Return(w)
         \/ Lifecycle!Submit(c) \/ Lifecycle!Free(c) \/ Lifecycle!Lose(c)
  PROVE  Maps
  BY DEF Maps, Lifecycle!Next

LEMMA LivesResume ==
  ASSUME AllInv, NEW w \in Workers, Resume(w) PROVE Lives(w)
<1>a. hold[w] \in Ids => \A v \in Workers \ {w} : InResume(v) # hold[w]
  BY Alone
<1> USE DEF AllInv, TypeInv, TypeOK
<1>0. PICK c \in Ids : c = hold[w]
  BY DEF Resume, Point, HandlerPoints, HoldOK
<1>1. WorkerStep(w) /\ Point(w) = "resume" /\ c \notin completed
  BY <1>0 DEF Resume, Point, HandlerPoints, HoldOK, RunInv, RunsOK, HeldAlive, WorkerStep, RunLoop
<1>2. /\ st' = [st EXCEPT ![c] = "RUNNING"] /\ Point(w)' = "mark"
      /\ UNCHANGED <<cur, hold, completed>>
  BY <1>0 DEF Resume, Point, HandlerPoints, markVars
<1>3. st[c] \notin {"NONE", "COMPLETED"}
  <2>1. Zone(c, "own", w) /\ "own" \in Kinds
    BY <1>0 DEF Zone, Owned, Kinds, Ids, None
  <2> QED
    BY <1>0, <1>1, <2>1, NotDone DEF OwnInv, Created, EndPoints
<1>4. HandsOK(w) /\ FreedDone
  BY DEF LifeInv
<1>5. HandsOK(w)'
  BY <1>0, <1>1, <1>2, <1>4 DEF HandsOK, RunPoints, TaskPoints, BegunStatus
<1>6. FreedDone'
  BY <1>0, <1>1, <1>2, <1>4 DEF FreedDone
<1>7. Lifecycle!Start(w, c)
  <2>1. InResume(w) = None /\ InResume(w)' = c
    BY <1>0, <1>1, <1>2 DEF InResume
  <2>2. \A v \in Workers : InResume(v) # c
    BY <1>a, <1>0, <2>1 DEF Ids, None
  <2>3. c \notin dropped
    <3>1. Zone(c, "own", w) /\ "own" \in Kinds
      BY <1>0 DEF Zone, Owned, Kinds, Ids, None
    <3> QED
      BY <3>1 DEF LifeInv, DroppedOut
  <2>4. [v \in Workers |-> InResume(v)]' = [[v \in Workers |-> InResume(v)] EXCEPT ![w] = c]
    BY <1>1, <2>1, OneThread
  <2>5. /\ {d \in Ids : st'[d] # "NONE"} = {d \in Ids : st[d] # "NONE"}
        /\ {d \in Ids : st'[d] \in BegunStatus} = {d \in Ids : st[d] \in BegunStatus} \union {c}
        /\ {d \in Ids : st'[d] = "COMPLETED"} = {d \in Ids : st[d] = "COMPLETED"}
    BY <1>1, <1>2, <1>3 DEF BegunStatus
  <2>6. dropped' = dropped /\ completed' = completed
    BY <1>1, <1>2, DroppedKept
  <2>7. c \in {d \in Ids : st[d] # "NONE"} /\ c \notin {d \in Ids : st[d] = "COMPLETED"}
    BY <1>1, <1>3
  <2> QED
    BY <2>1, <2>2, <2>3, <2>4, <2>5, <2>6, <2>7
    DEF Lifecycle!Start, Lifecycle!Running, BegunStatus
<1> QED
  BY <1>1, <1>5, <1>6, <1>7, StepMaps DEF Lives

\* A step of the coroutine itself, or of resume on the way in or out.
LEMMA LivesInside ==
  ASSUME AllInv, NEW w \in Workers, Mark(w) \/ Enter(w) \/ Swap(w) \/ LockStats(w) \/ Restore(w)
  PROVE  Lives(w)
<1>1. WorkerStep(w)
  BY DEF WorkerStep, RunLoop
<1> USE DEF AllInv, TypeInv, TypeOK
<1>2. UNCHANGED <<st, hold, completed>>
  BY DEF Mark, Enter, Swap, LockStats, Restore, markVars, taskVars
<1>3. /\ Point(w) \in {"mark", "enter", "entered", "exiting", "stats"}
      /\ Point(w)' \in {"enter", "entered", "returned"} \union TaskPoints
      /\ cur'[w] # None => Point(w)' \in {"entered", "returned"} \union TaskPoints
  <2>1. CASE Mark(w)
    <3>1. cur[w] = None
      BY <2>1 DEF Mark, Point, HandlerPoints, LifeInv, HandsOK, TaskPoints
    <3> QED
      BY <2>1, <3>1 DEF Mark, Point, HandlerPoints
  <2>2. CASE Enter(w)
    BY <2>2 DEF Enter, Point, HandlerPoints
  <2>3. CASE Swap(w)
    BY <2>3 DEF Swap, Point, HandlerPoints, HoldOK, TaskPoints
  <2>4. CASE LockStats(w) \/ Restore(w)
    BY <2>4 DEF LockStats, Restore, Point, HandlerPoints, TaskPoints
  <2> QED
    BY <2>1, <2>2, <2>3, <2>4
<1>4. HandsOK(w) /\ FreedDone
  BY DEF LifeInv
<1>5. HandsOK(w)' /\ FreedDone'
  BY <1>2, <1>3, <1>4 DEF HandsOK, FreedDone, RunPoints, TaskPoints
<1>6. InResume(w)' = InResume(w) /\ \A c \in Ids : SameStage(c)
  BY <1>2, <1>3 DEF InResume, SameStage, TaskPoints
<1> HIDE DEF AllInv, TypeInv, TypeOK
<1> QED
  BY <1>1, <1>2, <1>5, <1>6, Stutters DEF Lives

LEMMA LivesFinish ==
  ASSUME AllInv, NEW w \in Workers, Finish(w) PROVE Lives(w)
<1>1. WorkerStep(w) /\ dropped' = dropped
  BY DroppedKept DEF WorkerStep
<1> USE DEF AllInv, TypeInv, TypeOK
<1>2. PICK c \in Ids : c = hold[w]
  BY DEF Finish, Point, HandlerPoints, HoldOK, TaskPoints
<1>3. /\ st' = [st EXCEPT ![c] = "COMPLETED"] /\ UNCHANGED <<hold, cur, completed>>
      /\ Point(w) = "body" /\ Point(w)' = "exiting"
  BY <1>2 DEF Finish, Point, HandlerPoints, markVars
<1>4. c \notin completed
  BY <1>2, <1>3 DEF RunInv, RunsOK, HeldAlive, RunPoints, TaskPoints
<1>5. st[c] \in BegunStatus /\ st[c] # "COMPLETED"
  BY <1>2, <1>3, <1>4, NotDone DEF LifeInv, HandsOK, RunPoints, TaskPoints, EndPoints
<1>6. HandsOK(w)' /\ FreedDone'
  BY <1>2, <1>3, <1>4 DEF LifeInv, HandsOK, FreedDone, RunPoints, TaskPoints, BegunStatus
<1>7. InResume(w) = c /\ InResume(w)' = c
  BY <1>2, <1>3, <1>4 DEF InResume
<1>8. /\ {d \in Ids : st'[d] # "NONE"} = {d \in Ids : st[d] # "NONE"}
      /\ {d \in Ids : st'[d] \in BegunStatus} = {d \in Ids : st[d] \in BegunStatus}
      /\ {d \in Ids : st'[d] = "COMPLETED"} = {d \in Ids : st[d] = "COMPLETED"} \union {c}
      /\ c \notin {d \in Ids : st[d] = "COMPLETED"}
  BY <1>3, <1>5 DEF BegunStatus
<1> HIDE DEF AllInv, TypeInv, TypeOK
<1>9. [v \in Workers |-> InResume(v)]' = [v \in Workers |-> InResume(v)]
  BY <1>1, <1>7, OthersResume
<1>10. Lifecycle!Return(w)
  BY <1>1, <1>2, <1>3, <1>7, <1>8, <1>9 DEF Lifecycle!Return, BegunStatus, Ids, None
<1> QED
  BY <1>1, <1>2, <1>6, <1>10, StepMaps DEF Lives

LEMMA LivesLeave ==
  ASSUME AllInv, NEW w \in Workers, Leave(w) PROVE Lives(w)
<1>1. WorkerStep(w) /\ dropped' = dropped
  BY DroppedKept DEF WorkerStep, RunLoop
<1> USE DEF AllInv, TypeInv, TypeOK
<1>2. PICK c \in Ids : c = hold[w]
  BY DEF Leave, Point, HandlerPoints, HoldOK
<1>3. /\ UNCHANGED <<st, completed>> /\ Point(w) = "returned" /\ cur'[w] = None
      /\ \/ st[c] = "COMPLETED" /\ Point(w)' = "cleanup" /\ hold' = hold
         \/ Point(w)' \in {"top", "picked"} /\ hold'[w] = None
  BY <1>2 DEF Leave, Point, HandlerPoints, markVars, taskVars, LoopHead
<1>4. c \notin completed
  BY <1>2, <1>3 DEF RunInv, RunsOK, HeldAlive, RunPoints, TaskPoints
<1>5. HandsOK(w)' /\ FreedDone'
  BY <1>2, <1>3 DEF LifeInv, HandsOK, FreedDone, RunPoints, TaskPoints, BegunStatus
<1>6. InResume(w) = c /\ InResume(w)' = None
  BY <1>2, <1>3, <1>4 DEF InResume
<1> HIDE DEF AllInv, TypeInv, TypeOK
<1>7. [v \in Workers |-> InResume(v)]' = [[v \in Workers |-> InResume(v)] EXCEPT ![w] = None]
  BY <1>1, <1>6, OneThread
<1>8. Lifecycle!Stop(w)
  BY <1>1, <1>2, <1>3, <1>6, <1>7 DEF Lifecycle!Stop, Ids, None
<1> QED
  BY <1>1, <1>2, <1>5, <1>8, StepMaps DEF Lives

LEMMA LivesCleanup ==
  ASSUME AllInv, NEW w \in Workers, Cleanup(w) PROVE Lives(w)
<1>1. WorkerStep(w) /\ dropped' = dropped
  BY DroppedKept DEF WorkerStep, RunLoop
<1>a. hold[w] \in Ids => \A v \in Workers \ {w} : InResume(v) # hold[w]
  BY Alone
<1> USE DEF AllInv, TypeInv, TypeOK
<1>2. PICK c \in Ids : c = hold[w]
  BY DEF Cleanup, Point, HandlerPoints, HoldOK
<1>3. /\ UNCHANGED <<st, cur>> /\ Point(w) = "cleanup" /\ completed' = completed \union {c}
      /\ Point(w)' \in {"top", "picked"} /\ hold'[w] = None
  BY <1>2 DEF Cleanup, Point, HandlerPoints, taskVars, LoopHead
<1>4. c \notin completed /\ st[c] = "COMPLETED"
  BY <1>2, <1>3 DEF RunInv, RunsOK, HeldAlive, RunPoints, TaskPoints, LifeInv, HandsOK
<1>5. HandsOK(w)' /\ FreedDone'
  BY <1>2, <1>3, <1>4 DEF LifeInv, HandsOK, FreedDone, RunPoints, TaskPoints
<1>6. InResume(w) = None /\ InResume(w)' = None
  BY <1>3 DEF InResume
<1> HIDE DEF AllInv, TypeInv, TypeOK
<1>7. [v \in Workers |-> InResume(v)]' = [v \in Workers |-> InResume(v)]
  BY <1>1, <1>6, OthersResume
<1>8. Lifecycle!Free(c)
  <2>1. c \notin Lifecycle!Running
    BY <1>a, <1>2, <1>6 DEF Lifecycle!Running, Ids, None
  <2> QED
    BY <1>1, <1>2, <1>3, <1>4, <1>7, <2>1 DEF Lifecycle!Free
<1> QED
  BY <1>1, <1>2, <1>5, <1>8, StepMaps DEF Lives

LEMMA LivesSwitch ==
  ASSUME AllInv, NEW w \in Workers, AlrmSwitches(w) \/ UrgPreempts(w) PROVE Lives(w)
<1>1. WorkerStep(w)
  BY DEF WorkerStep, RunLoop, Urg
<1> USE DEF AllInv, TypeInv, TypeOK
<1>2. PICK p \in Points : p = Point(w) /\ SwitchOut(w, p)
  <2>1. CASE AlrmSwitches(w)
    BY <2>1 DEF AlrmSwitches, Point, HandlerPoints, Points
  <2>2. CASE UrgPreempts(w)
    BY <2>2, SchedAssumption DEF UrgPreempts, Point, HandlerPoints, LoopPoints, TaskPoints,
       Points
  <2> QED
    BY <2>1, <2>2
<1>3. PICK c \in Ids : c = cur[w]
  BY DEF AlrmSwitches, UrgPreempts
<1>4. UNCHANGED <<cur, hold, completed>>
  BY DEF AlrmSwitches, UrgPreempts, markVars
<1>5. p \in {"entered", "returned"} \union TaskPoints
  <2>1. cur[w] # None
    BY <1>3 DEF Ids, None
  <2>2. Point(w) \in {"entered", "returned", "corrupt"} \union TaskPoints
    BY <2>1 DEF LifeInv, HandsOK
  <2> QED
    BY <1>2, <2>2 DEF Points, LoopPoints, TaskPoints
<1>6. c = hold[w] /\ st[c] \in BegunStatus
  BY <1>2, <1>3, <1>5 DEF RunInv, RunsOK, CurHeld, LifeInv, HandsOK, RunPoints
<1>7. st' = [st EXCEPT ![c] = IF @ = "COMPLETED" THEN @ ELSE "SUSPENDED"]
  BY <1>2, <1>3 DEF SwitchOut
<1>8. Point(w)' \in {"returned", "corrupt"}
  BY <1>2 DEF SwitchOut, Point, HandlerPoints
<1>9. HandsOK(w)' /\ FreedDone'
  <2>1. st'[c] \in BegunStatus
    BY <1>7 DEF BegunStatus
  <2>2. HandsOK(w)'
    BY <1>4, <1>6, <1>8, <2>1 DEF HandsOK, RunPoints, TaskPoints
  <2>3. FreedDone'
    BY <1>4, <1>7 DEF LifeInv, FreedDone
  <2> QED
    BY <2>2, <2>3
<1>10. InResume(w)' = InResume(w)
  BY <1>2, <1>4, <1>5, <1>8 DEF InResume, TaskPoints
<1>11. \A d \in Ids : SameStage(d)
  BY <1>6, <1>7 DEF SameStage, BegunStatus
<1> HIDE DEF AllInv, TypeInv, TypeOK
<1> QED
  BY <1>1, <1>4, <1>9, <1>10, <1>11, Stutters DEF Lives

LEMMA LifeWorker ==
  ASSUME AllInv, NEW w \in Workers, WorkerStep(w) PROVE LifeInv' /\ Maps
<1>1. Lives(w)
  <2>1. \/ IdleStep(w) \/ Take(w) \/ Resume(w) \/ Mark(w) \/ Enter(w) \/ Swap(w)
        \/ Finish(w) \/ LockStats(w) \/ Restore(w) \/ Leave(w) \/ Cleanup(w)
        \/ AlrmSwitches(w) \/ UrgPreempts(w)
    BY DEF WorkerStep, RunLoop, Urg, IdleStep
  <2> QED
    BY <2>1, LivesIdle, LivesTake, LivesResume, LivesInside, LivesFinish, LivesLeave,
       LivesCleanup, LivesSwitch
<1> QED
  BY <1>1, LifeElsewhere DEF Lives, LifeInv

---------------------------------------------------------------------------
(* The scheduler thread: it submits coroutines, and may drop one *)

\* The workers' part of the invariant and of the mapping.
LEMMA LifeAside ==
  ASSUME AllInv, Request \/ SchedulerStep
  PROVE  /\ (\A w \in Workers : HandsOK(w)') /\ FreedDone' /\ completed' = completed
         /\ [w \in Workers |-> InResume(w)]' = [w \in Workers |-> InResume(w)]
         /\ \A c \in Ids : st'[c] = st[c] \/ (st[c] = "NONE" /\ st'[c] = "PENDING")
<1> USE DEF AllInv, TypeInv, TypeOK
<1>1. UNCHANGED <<completed, hold, cur, pc, ret>>
  BY DEF Request, RequestNrt, RequestRt, SchedulerStep, Snapshot, Decide, Reject, Admit,
     Retry, Instantiate, InstantiateFails, NoteSchedulable, SpawnNrt, SpawnSchedulable,
     SpawnPreemptive, SetSlot, Signal, loopVars, markVars
<1>2. \A c \in Ids : st'[c] = st[c] \/ (st[c] = "NONE" /\ st'[c] = "PENDING")
  <2>1. CASE SpawnNrt
    BY <2>1 DEF SpawnNrt, OwnInv, Fresh, JobOK
  <2>2. CASE SpawnSchedulable \/ SpawnPreemptive
    BY <2>2 DEF SpawnSchedulable, SpawnPreemptive, OwnInv, Fresh, JobOK
  <2>3. CASE ~(SpawnNrt \/ SpawnSchedulable \/ SpawnPreemptive)
    BY <2>3 DEF Request, RequestNrt, RequestRt, SchedulerStep, Snapshot, Decide, Reject, Admit,
       Retry, Instantiate, InstantiateFails, NoteSchedulable, SetSlot, Signal, taskVars
  <2> QED
    BY <2>1, <2>2, <2>3
<1>3. \A w \in Workers : Point(w)' = Point(w)
  BY <1>1 DEF Point
<1>4. ASSUME NEW w \in Workers PROVE HandsOK(w)'
  <2>1. HandsOK(w)
    BY DEF LifeInv
  <2> QED
    BY <1>1, <1>2, <1>3, <2>1 DEF HandsOK, BegunStatus, HoldOK
<1>5. FreedDone'
  BY <1>1, <1>2 DEF LifeInv, FreedDone
<1>6. \A w \in Workers : InResume(w)' = InResume(w)
  BY <1>1, <1>3 DEF InResume
<1> QED
  BY <1>1, <1>2, <1>4, <1>5, <1>6

\* A coroutine that exists and is nowhere stays nowhere.
LEMMA NowhereStays ==
  ASSUME AllInv, Request \/ SchedulerStep, NEW c \in Ids, st[c] # "NONE",
         \A k \in Kinds, w \in Workers : ~Zone(c, k, w)
  PROVE  \A k \in Kinds, w \in Workers : ~Zone(c, k, w)'
<1> USE DEF AllInv, TypeInv, TypeOK, Zone, Kinds, Owned, schedulerVars, loopVars, queueVars
<1>1. 0 \in Workers
  BY DEF Workers
<1>2. CASE SpawnNrt
  <2>1. nextId \in Ids /\ nextId # c
    BY <1>2 DEF SpawnNrt, JobOK, OwnInv, Fresh
  <2>2. ToSet(gq') = ToSet(gq) \union {nextId}
    BY <1>2, <2>1, AppendRange DEF SpawnNrt
  <2>3. spc' = "idle" /\ UNCHANGED <<rtq, slot, newq, suspq, rt, curr, cur, hold>>
    BY <1>2 DEF SpawnNrt, Done
  <2> HIDE DEF AllInv, TypeInv, TypeOK
  <2> QED
    BY <1>1, <2>1, <2>2, <2>3
<1>3. CASE SpawnSchedulable \/ SpawnPreemptive
  <2>1. job # c
    BY <1>3 DEF SpawnSchedulable, SpawnPreemptive, OwnInv, Fresh
  <2>2. Home(job) \in Workers
    BY <1>3, HomeInWorkers DEF SpawnSchedulable, SpawnPreemptive, JobOK
  <2>3. /\ UNCHANGED <<job, gq, slot, newq, suspq, rt, curr, cur, hold>>
        /\ rtq' = rtq \/ rtq' = [rtq EXCEPT ![Home(job)] = @ \union {job}]
    <3>1. CASE SpawnSchedulable
      BY <3>1 DEF SpawnSchedulable
    <3>2. CASE SpawnPreemptive
      BY <3>2 DEF SpawnPreemptive
    <3> QED
      BY <1>3, <3>1, <3>2
  <2>a. rtq \in [Workers -> SUBSET Ids]
    OBVIOUS
  <2>4. \A w \in Workers : c \in rtq'[w] => c \in rtq[w]
    BY ONLY <2>1, <2>2, <2>3, <2>a
  <2> HIDE DEF AllInv, TypeInv, TypeOK
  <2> QED
    BY <2>1, <2>3, <2>4
<1>4. CASE SetSlot
  <2>1. job # c /\ Home(job) \in Workers
    BY <1>1, <1>4, HomeInWorkers DEF SetSlot, JobOK
  <2> QED
    BY <1>1, <1>4, <2>1 DEF SetSlot
<1>5. CASE ~(SpawnNrt \/ SpawnSchedulable \/ SpawnPreemptive \/ SetSlot)
  <2>1. UNCHANGED <<gq, rtq, slot, newq, suspq, rt, curr, cur, hold>> /\ spc' # "slot"
    BY <1>5 DEF Request, RequestNrt, RequestRt, SchedulerStep, Snapshot, Decide, Reject, Admit,
       Retry, Instantiate, InstantiateFails, NoteSchedulable, Signal, Done
  <2> QED
    BY <2>1
<1> QED
  BY <1>2, <1>3, <1>4, <1>5

LEMMA HandZone ==
  ASSUME spc = "slot" PROVE Zone(job, "hand", 0) /\ "hand" \in Kinds /\ 0 \in Workers
  BY DEF Zone, Kinds, Workers

LEMMA LifeScheduler ==
  ASSUME AllInv, Request \/ SchedulerStep PROVE LifeInv'
<1>1. HandFresh'
  <2> USE DEF AllInv, TypeInv, TypeOK
  <2>1. CASE SpawnPreemptive
    BY <2>1 DEF SpawnPreemptive, HandFresh, JobOK
  <2>2. CASE ~SpawnPreemptive
    <3>1. spc' # "slot"
      BY <2>2 DEF Request, RequestNrt, RequestRt, SchedulerStep, Snapshot, Decide, Reject, Admit,
         Retry, Instantiate, InstantiateFails, NoteSchedulable, SpawnNrt, SpawnSchedulable,
         SetSlot, Signal, Done
    <3> QED
      BY <3>1 DEF HandFresh
  <2> QED
    BY <2>1, <2>2
<1>2. DroppedOut'
  <2>1. SUFFICES ASSUME NEW c \in dropped'
                 PROVE  st'[c] = "PENDING" /\ \A k \in Kinds, w \in Workers : ~Zone(c, k, w)'
    BY DEF DroppedOut
  <2>2. CASE c \in dropped
    <3>1. c \in Ids /\ st[c] = "PENDING" /\ \A k \in Kinds, w \in Workers : ~Zone(c, k, w)
      BY <2>2 DEF AllInv, TypeInv, TypeOK, LifeInv, DroppedOut
    <3>2. st'[c] = "PENDING"
      BY <3>1, LifeAside
    <3> QED
      BY <3>1, <3>2, NowhereStays
  <2>3. CASE c \notin dropped
    <3> USE DEF AllInv, TypeInv, TypeOK
    <3>1. SetSlot /\ c = job /\ dropped' # dropped
      BY <2>3 DEF Request, RequestNrt, RequestRt, SchedulerStep, Snapshot, Decide, Reject, Admit,
         Retry, Instantiate, InstantiateFails, NoteSchedulable, SpawnNrt, SpawnSchedulable,
         SpawnPreemptive, SetSlot, Signal, schedulerVars
    <3>2. /\ c \in Ids /\ spc = "slot" /\ spc' = "signal"
          /\ UNCHANGED <<st, gq, rtq, slot, newq, suspq, rt, curr, cur, hold>>
      BY <3>1 DEF SetSlot, JobOK, taskVars, queueVars, loopVars
    <3>3. st'[c] = "PENDING"
      BY <3>1, <3>2 DEF LifeInv, HandFresh
    <3>4. \A k \in Kinds \ {"hand"}, w \in Workers : ~Zone(c, k, w)
      BY <3>1, <3>2, HandZone DEF OwnInv, Exclusive
    <3> HIDE DEF AllInv, TypeInv, TypeOK
    <3>5. \A k \in Kinds, w \in Workers : Zone(c, k, w)' => k # "hand" /\ Zone(c, k, w)
      BY <3>2 DEF Zone, Owned
    <3> QED
      BY <3>3, <3>4, <3>5
  <2> QED
    BY <2>2, <2>3
<1> QED
  BY <1>1, <1>2, LifeAside DEF LifeInv

\* A coroutine is made: Submit.
LEMMA SubmitMaps ==
  ASSUME AllInv, Request \/ SchedulerStep, NEW c \in Ids, st[c] = "NONE",
         st' = [st EXCEPT ![c] = "PENDING"], dropped' = dropped
  PROVE  Maps
<1>1. st \in [Ids -> CoStatus]
  BY DEF AllInv, TypeInv, TypeOK
<1>2. /\ {d \in Ids : st'[d] # "NONE"} = {d \in Ids : st[d] # "NONE"} \union {c}
      /\ {d \in Ids : st'[d] \in BegunStatus} = {d \in Ids : st[d] \in BegunStatus}
      /\ {d \in Ids : st'[d] = "COMPLETED"} = {d \in Ids : st[d] = "COMPLETED"}
      /\ c \notin {d \in Ids : st[d] # "NONE"}
  BY <1>1 DEF BegunStatus
<1>3. Lifecycle!Submit(c)
  BY <1>2, LifeAside DEF Lifecycle!Submit, BegunStatus
<1>4. 0 \in Workers
  BY DEF Workers
<1> QED
  BY <1>3, <1>4, StepMaps

LEMMA SchedulerMaps ==
  ASSUME AllInv, Request \/ SchedulerStep PROVE Maps
<1>1. CASE SpawnNrt
  <2>1. nextId \in Ids /\ st[nextId] = "NONE" /\ dropped' = dropped
        /\ st' = [st EXCEPT ![nextId] = "PENDING"]
    BY <1>1 DEF SpawnNrt, AllInv, TypeInv, TypeOK, JobOK, OwnInv, Fresh
  <2> QED
    BY <2>1, SubmitMaps
<1>2. CASE SpawnSchedulable \/ SpawnPreemptive
  <2>1. job \in Ids /\ st[job] = "NONE" /\ dropped' = dropped
        /\ st' = [st EXCEPT ![job] = "PENDING"]
    BY <1>2 DEF SpawnSchedulable, SpawnPreemptive, AllInv, TypeInv, TypeOK, JobOK, OwnInv, Fresh
  <2> QED
    BY <2>1, SubmitMaps
<1>3. CASE SetSlot /\ dropped' # dropped
  <2>1. dropped' = dropped \union {job} /\ st' = st /\ spc = "slot" /\ job \in Ids
    BY <1>3 DEF SetSlot, taskVars, AllInv, TypeInv, JobOK
  <2>2. st[job] = "PENDING" /\ job \notin dropped
    BY <2>1, HandZone DEF AllInv, LifeInv, HandFresh, DroppedOut
  <2>3. Lifecycle!Lose(job)
    BY <2>1, <2>2, LifeAside DEF Lifecycle!Lose, BegunStatus
  <2>4. 0 \in Workers
    BY DEF Workers
  <2> QED
    BY <2>1, <2>3, <2>4, StepMaps
<1>4. CASE st' = st /\ dropped' = dropped
  BY <1>4, LifeAside DEF Maps, Lifecycle!vars
<1> QED
  BY <1>1, <1>2, <1>3, <1>4 DEF Request, RequestNrt, RequestRt, SchedulerStep, Snapshot,
     Decide, Reject, Admit, Retry, Instantiate, InstantiateFails, NoteSchedulable, SetSlot,
     Signal, taskVars, schedulerVars

---------------------------------------------------------------------------
LEMMA LifeInit == Init => LifeInv /\ Lifecycle!Init
<1>1. Init => \A w \in Workers : InResume(w) = None
  BY DEF Init, InResume
<1>2. Init => LifeInv
  BY DEF Init, LifeInv, HandsOK, FreedDone, HandFresh, DroppedOut, Point, HandlerPoints,
     RunPoints, TaskPoints
<1> QED
  BY <1>1, <1>2 DEF Init, Lifecycle!Init

LEMMA LifeStutter == ASSUME LifeInv, UNCHANGED vars PROVE LifeInv'
  BY DEF LifeInv, HandsOK, FreedDone, HandFresh, DroppedOut, Zone, Owned, Point, vars,
     requestVars, schedulerVars, markVars, loopVars, queueVars, taskVars

\* In every state the hands of run_co, the freed and the dropped coroutines are
\* at the stage of their life that their place says.
THEOREM Stages == Spec => []AllInv
<1>1. AllInv /\ [Next]_vars => LifeInv'
  BY LifeWorker, LifeScheduler, LifeStutter DEF Next, AllInv
<1> QED
  BY <1>1, LifeInit, NeverAgain, PTL DEF Spec, AllInv

\* The scheduling core implements TaskLifecycle: every step of its threads
\* and handlers is a step of a task's life or none, wherever signals strike.
THEOREM Refines == Spec => RunsOnce
<1>1. AllInv /\ [Next]_vars => [Lifecycle!Next]_(Lifecycle!vars)
  <2>1. ASSUME UNCHANGED vars PROVE UNCHANGED Lifecycle!vars
    BY <2>1 DEF vars, requestVars, schedulerVars, markVars, loopVars, queueVars, taskVars,
       Lifecycle!vars, InResume, Point
  <2> QED
    BY <2>1, LifeWorker, SchedulerMaps DEF Next, Maps
<1> QED
  BY <1>1, LifeInit, Stages, PTL DEF Spec, RunsOnce, Lifecycle!Spec
=============================================================================
