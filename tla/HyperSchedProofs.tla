-------------------------- MODULE HyperSchedProofs --------------------------
(***************************************************************************)
(* What holds of the scheduling core for every number of workers, ids,     *)
(* deadlines, every capacity, with or without a timer, and wherever        *)
(* signals are delivered.                                                  *)
(***************************************************************************)
EXTENDS HyperSched, TLAPS

USE SchedAssumption

\* The request in hand has an id from admission on; a task without a deadline
\* gets the next one, which is still within bounds.
JobOK ==
    /\ spc \in {"admit", "judge", "note", "slot", "signal"} => job \in Ids
    /\ spc \in {"instantiate", "spawn"} =>
        IF verdict = "NOTREALTIME" THEN nextId \in Ids ELSE job \in Ids

\* Where run_co is at work there is a coroutine in its hands, and where curr
\* is about to be taken there is one in curr.
HoldOK ==
    \A w \in Workers :
        /\ Point(w) \in {"resume", "mark", "enter", "entered", "returned", "cleanup"}
                        \union TaskPoints => hold[w] \in Ids
        /\ Point(w) = "picked" => curr[w] \in Ids

TypeInv == TypeOK /\ JobOK /\ HoldOK

LEMMA HomeInWorkers == ASSUME NEW c \in Ids \union {None} PROVE Home(c) \in Workers
  BY DEF Home, Workers, Ids, None

LEMMA TypeInit == Init => TypeInv
  BY DEF Init, TypeInv, TypeOK, JobOK, HoldOK, Point, EmptyBoard, BoardEntry, CoStatus,
     Verdicts, ControlPoints, LoopPoints, TaskPoints, HandlerPoints, Ids, None, NotRealtime

\* The steps of the scheduler thread leave the workers' control alone.
LEMMA TypeScheduler == ASSUME TypeInv, Request \/ SchedulerStep PROVE TypeInv'
<1> USE DEF TypeInv, TypeOK, JobOK, HoldOK, Point, requestVars, schedulerVars, loopVars,
        queueVars, taskVars, markVars
<1>1. CASE RequestNrt
  BY <1>1 DEF RequestNrt, Ids, Verdicts
<1>2. ASSUME NEW d \in Deadlines, RequestRt(d) PROVE TypeInv'
  BY <1>2 DEF RequestRt, Ids
<1>3. CASE Snapshot
  BY <1>3, HomeInWorkers DEF Snapshot
<1>4. CASE Reject
  BY <1>4 DEF Reject, EmptyBoard, BoardEntry
<1>5. ASSUME NEW v \in Verdicts, Admit(v) PROVE TypeInv'
  BY <1>5 DEF Admit, Allowed, EmptyBoard, BoardEntry
<1>6. CASE Retry
  BY <1>6 DEF Retry, EmptyBoard, BoardEntry
<1>7. CASE Instantiate
  BY <1>7 DEF Instantiate
<1>8. CASE InstantiateFails
  BY <1>8 DEF InstantiateFails, Verdicts
<1>9. CASE SpawnNrt
  BY <1>9 DEF SpawnNrt, Done, Ids, CoStatus, Verdicts
<1>10. CASE SpawnSchedulable
  BY <1>10, HomeInWorkers DEF SpawnSchedulable, CoStatus
<1>11. CASE NoteSchedulable
  BY <1>11, HomeInWorkers DEF NoteSchedulable, UpdateStatus, Done, BoardEntry, Verdicts
<1>12. CASE SpawnPreemptive
  BY <1>12, HomeInWorkers DEF SpawnPreemptive, UpdateStatus, CoStatus, BoardEntry
<1>13. CASE SetSlot
  <2>1. Home(job) \in Workers
    <3>1. job \in Ids \union {None}
      BY <1>13 DEF SetSlot
    <3> QED
      BY <3>1, HomeInWorkers, Zenon
  <2>2. slot' \in [Workers -> Ids \union {None}] /\ dropped' \subseteq Ids
    <3>1. slot \in [Workers -> Ids \union {None}] /\ dropped \subseteq Ids /\ job \in Ids
      BY <1>13 DEF SetSlot
    <3> QED
      BY ONLY <1>13, <2>1, <3>1 DEF SetSlot
  <2>3. UNCHANGED <<nextId, job, verdict, snap, ddl, gq, rtq, board, urg, markVars, loopVars,
                    queueVars, taskVars>> /\ spc' = "signal" /\ spc = "slot"
    BY <1>13 DEF SetSlot
  <2> QED
    BY <2>2, <2>3
<1>14. CASE Signal
  BY <1>14, HomeInWorkers DEF Signal, Done, Verdicts
<1> QED
  BY <1>1, <1>2, <1>3, <1>4, <1>5, <1>6, <1>7, <1>8, <1>9, <1>10, <1>11, <1>12, <1>13,
     <1>14 DEF Request, SchedulerStep, Decide

\* The pieces worker steps are made of.
LEMMA EarliestInside == ASSUME NEW S, NEW c \in Earliest(S) PROVE c \in S
  BY DEF Earliest

\* set_curr leaves well-formed queues, and never empties curr.
LEMMA TypeSetCurr ==
  ASSUME TypeOK, NEW w \in Workers, NEW tail \in Seq(Ids), SetCurr(w, tail)
  PROVE  /\ curr' \in [Workers -> Ids \union {None}]
         /\ rt' \in [Workers -> SUBSET Ids]
         /\ newq' \in [Workers -> Seq(Ids)]
         /\ suspq' \in [Workers -> Seq(Ids)]
         /\ \A v \in Workers \ {w} : curr'[v] = curr[v]
         /\ curr[w] \in Ids => curr'[w] \in Ids
<1> USE DEF TypeOK
<1>1. CASE ChooseRealtime(w, tail)
  BY <1>1, EarliestInside DEF ChooseRealtime
<1>2. CASE ChooseNew(w, tail)
  <2>1. Head(newq[w]) \in Ids /\ Tail(newq[w]) \in Seq(Ids)
    BY <1>2 DEF ChooseNew
  <2> QED
    BY <1>2, <2>1 DEF ChooseNew
<1>3. CASE ChooseSuspended(w, tail)
  <2>1. Head(suspq[w]) \in Ids /\ Tail(suspq[w]) \o tail \in Seq(Ids)
    BY <1>3 DEF ChooseSuspended
  <2> QED
    BY <1>3, <2>1 DEF ChooseSuspended
<1>4. CASE ChooseNothing(w, tail)
  BY <1>4 DEF ChooseNothing
<1> QED
  BY <1>1, <1>2, <1>3, <1>4 DEF SetCurr

\* suspend leaves a well-formed status, board and context.
LEMMA TypeSwitchOut ==
  ASSUME TypeOK, NEW w \in Workers, NEW p, cur[w] \in Ids, SwitchOut(w, p)
  PROVE  /\ st' \in [Ids -> CoStatus]
         /\ board' \in [Workers -> [Ids -> BoardEntry]]
         /\ at' \in [Ids -> TaskPoints]
         /\ \/ pc' = [pc EXCEPT ![w] = "returned"] /\ p \in TaskPoints
            \/ pc' = [pc EXCEPT ![w] = "corrupt"]
<1>1. st' \in [Ids -> CoStatus] /\ st'[cur[w]] \in {"COMPLETED", "SUSPENDED"}
  BY DEF TypeOK, SwitchOut, CoStatus
<1>2. board' \in [Workers -> [Ids -> BoardEntry]]
  BY <1>1 DEF TypeOK, SwitchOut, UpdateStatus, BoardEntry
<1>3. /\ at' \in [Ids -> TaskPoints]
      /\ \/ pc' = [pc EXCEPT ![w] = "returned"] /\ p \in TaskPoints
         \/ pc' = [pc EXCEPT ![w] = "corrupt"]
  BY DEF TypeOK, SwitchOut
<1> QED
  BY <1>1, <1>2, <1>3

LEMMA LoopHeadType ==
  ASSUME NEW c \in Ids \union {None}
  PROVE  \/ LoopHead(c) = "top"
         \/ LoopHead(c) = "picked" /\ c \in Ids
  BY DEF LoopHead

\* A worker never touches the request in hand.
LEMMA WorkerKeepsRequest ==
  ASSUME NEW w \in Workers, WorkerStep(w) PROVE UNCHANGED requestVars
  BY DEF WorkerStep, RunLoop, Finish, Urg, Alrm, UrgIgnored, UrgInLoop, UrgPreempts,
     Boot, LoopGet, FetchRealtime, FetchRealtimeEnds, FetchGlobal, FetchGlobalEnds, Pick,
     Take, Resume, Mark, Enter, Swap, LockStats, Restore, Leave, Cleanup, AlrmReturns,
     AlrmInLoop, AlrmSwitches

\* Control after a step of worker w: what HoldOK needs to know of it.
LEMMA HoldKept ==
  ASSUME TypeOK, HoldOK, NEW w \in Workers, NEW p \in ControlPoints \ HandlerPoints,
         pc' = [pc EXCEPT ![w] = p],
         \A v \in Workers \ {w} : ret'[v] = ret[v] /\ hold'[v] = hold[v] /\ curr'[v] = curr[v],
         p = "picked" => curr'[w] \in Ids,
         p \in {"resume", "mark", "enter", "entered", "returned", "cleanup"} \union TaskPoints
            => hold'[w] \in Ids
  PROVE  HoldOK'
<1> USE DEF HoldOK, Point
<1>1. ASSUME NEW v \in Workers \ {w}
      PROVE  /\ pc'[v] = pc[v] /\ ret'[v] = ret[v]
             /\ hold'[v] = hold[v] /\ curr'[v] = curr[v]
  BY DEF TypeOK
<1>2. pc'[w] = p
  BY DEF TypeOK
<1> QED
  BY <1>1, <1>2

LEMMA Controls ==
  /\ \A p \in {"resume", "corrupt", "returned", "cleanup", "top", "picked"} :
        p \in ControlPoints /\ p \notin HandlerPoints
  /\ \A p \in {"corrupt", "resume", "returned", "cleanup", "top", "picked"} : p \notin TaskPoints
  /\ \A p \in LoopPoints \union TaskPoints : p \in ControlPoints /\ p \notin HandlerPoints
  BY DEF ControlPoints, LoopPoints, TaskPoints, HandlerPoints

LEMMA TypeRunLoop ==
  ASSUME TypeInv, NEW w \in Workers, RunLoop(w) PROVE TypeInv'
<1> USE DEF TypeInv
<1>a. JobOK'
  BY WorkerKeepsRequest DEF JobOK, WorkerStep, requestVars
<1> USE DEF requestVars, schedulerVars, loopVars, queueVars, taskVars, markVars
<1>1. CASE Boot(w)
  BY <1>1, <1>a DEF Boot, TypeOK, HoldOK, Point, ControlPoints, LoopPoints,
     TaskPoints, HandlerPoints
<1>2. CASE LoopGet(w)
  BY <1>2, <1>a DEF LoopGet, TypeOK, HoldOK, Point, ControlPoints, LoopPoints,
     TaskPoints, HandlerPoints
<1>3. CASE FetchRealtime(w)
  BY <1>3, <1>a, EarliestInside DEF FetchRealtime, TypeOK, HoldOK, Point, ControlPoints, LoopPoints,
     TaskPoints, HandlerPoints
<1>4. CASE FetchRealtimeEnds(w)
  BY <1>4, <1>a DEF FetchRealtimeEnds, TypeOK, HoldOK, Point, ControlPoints, LoopPoints,
     TaskPoints, HandlerPoints
<1>5. CASE FetchGlobal(w)
  BY <1>5, <1>a DEF FetchGlobal, TypeOK, HoldOK, Point, ControlPoints, LoopPoints,
     TaskPoints, HandlerPoints
<1>6. CASE FetchGlobalEnds(w)
  BY <1>6, <1>a DEF FetchGlobalEnds, TypeOK, HoldOK, Point, ControlPoints, LoopPoints,
     TaskPoints, HandlerPoints
<1>7. CASE Pick(w)
  <2>1. <<>> \in Seq(Ids)
    OBVIOUS
  <2>2. /\ curr' \in [Workers -> Ids \union {None}]
        /\ rt' \in [Workers -> SUBSET Ids]
        /\ newq' \in [Workers -> Seq(Ids)]
        /\ suspq' \in [Workers -> Seq(Ids)]
        /\ \A v \in Workers \ {w} : curr'[v] = curr[v]
    BY <1>7, <2>1, TypeSetCurr DEF Pick
  <2>3. PICK p \in {"top", "picked"} :
          /\ pc' = [pc EXCEPT ![w] = p] /\ (p = "picked" => curr'[w] \in Ids)
          /\ p \in ControlPoints
    BY <1>7, <2>2, LoopHeadType, Controls DEF Pick
  <2>4. TypeOK'
    <3>1. UNCHANGED <<requestVars, schedulerVars, markVars, cur, hold, ret, len, taskVars>>
      BY <1>7 DEF Pick
    <3> QED
      BY <2>2, <2>3, <3>1 DEF TypeOK
  <2> QED
    BY <1>7, <1>a, <2>2, <2>3, <2>4, HoldKept, Controls DEF Pick, TypeOK
<1>8. CASE Take(w)
  <2>1. curr[w] \in Ids
    BY <1>8 DEF Take, HoldOK, Point, HandlerPoints, TaskPoints
  <2>2. PICK s : s \in CoStatus /\ (st' = st \/ st' = [st EXCEPT ![curr[w]] = s])
    BY <1>8, <2>1 DEF Take, TypeOK, CoStatus
  <2>3. PICK p \in {"corrupt", "resume"} :
          pc' = [pc EXCEPT ![w] = p] /\ p \in ControlPoints
    BY <1>8, Controls DEF Take
  <2>4. TypeOK'
    <3>1. st' \in [Ids -> CoStatus]
      BY <2>2 DEF TypeOK
    <3>2. hold' = [hold EXCEPT ![w] = curr[w]] /\ curr' = [curr EXCEPT ![w] = None]
      BY <1>8 DEF Take
    <3>3. UNCHANGED <<requestVars, schedulerVars, markVars, cur, ret, queueVars, at, latency>>
      BY <1>8 DEF Take
    <3> QED
      BY <2>1, <2>3, <3>1, <3>2, <3>3 DEF TypeOK
  <2> QED
    <3>1. /\ hold' = [hold EXCEPT ![w] = curr[w]] /\ curr' = [curr EXCEPT ![w] = None]
          /\ UNCHANGED ret
      BY <1>8 DEF Take
    <3>2. HoldOK'
      BY <2>1, <2>3, <3>1, HoldKept, Controls DEF TypeOK
    <3> QED
      BY <1>a, <2>4, <3>2
<1>9. CASE Resume(w)
  <2>1. TypeOK'
    BY <1>9 DEF Resume, UpdateStatus, CoStatus, BoardEntry, TypeOK, HoldOK, Point,
       ControlPoints, LoopPoints, TaskPoints, HandlerPoints
  <2>2. HoldOK'
    BY <1>9 DEF Resume, TypeOK, HoldOK, Point, ControlPoints, LoopPoints, TaskPoints,
       HandlerPoints
  <2> QED
    BY <1>a, <2>1, <2>2
<1>10. CASE Mark(w)
  BY <1>10, <1>a DEF Mark, TypeOK, HoldOK, Point, ControlPoints, LoopPoints,
     TaskPoints, HandlerPoints
<1>11. CASE Enter(w)
  BY <1>11, <1>a DEF Enter, TypeOK, HoldOK, Point, ControlPoints, LoopPoints,
     TaskPoints, HandlerPoints
<1>12. CASE Swap(w)
  <2>1. TypeOK'
    BY <1>12 DEF Swap, TypeOK, HoldOK, Point, ControlPoints, LoopPoints, TaskPoints,
       HandlerPoints
  <2>2. HoldOK'
    BY <1>12 DEF Swap, TypeOK, HoldOK, Point, ControlPoints, LoopPoints, TaskPoints,
       HandlerPoints
  <2> QED
    BY <1>a, <2>1, <2>2
<1>13. CASE LockStats(w)
  BY <1>13, <1>a DEF LockStats, TypeOK, HoldOK, Point, ControlPoints, LoopPoints,
     TaskPoints, HandlerPoints
<1>14. CASE Restore(w)
  BY <1>14, <1>a DEF Restore, TypeOK, HoldOK, Point, ControlPoints, LoopPoints,
     TaskPoints, HandlerPoints
<1>15. CASE Leave(w)
  <2>1. PICK p \in {"cleanup", "top", "picked"} :
          /\ pc' = [pc EXCEPT ![w] = p] /\ p \in ControlPoints
          /\ p = "picked" => curr[w] \in Ids
          /\ \/ p = "cleanup" /\ hold' = hold
             \/ p # "cleanup" /\ hold' = [hold EXCEPT ![w] = None]
    BY <1>15, LoopHeadType, Controls DEF Leave, TypeOK
  <2>2. hold[w] \in Ids
    BY <1>15 DEF Leave, HoldOK, Point, HandlerPoints, TaskPoints
  <2>3. TypeOK'
    BY <1>15, <2>1, Controls DEF Leave, TypeOK
  <2> QED
    BY <1>15, <1>a, <2>1, <2>2, <2>3, HoldKept, Controls DEF Leave, TypeOK
<1>16. CASE Cleanup(w)
  <2>1. hold[w] \in Ids
    BY <1>16 DEF Cleanup, HoldOK, Point, HandlerPoints, TaskPoints
  <2>2. board' \in [Workers -> [Ids -> BoardEntry]]
    BY <1>16 DEF Cleanup, UpdateStatus, BoardEntry, TypeOK
  <2>3. PICK p \in {"top", "picked"} :
          /\ pc' = [pc EXCEPT ![w] = p] /\ (p = "picked" => curr[w] \in Ids)
          /\ p \in ControlPoints
    BY <1>16, LoopHeadType, Controls DEF Cleanup, TypeOK
  <2>4. TypeOK'
    <3>1. /\ len' = [len EXCEPT ![w] = @ - 1]
          /\ completed' = completed \union {hold[w]}
          /\ hold' = [hold EXCEPT ![w] = None]
      BY <1>16 DEF Cleanup
    <3>2. UNCHANGED <<requestVars, gq, rtq, slot, dropped, urg, runningId, curr, cur, ret,
                      newq, suspq, rt, taskVars>>
      BY <1>16 DEF Cleanup
    <3> QED
      BY <2>1, <2>2, <2>3, <3>1, <3>2 DEF TypeOK
  <2> QED
    <3>1. hold' = [hold EXCEPT ![w] = None] /\ UNCHANGED <<curr, ret>>
      BY <1>16 DEF Cleanup
    <3>2. HoldOK'
      BY <2>3, <3>1, HoldKept, Controls DEF TypeOK
    <3> QED
      BY <1>a, <2>4, <3>2
<1>17. CASE AlrmReturns(w)
  BY <1>17, <1>a DEF AlrmReturns, TypeOK, HoldOK, Point, ControlPoints, LoopPoints,
     TaskPoints, HandlerPoints
<1>18. CASE AlrmInLoop(w)
  <2>1. <<>> \in Seq(Ids)
    OBVIOUS
  <2>2. /\ curr' \in [Workers -> Ids \union {None}]
        /\ rt' \in [Workers -> SUBSET Ids]
        /\ newq' \in [Workers -> Seq(Ids)]
        /\ suspq' \in [Workers -> Seq(Ids)]
        /\ \A v \in Workers \ {w} : curr'[v] = curr[v]
        /\ curr[w] \in Ids => curr'[w] \in Ids
    BY <1>18, <2>1, TypeSetCurr DEF AlrmInLoop
  <2>3. PICK p \in LoopPoints \union TaskPoints :
          /\ pc' = [pc EXCEPT ![w] = p] /\ p \in ControlPoints
          /\ p = "picked" => curr'[w] \in Ids
          /\ p = ret[w] \/ p \in {"top", "picked"}
    BY <1>18, <2>2, LoopHeadType, Controls DEF AlrmInLoop, BackTo, TypeOK, HoldOK, Point, ControlPoints, LoopPoints,
     TaskPoints, HandlerPoints
  <2>4. TypeOK'
    <3>1. ret' \in [Workers -> LoopPoints \union TaskPoints]
      BY <1>18 DEF AlrmInLoop, TypeOK, LoopPoints
    <3> QED
      BY <1>18, <2>2, <2>3, <3>1 DEF AlrmInLoop, TypeOK
  <2>5. p \in {"resume", "mark", "enter", "entered", "returned", "cleanup"} \union TaskPoints
          => hold'[w] \in Ids
    BY <1>18, <2>3 DEF AlrmInLoop, HoldOK, Point, HandlerPoints, TaskPoints
  <2> QED
    BY <1>18, <1>a, <2>2, <2>3, <2>4, <2>5, HoldKept, Controls DEF AlrmInLoop, TypeOK
<1>19. CASE AlrmSwitches(w)
  <2>1. cur[w] \in Ids /\ <<cur[w]>> \in Seq(Ids)
    BY <1>19 DEF AlrmSwitches, TypeOK
  <2>2. /\ curr' \in [Workers -> Ids \union {None}]
        /\ rt' \in [Workers -> SUBSET Ids]
        /\ newq' \in [Workers -> Seq(Ids)]
        /\ suspq' \in [Workers -> Seq(Ids)]
        /\ \A v \in Workers \ {w} : curr'[v] = curr[v]
    BY <1>19, <2>1, TypeSetCurr DEF AlrmSwitches
  <2>3. /\ st' \in [Ids -> CoStatus]
        /\ board' \in [Workers -> [Ids -> BoardEntry]]
        /\ at' \in [Ids -> TaskPoints]
        /\ \/ pc' = [pc EXCEPT ![w] = "returned"] /\ ret[w] \in TaskPoints
           \/ pc' = [pc EXCEPT ![w] = "corrupt"]
    BY <1>19, <2>1, TypeSwitchOut DEF AlrmSwitches
  <2>4. TypeOK'
    <3>1. pc' \in [Workers -> ControlPoints]
      <4>1. "returned" \in ControlPoints /\ "corrupt" \in ControlPoints
        BY DEF ControlPoints, LoopPoints
      <4> QED
        BY <2>3, <4>1 DEF TypeOK
    <3>2. ret' \in [Workers -> LoopPoints \union TaskPoints]
      BY <1>19 DEF AlrmSwitches, TypeOK, LoopPoints
    <3> QED
      BY <1>19, <2>2, <2>3, <3>1, <3>2 DEF AlrmSwitches, TypeOK
  <2>5. ret[w] \in TaskPoints => hold[w] \in Ids
    BY <1>19 DEF AlrmSwitches, HoldOK, Point, HandlerPoints, TaskPoints
  <2>6. PICK p \in {"returned", "corrupt"} :
          pc' = [pc EXCEPT ![w] = p] /\ (p = "returned" => hold[w] \in Ids)
    BY <2>3, <2>5
  <2> QED
    BY <1>19, <1>a, <2>2, <2>4, <2>6, HoldKept, Controls DEF AlrmSwitches, TypeOK
<1> QED
  BY <1>a, <1>1, <1>2, <1>3, <1>4, <1>5, <1>6, <1>7, <1>8, <1>9, <1>10, <1>11, <1>12, <1>13,
     <1>14, <1>15, <1>16, <1>17, <1>18, <1>19 DEF RunLoop

LEMMA TypeSignals ==
  ASSUME TypeInv, NEW w \in Workers, Finish(w) \/ Urg(w) \/ Alrm(w) PROVE TypeInv'
<1> USE DEF TypeInv, requestVars, schedulerVars, loopVars, queueVars, taskVars, markVars
<1>a. JobOK'
  BY WorkerKeepsRequest DEF JobOK, WorkerStep
<1>b. SignalPoints \subseteq LoopPoints \union TaskPoints
  OBVIOUS
<1>1. CASE Finish(w)
  BY <1>1, <1>a DEF Finish, TypeOK, HoldOK, Point, CoStatus, ControlPoints, TaskPoints, HandlerPoints
<1>2. CASE UrgIgnored(w)
  BY <1>2, <1>a DEF UrgIgnored, TypeOK, HoldOK, Point
<1>3. CASE UrgInLoop(w)
  <2>1. /\ curr' = [curr EXCEPT ![w] = slot[w]] /\ slot[w] \in Ids
        /\ slot' = [slot EXCEPT ![w] = None] /\ len' = [len EXCEPT ![w] = @ + 1]
        /\ urg' = [urg EXCEPT ![w] = FALSE]
    BY <1>3 DEF UrgInLoop, TakeSlot, TypeOK
  <2>2. PICK p \in LoopPoints \union TaskPoints :
          /\ pc' = [pc EXCEPT ![w] = p] /\ p \in ControlPoints \ HandlerPoints
          /\ p = pc[w] \/ p \in {"top", "picked"}
    BY <1>3, <1>b, <2>1, LoopHeadType, Controls DEF UrgInLoop, BackTo, TypeOK, LoopPoints
  <2>3. UNCHANGED <<requestVars, gq, rtq, board, dropped, markVars, cur, hold, ret, newq,
                    suspq, rt, taskVars>>
    BY <1>3 DEF UrgInLoop
  <2>4. TypeOK'
    BY <2>1, <2>2, <2>3 DEF TypeOK
  <2>5. p \in {"resume", "mark", "enter", "entered", "returned", "cleanup"} \union TaskPoints
          => hold'[w] \in Ids
    BY <2>2, <2>3 DEF HoldOK, Point, TaskPoints, HandlerPoints
  <2>6. HoldOK'
    BY <2>1, <2>2, <2>3, <2>5, HoldKept DEF TypeOK
  <2> QED
    BY <1>a, <2>4, <2>6
<1>4. CASE UrgPreempts(w)
  <2>1. /\ curr' = [curr EXCEPT ![w] = slot[w]] /\ slot[w] \in Ids
        /\ slot' = [slot EXCEPT ![w] = None] /\ len' = [len EXCEPT ![w] = @ + 1]
        /\ urg' = [urg EXCEPT ![w] = FALSE]
        /\ cur[w] \in Ids /\ pc[w] \in SignalPoints
    BY <1>4 DEF UrgPreempts, TakeSlot, TypeOK
  <2>2. rt' \in [Workers -> SUBSET Ids] /\ suspq' \in [Workers -> Seq(Ids)]
    <3>1. CASE IsRealtime(cur[w])
      <4>1. rt' = [rt EXCEPT ![w] = @ \union {cur[w]}] /\ suspq' = suspq
        BY <1>4, <3>1 DEF UrgPreempts
      <4> QED
        BY <2>1, <4>1 DEF TypeOK
    <3>2. CASE ~IsRealtime(cur[w])
      <4>1. suspq' = [suspq EXCEPT ![w] = Append(@, cur[w])] /\ rt' = rt
        BY <1>4, <3>2 DEF UrgPreempts
      <4>2. Append(suspq[w], cur[w]) \in Seq(Ids)
        BY <2>1 DEF TypeOK
      <4> QED
        BY <4>1, <4>2 DEF TypeOK
    <3> QED
      BY <3>1, <3>2
  <2>3. /\ st' \in [Ids -> CoStatus]
        /\ board' \in [Workers -> [Ids -> BoardEntry]]
        /\ at' \in [Ids -> TaskPoints]
        /\ \/ pc' = [pc EXCEPT ![w] = "returned"] /\ pc[w] \in TaskPoints
           \/ pc' = [pc EXCEPT ![w] = "corrupt"]
    BY <1>4, <2>1, TypeSwitchOut DEF UrgPreempts
  <2>4. UNCHANGED <<requestVars, gq, rtq, dropped, markVars, cur, hold, ret, newq, latency>>
    BY <1>4 DEF UrgPreempts
  <2>5. PICK p \in {"returned", "corrupt"} :
          /\ pc' = [pc EXCEPT ![w] = p] /\ (p = "returned" => hold[w] \in Ids)
          /\ p \in ControlPoints \ HandlerPoints
    BY <2>3, Controls DEF HoldOK, Point, TaskPoints, HandlerPoints
  <2>6. TypeOK'
    BY <2>1, <2>2, <2>3, <2>4, <2>5 DEF TypeOK
  <2>7. HoldOK'
    BY <2>1, <2>4, <2>5, HoldKept, Controls DEF TypeOK
  <2> QED
    BY <1>a, <2>6, <2>7
<1>5. CASE Alrm(w)
  <2>1. pc[w] \in LoopPoints \union TaskPoints /\ pc[w] \notin HandlerPoints
    BY <1>5, <1>b, Controls DEF Alrm
  <2>2. TypeOK'
    BY <1>5, <2>1 DEF Alrm, TypeOK, ControlPoints, HandlerPoints
  <2>3. HoldOK'
    BY <1>5, <2>1 DEF Alrm, TypeOK, HoldOK, Point, HandlerPoints
  <2> QED
    BY <1>a, <2>2, <2>3
<1> QED
  BY <1>1, <1>2, <1>3, <1>4, <1>5 DEF Urg

LEMMA TypeStutter == ASSUME TypeInv, UNCHANGED vars PROVE TypeInv'
  BY DEF TypeInv, TypeOK, JobOK, HoldOK, Point, vars, requestVars, schedulerVars, loopVars,
     queueVars, taskVars, markVars

LEMMA TypeStep == ASSUME TypeInv, [Next]_vars PROVE TypeInv'
  BY TypeScheduler, TypeRunLoop, TypeSignals, TypeStutter DEF Next, WorkerStep

\* Every variable keeps its type; with it, a worker that runs, resumes or
\* frees a coroutine has one to run, resume or free (HoldOK), and a request
\* past admission has an id (JobOK).
THEOREM Typing == Spec => []TypeInv
<1>1. Init => TypeInv
  BY TypeInit
<1>2. TypeInv /\ [Next]_vars => TypeInv'
  BY TypeStep
<1> QED
  BY <1>1, <1>2, PTL DEF Spec

THEOREM TypeCorrect == Spec => []TypeOK
  BY Typing, PTL DEF TypeInv

---------------------------------------------------------------------------
(* The hand-over of a preempting coroutine: slot, signal, and the worker *)
(* that answers it. *)

\* A worker's step leaves the other workers alone.
Mine(v) == <<rtq[v], slot[v], board[v], urg[v], runningId[v], pc[v], ret[v], curr[v],
             cur[v], hold[v], newq[v], suspq[v], rt[v], len[v]>>

LEMMA Elsewhere ==
  ASSUME TypeOK, NEW w \in Workers, WorkerStep(w), NEW v \in Workers \ {w}
  PROVE  UNCHANGED Mine(v)
<1> USE DEF TypeOK, Mine, requestVars, schedulerVars, loopVars, queueVars, taskVars, markVars
<1>1. CASE Boot(w) \/ LoopGet(w)
  BY <1>1 DEF Boot, LoopGet
<1>2. CASE FetchRealtime(w)
  BY <1>2 DEF FetchRealtime
<1>3. CASE FetchRealtimeEnds(w) \/ FetchGlobalEnds(w)
  BY <1>3 DEF FetchRealtimeEnds, FetchGlobalEnds
<1>4. CASE FetchGlobal(w)
  BY <1>4 DEF FetchGlobal
<1>5. ASSUME NEW tail, SetCurr(w, tail)
      PROVE  UNCHANGED <<curr[v], rt[v], newq[v], suspq[v]>>
  BY <1>5 DEF SetCurr, ChooseRealtime, ChooseNew, ChooseSuspended, ChooseNothing
<1>6. ASSUME NEW p, SwitchOut(w, p)
      PROVE  UNCHANGED <<board[v], pc[v]>>
  BY <1>6 DEF SwitchOut, UpdateStatus
<1>7. CASE Pick(w)
  BY <1>5, <1>7 DEF Pick
<1>8. CASE Take(w)
  BY <1>8 DEF Take
<1>9. CASE Resume(w) \/ Mark(w) \/ Enter(w) \/ Swap(w)
  BY <1>9 DEF Resume, UpdateStatus, Mark, Enter, Swap
<1>10. CASE Finish(w) \/ LockStats(w) \/ Restore(w)
  BY <1>10 DEF Finish, LockStats, Restore
<1>11. CASE Leave(w)
  BY <1>11 DEF Leave
<1>12. CASE Cleanup(w)
  BY <1>12 DEF Cleanup, UpdateStatus
<1>13. CASE AlrmReturns(w) \/ Alrm(w)
  BY <1>13 DEF AlrmReturns, Alrm
<1>14. CASE AlrmInLoop(w)
  BY <1>5, <1>14 DEF AlrmInLoop
<1>15. CASE AlrmSwitches(w)
  BY <1>5, <1>6, <1>15 DEF AlrmSwitches
<1>16. CASE UrgIgnored(w)
  BY <1>16 DEF UrgIgnored
<1>17. CASE UrgInLoop(w)
  BY <1>17 DEF UrgInLoop, TakeSlot
<1>18. CASE UrgPreempts(w)
  <2>1. UNCHANGED <<rt[v], suspq[v]>>
    BY <1>18 DEF UrgPreempts
  <2> QED
    BY <1>6, <1>18, <2>1 DEF UrgPreempts, TakeSlot
<1> QED
  BY <1>1, <1>2, <1>3, <1>4, <1>7, <1>8, <1>9, <1>10, <1>11, <1>12, <1>13, <1>14, <1>15,
     <1>16, <1>17, <1>18 DEF WorkerStep, RunLoop, Urg

---------------------------------------------------------------------------
(* PreemptionArmed *)

\* Only a SIGURG handler touches the slot and the pending signal.
LEMMA UrgOnly ==
  ASSUME NEW w \in Workers, RunLoop(w) \/ Finish(w) \/ Alrm(w)
  PROVE  UNCHANGED <<slot, urg>>
  BY DEF RunLoop, Finish, Alrm, Boot, LoopGet, FetchRealtime, FetchRealtimeEnds,
     FetchGlobal, FetchGlobalEnds, Pick, Take, Resume, Mark, Enter, Swap, LockStats,
     Restore, Leave, Cleanup, AlrmReturns, AlrmInLoop, AlrmSwitches, schedulerVars

LEMMA ArmedWorker ==
  ASSUME TypeOK, PreemptionArmed, NEW w \in Workers, WorkerStep(w)
  PROVE  PreemptionArmed'
<1>1. UNCHANGED <<spc, job>>
  BY WorkerKeepsRequest DEF requestVars
<1>2. CASE RunLoop(w) \/ Finish(w) \/ Alrm(w)
  BY <1>1, <1>2, UrgOnly DEF PreemptionArmed, Home
<1>3. CASE Urg(w)
  <2>1. slot'[w] = None
    BY <1>3 DEF Urg, UrgIgnored, UrgInLoop, UrgPreempts, TakeSlot, TypeOK
  <2>2. \A v \in Workers \ {w} : slot'[v] = slot[v] /\ urg'[v] = urg[v]
    BY Elsewhere DEF Mine
  <2> QED
    BY <1>1, <2>1, <2>2 DEF PreemptionArmed, Home
<1> QED
  BY <1>2, <1>3 DEF WorkerStep

LEMMA ArmedScheduler ==
  ASSUME TypeInv, PreemptionArmed, Request \/ SchedulerStep
  PROVE  PreemptionArmed'
<1> USE DEF PreemptionArmed, Home, requestVars, schedulerVars
<1>1. CASE SetSlot
  BY <1>1 DEF SetSlot, TypeInv, TypeOK
<1>2. CASE Signal
  BY <1>2 DEF Signal, TypeInv, TypeOK
<1>3. CASE Request
  BY <1>3 DEF Request, RequestNrt, RequestRt
<1>4. CASE Snapshot \/ Retry \/ Instantiate \/ InstantiateFails \/ Decide
  BY <1>4 DEF Snapshot, Retry, Instantiate, InstantiateFails, Decide, Reject, Admit
<1>5. CASE SpawnNrt \/ SpawnSchedulable \/ NoteSchedulable \/ SpawnPreemptive
  BY <1>5 DEF SpawnNrt, SpawnSchedulable, NoteSchedulable, SpawnPreemptive, Done
<1> QED
  BY <1>1, <1>2, <1>3, <1>4, <1>5 DEF SchedulerStep

\* No coroutine is left in a slot without a signal that will fetch it: the
\* worker's SIGURG is pending or about to be sent as long as the slot is full.
THEOREM Armed == Spec => []PreemptionArmed
<1>1. Init => PreemptionArmed
  BY DEF Init, PreemptionArmed
<1>2. TypeInv /\ PreemptionArmed /\ [Next]_vars => PreemptionArmed'
  <2>1. CASE UNCHANGED vars
    BY <2>1 DEF PreemptionArmed, Home, vars, requestVars, schedulerVars
  <2> QED
    BY <2>1, ArmedWorker, ArmedScheduler DEF Next, TypeInv
<1> QED
  BY <1>1, <1>2, Typing, PTL DEF Spec

---------------------------------------------------------------------------
(* NoEarlySignal *)

\* A worker that has not started has never run a coroutine, so no request was
\* admitted over one of its tasks.
NotStarted ==
    \A w \in Workers : pc[w] = "boot" =>
        /\ runningId[w] = None /\ ~urg[w] /\ slot[w] = None
        /\ ~(spc \in {"slot", "signal"} /\ Home(job) = w)
        /\ ~(spc \in {"instantiate", "spawn"} /\ verdict = "PREEMPTIVE" /\ Home(job) = w)

\* It does nothing but start, and nobody starts twice.
LEMMA BootOnce ==
  ASSUME TypeInv, NEW w \in Workers, WorkerStep(w) PROVE pc'[w] # "boot"
<1> USE DEF TypeInv, TypeOK, ControlPoints, LoopPoints, TaskPoints, HandlerPoints, loopVars
<1>1. CASE Boot(w) \/ LoopGet(w) \/ FetchRealtime(w) \/ FetchRealtimeEnds(w)
           \/ FetchGlobal(w) \/ FetchGlobalEnds(w)
  BY <1>1 DEF Boot, LoopGet, FetchRealtime, FetchRealtimeEnds, FetchGlobal, FetchGlobalEnds
<1>2. CASE Pick(w) \/ Take(w) \/ Resume(w) \/ Mark(w) \/ Enter(w)
  BY <1>2 DEF Pick, Take, Resume, Mark, Enter, LoopHead
<1>3. CASE Swap(w)
  BY <1>3 DEF Swap, HoldOK, Point
<1>4. CASE LockStats(w) \/ Restore(w) \/ Leave(w) \/ Cleanup(w) \/ Finish(w)
  BY <1>4 DEF LockStats, Restore, Leave, Cleanup, Finish, LoopHead
<1>5. CASE AlrmReturns(w) \/ AlrmInLoop(w) \/ Alrm(w)
  BY <1>5 DEF AlrmReturns, AlrmInLoop, Alrm, BackTo, LoopHead
<1>6. CASE AlrmSwitches(w) \/ UrgPreempts(w)
  <2>1. PICK p : SwitchOut(w, p)
    BY <1>6 DEF AlrmSwitches, UrgPreempts
  <2> QED
    BY <2>1 DEF SwitchOut
<1>7. CASE UrgIgnored(w)
  BY <1>7 DEF UrgIgnored
<1>8. CASE UrgInLoop(w)
  BY <1>8 DEF UrgInLoop, BackTo, LoopHead
<1> QED
  BY <1>1, <1>2, <1>3, <1>4, <1>5, <1>6, <1>7, <1>8 DEF WorkerStep, RunLoop, Urg

LEMMA NotStartedWorker ==
  ASSUME TypeInv, NotStarted, NEW w \in Workers, WorkerStep(w) PROVE NotStarted'
<1>1. UNCHANGED <<spc, job, verdict>>
  BY WorkerKeepsRequest DEF requestVars
<1>2. pc'[w] # "boot"
  BY BootOnce
<1>3. \A v \in Workers \ {w} :
        UNCHANGED <<pc[v], runningId[v], urg[v], slot[v]>>
  BY Elsewhere DEF Mine, TypeInv
<1> QED
  BY <1>1, <1>2, <1>3 DEF NotStarted, Home

LEMMA NotStartedScheduler ==
  ASSUME TypeInv, NotStarted, Request \/ SchedulerStep PROVE NotStarted'
<1> USE DEF NotStarted, Home, requestVars, schedulerVars, loopVars, markVars, TypeInv, TypeOK
<1>1. CASE Request \/ Snapshot \/ Retry \/ Reject
  BY <1>1 DEF Request, RequestNrt, RequestRt, Snapshot, Retry, Reject
<1>2. ASSUME NEW v \in Verdicts, Admit(v) PROVE NotStarted'
  <2>1. v = "PREEMPTIVE" => runningId[Home(job)] # None
    BY <1>2 DEF Admit, Allowed, StartKnown, Running
  <2> QED
    BY <1>2, <2>1 DEF Admit
<1>3. CASE Instantiate \/ InstantiateFails
  BY <1>3 DEF Instantiate, InstantiateFails
<1>4. CASE SpawnNrt \/ SpawnSchedulable \/ NoteSchedulable \/ SpawnPreemptive
  BY <1>4 DEF SpawnNrt, SpawnSchedulable, NoteSchedulable, SpawnPreemptive, Done
<1>5. CASE SetSlot
  BY <1>5 DEF SetSlot
<1>6. CASE Signal
  BY <1>6 DEF Signal, Done
<1> QED
  BY <1>1, <1>2, <1>3, <1>4, <1>5, <1>6 DEF SchedulerStep, Decide

\* The scheduler thread never signals, and never fills the slot of, a worker
\* that has not installed its handlers: a preemption is only decided over a
\* task that worker has run.
THEOREM NoneEarly == Spec => []NoEarlySignal
<1>1. Init => NotStarted
  BY DEF Init, NotStarted
<1>2. TypeInv /\ NotStarted /\ [Next]_vars => NotStarted'
  <2>1. CASE UNCHANGED vars
    BY <2>1 DEF NotStarted, Home, vars, requestVars, schedulerVars, loopVars, markVars
  <2> QED
    BY <2>1, NotStartedWorker, NotStartedScheduler DEF Next, TypeInv
<1>3. NotStarted => NoEarlySignal
  BY DEF NotStarted, NoEarlySignal
<1> QED
  BY <1>1, <1>2, <1>3, Typing, PTL DEF Spec

---------------------------------------------------------------------------
(***************************************************************************)
(* Who has a coroutine: the scheduler thread, a queue between threads, or  *)
(* one worker.  Wherever signals strike, no two of them have it.           *)
(***************************************************************************)
\* What worker w has at its disposal: its queues, the coroutine it has chosen,
\* the one run_co holds, and current().
Owned(w) ==
    ToSet(newq[w]) \union ToSet(suspq[w]) \union rt[w]
        \union ({curr[w], cur[w], hold[w]} \ {None})

\* Where a coroutine may be; the scheduler thread's hand and the global queue
\* count as worker 0's.
Kinds == {"hand", "global", "rtq", "slot", "own"}
Zone(c, k, w) ==
    \/ k = "hand" /\ w = 0 /\ spc = "slot" /\ job = c
    \/ k = "global" /\ w = 0 /\ c \in ToSet(gq)
    \/ k = "rtq" /\ c \in rtq[w]
    \/ k = "slot" /\ slot[w] = c
    \/ k = "own" /\ c \in Owned(w)

\* A coroutine is in one zone at a time, exists while it is in one, and is in
\* the global queue once.
Exclusive ==
    \A c \in Ids, k, l \in Kinds, v, w \in Workers :
        Zone(c, k, v) /\ Zone(c, l, w) => k = l /\ v = w
Created == \A c \in Ids, k \in Kinds, w \in Workers : Zone(c, k, w) => st[c] # "NONE"
QueuedOnce == IsInjective(gq)

\* Ids not handed out, and the id of a request not yet spawned, are fresh.
Fresh ==
    /\ \A c \in Ids : c >= nextId => st[c] = "NONE"
    /\ spc \in {"admit", "judge"}
            \/ (spc \in {"instantiate", "spawn"} /\ verdict # "NOTREALTIME")
        => job < nextId /\ st[job] = "NONE"

OwnInv == Exclusive /\ Created /\ QueuedOnce /\ Fresh

---------------------------------------------------------------------------
(* Sequences *)

LEMMA TailRange ==
  ASSUME NEW S, NEW s \in Seq(S), s # <<>>
  PROVE  /\ Head(s) \in ToSet(s)
         /\ ToSet(Tail(s)) \subseteq ToSet(s)
         /\ IsInjective(s) => IsInjective(Tail(s)) /\ Head(s) \notin ToSet(Tail(s))
<1>1. Head(s) = s[1] /\ 1 \in DOMAIN s
  OBVIOUS
<1>2. \A i \in DOMAIN Tail(s) : Tail(s)[i] = s[i + 1] /\ i + 1 \in DOMAIN s /\ i + 1 # 1
  OBVIOUS
<1>3. Head(s) \in ToSet(s) /\ ToSet(Tail(s)) \subseteq ToSet(s)
  BY <1>1, <1>2 DEF ToSet
<1>4. ASSUME IsInjective(s) PROVE IsInjective(Tail(s)) /\ Head(s) \notin ToSet(Tail(s))
  <2>1. \A i, j \in DOMAIN Tail(s) : Tail(s)[i] = Tail(s)[j] => i + 1 = j + 1
    BY <1>2, <1>4 DEF IsInjective
  <2>2. \A i, j \in DOMAIN Tail(s) : i + 1 = j + 1 => i = j
    OBVIOUS
  <2>3. \A i \in DOMAIN Tail(s) : Head(s) # Tail(s)[i]
    BY <1>1, <1>2, <1>4 DEF IsInjective
  <2> QED
    BY <2>1, <2>2, <2>3 DEF IsInjective, ToSet
<1> QED
  BY <1>3, <1>4

LEMMA AppendRange ==
  ASSUME NEW S, NEW s \in Seq(S), NEW x \in S
  PROVE  /\ ToSet(Append(s, x)) = ToSet(s) \union {x}
         /\ IsInjective(s) /\ x \notin ToSet(s) => IsInjective(Append(s, x))
<1>1. /\ DOMAIN Append(s, x) = DOMAIN s \union {Len(s) + 1}
      /\ Append(s, x)[Len(s) + 1] = x
      /\ \A i \in DOMAIN s : Append(s, x)[i] = s[i] /\ i # Len(s) + 1
  OBVIOUS
<1>2. ToSet(Append(s, x)) = ToSet(s) \union {x}
  BY <1>1 DEF ToSet
<1>3. ASSUME IsInjective(s), x \notin ToSet(s) PROVE IsInjective(Append(s, x))
  BY <1>1, <1>3 DEF IsInjective, ToSet
<1> QED
  BY <1>2, <1>3

LEMMA ConcatRange ==
  ASSUME NEW S, NEW s \in Seq(S), NEW t \in Seq(S)
  PROVE  ToSet(s \o t) \subseteq ToSet(s) \union ToSet(t)
<1>1. \A i \in DOMAIN (s \o t) :
        \/ i \in DOMAIN s /\ (s \o t)[i] = s[i]
        \/ i - Len(s) \in DOMAIN t /\ (s \o t)[i] = t[i - Len(s)]
  OBVIOUS
<1> QED
  BY <1>1 DEF ToSet

LEMMA EmptyRange == ToSet(<<>>) = {} /\ IsInjective(<<>>)
  BY DEF ToSet, IsInjective

LEMMA SingleRange == ASSUME NEW x PROVE ToSet(<<x>>) = {x}
  BY DEF ToSet

---------------------------------------------------------------------------
(* Steps of a worker *)

LEMMA Keep ==
  ASSUME Exclusive,
         \A c \in Ids, k \in Kinds, v \in Workers : Zone(c, k, v)' => Zone(c, k, v)
  PROVE  Exclusive'
  BY DEF Exclusive

\* Nothing but the worker's own zone is touched, and it gains nothing.
LEMMA LocalStep ==
  ASSUME OwnInv, NEW w \in Workers, UNCHANGED <<gq, rtq, slot, spc, job>>,
         \A v \in Workers \ {w} : Owned(v)' = Owned(v),
         Owned(w)' \subseteq Owned(w)
  PROVE  /\ Exclusive' /\ QueuedOnce'
         /\ \A c \in Ids, k \in Kinds, v \in Workers : Zone(c, k, v)' => Zone(c, k, v)
<1>1. \A c \in Ids, k \in Kinds, v \in Workers : Zone(c, k, v)' => Zone(c, k, v)
  BY DEF Zone
<1> QED
  BY <1>1, Keep DEF OwnInv, QueuedOnce
LEMMA SetCurrOwns ==
  ASSUME TypeOK, NEW w \in Workers, NEW tail \in Seq(Ids), SetCurr(w, tail),
         ToSet(tail) \subseteq Owned(w)
  PROVE  ToSet(newq'[w]) \union ToSet(suspq'[w]) \union rt'[w] \union ({curr'[w]} \ {None})
            \subseteq Owned(w)
<1> USE DEF TypeOK
<1>1. CASE ChooseRealtime(w, tail)
  <2>1. PICK c \in rt[w] : curr' = [curr EXCEPT ![w] = c] /\ rt' = [rt EXCEPT ![w] = @ \ {c}]
    BY <1>1, EarliestInside DEF ChooseRealtime
  <2>2. suspq' = [suspq EXCEPT ![w] = @ \o tail] /\ newq' = newq
    BY <1>1 DEF ChooseRealtime
  <2>3. ToSet(suspq[w] \o tail) \subseteq ToSet(suspq[w]) \union ToSet(tail)
    BY ConcatRange
  <2> QED
    BY <2>1, <2>2, <2>3 DEF Owned
<1>2. CASE ChooseNew(w, tail)
  <2>1. /\ newq[w] # <<>> /\ curr' = [curr EXCEPT ![w] = Head(newq[w])]
        /\ newq' = [newq EXCEPT ![w] = Tail(@)]
        /\ suspq' = [suspq EXCEPT ![w] = @ \o tail] /\ rt' = rt
    BY <1>2 DEF ChooseNew
  <2>2. ToSet(suspq[w] \o tail) \subseteq ToSet(suspq[w]) \union ToSet(tail)
    BY ConcatRange
  <2>3. Head(newq[w]) \in ToSet(newq[w]) /\ ToSet(Tail(newq[w])) \subseteq ToSet(newq[w])
    <3>1. newq[w] \in Seq(Ids)
      OBVIOUS
    <3> QED
      BY <2>1, <3>1, TailRange
  <2>4. /\ curr'[w] = Head(newq[w]) /\ newq'[w] = Tail(newq[w])
        /\ suspq'[w] = suspq[w] \o tail /\ rt'[w] = rt[w]
    BY <2>1
  <2> QED
    BY <2>2, <2>3, <2>4 DEF Owned
<1>3. CASE ChooseSuspended(w, tail)
  <2>1. /\ suspq[w] # <<>> /\ curr' = [curr EXCEPT ![w] = Head(suspq[w])]
        /\ suspq' = [suspq EXCEPT ![w] = Tail(@) \o tail] /\ rt' = rt /\ newq' = newq
    BY <1>3 DEF ChooseSuspended
  <2>2. Head(suspq[w]) \in ToSet(suspq[w]) /\ ToSet(Tail(suspq[w])) \subseteq ToSet(suspq[w])
    BY <2>1, TailRange
  <2>3. ToSet(Tail(suspq[w]) \o tail) \subseteq ToSet(Tail(suspq[w])) \union ToSet(tail)
    <3>1. Tail(suspq[w]) \in Seq(Ids)
      BY <2>1
    <3> QED
      BY <3>1, ConcatRange
  <2>4. /\ curr'[w] = Head(suspq[w]) /\ newq'[w] = newq[w]
        /\ suspq'[w] = Tail(suspq[w]) \o tail /\ rt'[w] = rt[w]
    BY <2>1
  <2> QED
    BY <2>2, <2>3, <2>4 DEF Owned
<1>4. CASE ChooseNothing(w, tail)
  BY <1>4 DEF ChooseNothing, Owned
<1> QED
  BY <1>1, <1>2, <1>3, <1>4 DEF SetCurr

\* The worker steps that neither fetch a coroutine nor take the slot.
LocalSteps(w) ==
    \/ Boot(w) \/ LoopGet(w) \/ FetchRealtimeEnds(w) \/ FetchGlobalEnds(w)
    \/ Pick(w) \/ Take(w) \/ Resume(w) \/ Mark(w) \/ Enter(w) \/ Swap(w)
    \/ Finish(w) \/ LockStats(w) \/ Restore(w) \/ Leave(w) \/ Cleanup(w)
    \/ Alrm(w) \/ AlrmReturns(w) \/ AlrmInLoop(w) \/ AlrmSwitches(w) \/ UrgIgnored(w)

LEMMA LocalOwned ==
  ASSUME TypeInv, NEW w \in Workers, LocalSteps(w)
  PROVE  Owned(w)' \subseteq Owned(w) /\ UNCHANGED <<gq, rtq, slot>>
<1> USE DEF TypeInv, TypeOK, schedulerVars, loopVars, queueVars
<1>1. CASE Boot(w) \/ LoopGet(w) \/ FetchRealtimeEnds(w) \/ FetchGlobalEnds(w)
  BY <1>1 DEF Owned, Boot, LoopGet, FetchRealtimeEnds, FetchGlobalEnds
<1>2. CASE Resume(w) \/ Mark(w) \/ Swap(w) \/ Finish(w) \/ LockStats(w) \/ Restore(w)
  BY <1>2 DEF Owned, Resume, Mark, Swap, Finish, LockStats, Restore
<1>3. CASE Alrm(w) \/ AlrmReturns(w) \/ UrgIgnored(w)
  BY <1>3 DEF Owned, Alrm, AlrmReturns, UrgIgnored
<1>4. CASE Take(w) \/ Enter(w) \/ Leave(w) \/ Cleanup(w)
  BY <1>4 DEF Owned, Take, Enter, Leave, Cleanup
<1>5. <<>> \in Seq(Ids) /\ ToSet(<<>>) \subseteq Owned(w)
  BY EmptyRange
<1>6. CASE Pick(w) \/ AlrmInLoop(w)
  <2>1. /\ SetCurr(w, <<>>)
        /\ UNCHANGED <<schedulerVars, cur, hold>>
    BY <1>6 DEF Pick, AlrmInLoop
  <2> QED
    BY <1>5, <2>1, SetCurrOwns DEF Owned
<1>7. CASE AlrmSwitches(w)
  <2>1. SetCurr(w, <<cur[w]>>) /\ UNCHANGED <<gq, rtq, slot, cur, hold>> /\ cur[w] \in Ids
    BY <1>7 DEF AlrmSwitches
  <2>2. <<cur[w]>> \in Seq(Ids)
    BY <2>1
  <2>3. ToSet(<<cur[w]>>) \subseteq Owned(w)
    BY <2>1, SingleRange DEF Owned, Ids, None
  <2> QED
    BY <2>1, <2>2, <2>3, SetCurrOwns DEF Owned
<1> QED
  BY <1>1, <1>2, <1>3, <1>4, <1>6, <1>7 DEF LocalSteps

\* A worker never changes whether a coroutine exists.
LEMMA StatusKept ==
  ASSUME TypeInv, Created, NEW w \in Workers, WorkerStep(w), NEW c \in Ids
  PROVE  st'[c] = "NONE" <=> st[c] = "NONE"
<1> USE DEF TypeInv, TypeOK, taskVars
<1>1. \A d \in Ids : d \in {curr[w], cur[w], hold[w]} => st[d] # "NONE"
  BY DEF Created, Zone, Kinds, Owned, Ids, None
<1>2. CASE Take(w)
  BY <1>1, <1>2 DEF Take
<1>3. CASE Resume(w)
  BY <1>1, <1>3 DEF Resume
<1>4. CASE Finish(w)
  BY <1>1, <1>4 DEF Finish
<1>5. CASE AlrmSwitches(w) \/ UrgPreempts(w)
  <2>1. st' = [st EXCEPT ![cur[w]] = IF @ = "COMPLETED" THEN @ ELSE "SUSPENDED"]
    BY <1>5 DEF AlrmSwitches, UrgPreempts, SwitchOut
  <2> QED
    BY <1>1, <2>1
<1>6. CASE ~(Take(w) \/ Resume(w) \/ Finish(w) \/ AlrmSwitches(w) \/ UrgPreempts(w))
  <2>1. st' = st
    BY <1>6 DEF WorkerStep, RunLoop, Urg, Boot, LoopGet, FetchRealtime, FetchRealtimeEnds,
       FetchGlobal, FetchGlobalEnds, Pick, Mark, Enter, Swap, LockStats, Restore, Leave,
       Cleanup, AlrmReturns, AlrmInLoop, Alrm, UrgIgnored, UrgInLoop
  <2> QED
    BY <2>1
<1> QED
  BY <1>2, <1>3, <1>4, <1>5, <1>6
\* Steps local to a worker, those that fetch, and those that take the slot.
LEMMA ZonesLocal ==
  ASSUME TypeInv, OwnInv, NEW w \in Workers, LocalSteps(w)
  PROVE  /\ Exclusive' /\ QueuedOnce'
         /\ \A c \in Ids, k \in Kinds, v \in Workers : Zone(c, k, v)' => Zone(c, k, v)
<1>1. WorkerStep(w)
  BY DEF LocalSteps, WorkerStep, RunLoop, Urg
<1>2. UNCHANGED <<spc, job>>
  BY <1>1, WorkerKeepsRequest DEF requestVars
<1>3. \A v \in Workers \ {w} : Owned(v)' = Owned(v)
  BY <1>1, Elsewhere DEF Mine, Owned, TypeInv
<1> QED
  BY <1>2, <1>3, LocalOwned, LocalStep

LEMMA ZonesFetchRealtime ==
  ASSUME TypeInv, OwnInv, NEW w \in Workers, FetchRealtime(w)
  PROVE  /\ Exclusive' /\ QueuedOnce'
         /\ \A c \in Ids, k \in Kinds, v \in Workers :
                Zone(c, k, v)' => \E l \in Kinds : Zone(c, l, v)
<1> USE DEF TypeInv, TypeOK
<1>1. PICK x \in rtq[w] : /\ rtq' = [rtq EXCEPT ![w] = @ \ {x}]
                          /\ rt' = [rt EXCEPT ![w] = @ \union {x}]
  BY EarliestInside DEF FetchRealtime
<1>2. UNCHANGED <<spc, job, gq, slot, newq, suspq, curr, cur, hold>>
  BY DEF FetchRealtime, requestVars, loopVars
<1>3. Owned(w)' = Owned(w) \union {x} /\ \A v \in Workers \ {w} : Owned(v)' = Owned(v)
  BY <1>1, <1>2 DEF Owned
<1>4. x \in Ids /\ Zone(x, "rtq", w) /\ "rtq" \in Kinds
  BY <1>1 DEF Zone, Kinds
<1>5. \A c \in Ids, k \in Kinds, v \in Workers :
        Zone(c, k, v)' => \/ c # x /\ Zone(c, k, v)
                          \/ c = x /\ k = "own" /\ v = w
  <2>1. \A k \in Kinds, v \in Workers : Zone(x, k, v) => k = "rtq" /\ v = w
    BY <1>4 DEF OwnInv, Exclusive
  <2>2. \A c \in Ids, k \in Kinds, v \in Workers :
          Zone(c, k, v)' => \/ Zone(c, k, v) /\ ~(c = x /\ k = "rtq" /\ v = w)
                            \/ c = x /\ k = "own" /\ v = w
    BY <1>1, <1>2, <1>3 DEF Zone
  <2> QED
    BY <2>1, <2>2
<1>6. Exclusive'
  <2> HIDE DEF TypeInv, TypeOK
  <2> SUFFICES ASSUME NEW c \in Ids, NEW k \in Kinds, NEW l \in Kinds,
                      NEW v \in Workers, NEW u \in Workers, Zone(c, k, v)', Zone(c, l, u)'
               PROVE  k = l /\ v = u
    BY DEF Exclusive
  <2> QED
    BY <1>5 DEF OwnInv, Exclusive
<1> QED
  BY <1>2, <1>4, <1>5, <1>6 DEF OwnInv, QueuedOnce

LEMMA ZonesFetchGlobal ==
  ASSUME TypeInv, OwnInv, NEW w \in Workers, FetchGlobal(w)
  PROVE  /\ Exclusive' /\ QueuedOnce'
         /\ \A c \in Ids, k \in Kinds, v \in Workers :
                Zone(c, k, v)' => \E l \in Kinds, u \in Workers : Zone(c, l, u)
<1> USE DEF TypeInv, TypeOK
<1> DEFINE x == Head(gq)
<1>1. gq # <<>> /\ gq' = Tail(gq) /\ newq' = [newq EXCEPT ![w] = Append(@, x)]
  BY DEF FetchGlobal
<1>2. UNCHANGED <<spc, job, rtq, slot, rt, suspq, curr, cur, hold>>
  BY DEF FetchGlobal, requestVars, loopVars
<1>3. x \in Ids /\ x \in ToSet(gq) /\ ToSet(gq') \subseteq ToSet(gq) \ {x} /\ QueuedOnce'
  BY <1>1, TailRange DEF OwnInv, QueuedOnce
<1>4. Owned(w)' = Owned(w) \union {x} /\ \A v \in Workers \ {w} : Owned(v)' = Owned(v)
  <2>1. ToSet(newq'[w]) = ToSet(newq[w]) \union {x}
    BY <1>1, <1>3, AppendRange
  <2> HIDE DEF x
  <2> QED
    BY <1>1, <1>2, <2>1 DEF Owned
<1> HIDE DEF x
<1>5. 0 \in Workers /\ "global" \in Kinds /\ "own" \in Kinds /\ Zone(x, "global", 0)
  BY <1>3 DEF Zone, Kinds, Workers
<1>6. \A c \in Ids, k \in Kinds, v \in Workers :
        Zone(c, k, v)' => \/ c # x /\ Zone(c, k, v)
                          \/ c = x /\ k = "own" /\ v = w
  <2>1. \A k \in Kinds, v \in Workers : Zone(x, k, v) => k = "global" /\ v = 0
    BY <1>3, <1>5 DEF OwnInv, Exclusive
  <2>2. \A c \in Ids, k \in Kinds, v \in Workers :
          Zone(c, k, v)' => \/ Zone(c, k, v) /\ ~(c = x /\ k = "global")
                            \/ c = x /\ k = "own" /\ v = w
    BY <1>2, <1>3, <1>4 DEF Zone
  <2> QED
    BY <2>1, <2>2
<1>7. Exclusive'
  <2> HIDE DEF TypeInv, TypeOK
  <2> SUFFICES ASSUME NEW c \in Ids, NEW k \in Kinds, NEW l \in Kinds,
                      NEW v \in Workers, NEW u \in Workers, Zone(c, k, v)', Zone(c, l, u)'
               PROVE  k = l /\ v = u
    BY DEF Exclusive
  <2> QED
    BY <1>6 DEF OwnInv, Exclusive
<1> QED
  BY <1>3, <1>5, <1>6, <1>7

LEMMA ZonesTakeSlot ==
  ASSUME TypeInv, OwnInv, NEW w \in Workers, UrgInLoop(w) \/ UrgPreempts(w)
  PROVE  /\ Exclusive' /\ QueuedOnce'
         /\ \A c \in Ids, k \in Kinds, v \in Workers :
                Zone(c, k, v)' => \E l \in Kinds : Zone(c, l, v)
<1> USE DEF TypeInv, TypeOK
<1> DEFINE x == slot[w]
<1>1. x \in Ids /\ curr' = [curr EXCEPT ![w] = x] /\ slot' = [slot EXCEPT ![w] = None]
  BY DEF UrgInLoop, UrgPreempts, TakeSlot
<1>2. UNCHANGED <<spc, job, gq, rtq, newq, cur, hold>>
  BY DEF UrgInLoop, UrgPreempts, requestVars
<1>3. Owned(w)' \subseteq Owned(w) \union {x}
  <2>1. CASE UrgInLoop(w)
    BY <1>1, <1>2, <2>1 DEF UrgInLoop, Owned
  <2>2. CASE UrgPreempts(w)
    <3>1. cur[w] \in Ids /\ cur[w] \in Owned(w)
      BY <2>2 DEF UrgPreempts, Owned
    <3>2. \/ rt' = [rt EXCEPT ![w] = @ \union {cur[w]}] /\ suspq' = suspq
          \/ suspq' = [suspq EXCEPT ![w] = Append(@, cur[w])] /\ rt' = rt
      BY <2>2 DEF UrgPreempts
    <3>3. ToSet(Append(suspq[w], cur[w])) = ToSet(suspq[w]) \union {cur[w]}
      BY <3>1, AppendRange
    <3>4. curr'[w] = x
      BY <1>1
    <3> HIDE DEF x
    <3>5. \/ rt'[w] = rt[w] \union {cur[w]} /\ suspq'[w] = suspq[w]
          \/ ToSet(suspq'[w]) = ToSet(suspq[w]) \union {cur[w]} /\ rt'[w] = rt[w]
      BY <3>2, <3>3
    <3> QED
      BY <1>2, <3>1, <3>4, <3>5 DEF Owned
  <2> QED
    BY <2>1, <2>2
<1>4. \A v \in Workers \ {w} : Owned(v)' = Owned(v)
  BY Elsewhere DEF Mine, Owned, WorkerStep, Urg
<1> HIDE DEF x
<1>5. Zone(x, "slot", w) /\ "slot" \in Kinds
  BY <1>1 DEF Zone, Kinds, x
<1>6. \A c \in Ids, k \in Kinds, v \in Workers :
        Zone(c, k, v)' => \/ c # x /\ Zone(c, k, v)
                          \/ c = x /\ k = "own" /\ v = w
  <2>1. \A k \in Kinds, v \in Workers : Zone(x, k, v) => k = "slot" /\ v = w
    BY <1>1, <1>5 DEF OwnInv, Exclusive
  <2>2. \A c \in Ids, k \in Kinds, v \in Workers :
          Zone(c, k, v)' => \/ Zone(c, k, v) /\ ~(c = x /\ k = "slot" /\ v = w)
                            \/ c = x /\ k = "own" /\ v = w
    BY <1>1, <1>2, <1>3, <1>4 DEF Zone, Ids, None
  <2> QED
    BY <2>1, <2>2
<1>7. Exclusive'
  <2> HIDE DEF TypeInv, TypeOK
  <2> SUFFICES ASSUME NEW c \in Ids, NEW k \in Kinds, NEW l \in Kinds,
                      NEW v \in Workers, NEW u \in Workers, Zone(c, k, v)', Zone(c, l, u)'
               PROVE  k = l /\ v = u
    BY DEF Exclusive
  <2> QED
    BY <1>6 DEF OwnInv, Exclusive
<1> QED
  BY <1>2, <1>5, <1>6, <1>7 DEF OwnInv, QueuedOnce

LEMMA OwnWorker ==
  ASSUME TypeInv, OwnInv, NEW w \in Workers, WorkerStep(w) PROVE OwnInv'
<1>1. /\ Exclusive' /\ QueuedOnce'
      /\ \A c \in Ids, k \in Kinds, v \in Workers :
            Zone(c, k, v)' => \E l \in Kinds, u \in Workers : Zone(c, l, u)
  <2>1. LocalSteps(w) \/ FetchRealtime(w) \/ FetchGlobal(w) \/ UrgInLoop(w) \/ UrgPreempts(w)
    BY DEF LocalSteps, WorkerStep, RunLoop, Urg
  <2> QED
    BY <2>1, ZonesLocal, ZonesFetchRealtime, ZonesFetchGlobal, ZonesTakeSlot
<1>2. \A c \in Ids : st'[c] = "NONE" <=> st[c] = "NONE"
  BY StatusKept DEF OwnInv
<1>3. Created'
  BY <1>1, <1>2 DEF Created, OwnInv
<1>4. Fresh'
  <2>1. UNCHANGED <<nextId, spc, job, verdict>>
    BY WorkerKeepsRequest DEF requestVars
  <2> QED
    BY <1>2, <2>1 DEF Fresh, OwnInv, TypeInv, JobOK
<1> QED
  BY <1>1, <1>3, <1>4 DEF OwnInv
---------------------------------------------------------------------------
(* Steps of the scheduler thread *)

\* Before the spawn, after the hand-over: no coroutine changes its zone.
LEMMA OwnQuiet ==
  ASSUME TypeInv, OwnInv,
         \/ Request \/ Snapshot \/ Decide \/ Retry \/ Instantiate \/ InstantiateFails
         \/ NoteSchedulable \/ Signal
  PROVE  OwnInv'
<1> USE DEF requestVars, schedulerVars, loopVars, queueVars, taskVars
<1>1. UNCHANGED <<gq, rtq, slot, st, newq, suspq, rt, curr, cur, hold>> /\ spc' # "slot"
  BY DEF Request, RequestNrt, RequestRt, Snapshot, Decide, Reject, Admit, Retry,
     Instantiate, InstantiateFails, NoteSchedulable, Signal, Done
<1>2. \A c \in Ids, k \in Kinds, v \in Workers : Zone(c, k, v)' => Zone(c, k, v)
  BY <1>1 DEF Zone, Owned
<1>3. Exclusive' /\ Created' /\ QueuedOnce'
  BY <1>1, <1>2, Keep DEF OwnInv, Created, QueuedOnce
<1>4. Fresh'
  <2> USE DEF OwnInv, Fresh, TypeInv, TypeOK
  <2>2. CASE ~Request
    BY <1>1, <2>2 DEF Snapshot, Decide, Reject, Admit, Retry,
       Instantiate, InstantiateFails, NoteSchedulable, Signal, Done
  <2>3. CASE RequestNrt
    BY <1>1, <2>3 DEF RequestNrt
  <2>4. ASSUME NEW d \in Deadlines, RequestRt(d) PROVE Fresh'
    BY <1>1, <2>4 DEF RequestRt, Ids
  <2> QED
    BY <2>2, <2>3, <2>4 DEF Request
<1> QED
  BY <1>3, <1>4 DEF OwnInv

\* A coroutine about to be created is nowhere.
LEMMA FreshNowhere ==
  ASSUME OwnInv, NEW c \in Ids, st[c] = "NONE"
  PROVE  \A k \in Kinds, v \in Workers : ~Zone(c, k, v)
  BY DEF OwnInv, Created

LEMMA OwnSpawn ==
  ASSUME TypeInv, OwnInv, SpawnNrt \/ SpawnSchedulable \/ SpawnPreemptive PROVE OwnInv'
<1> USE DEF TypeInv, TypeOK
<1>1. CASE SpawnNrt
  <2>1. /\ nextId \in Ids /\ st' = [st EXCEPT ![nextId] = "PENDING"]
        /\ gq' = Append(gq, nextId) /\ nextId' = nextId + 1 /\ spc' = "idle"
        /\ UNCHANGED <<rtq, slot, newq, suspq, rt, curr, cur, hold>>
    BY <1>1 DEF SpawnNrt, Done, JobOK, queueVars, loopVars
  <2>2. PICK c \in Ids : c = nextId
    BY <2>1
  <2>3. st[c] = "NONE"
    BY <2>2 DEF OwnInv, Fresh
  <2>4. \A k \in Kinds, v \in Workers : ~Zone(c, k, v)
    BY <2>3, FreshNowhere
  <2>5. c \notin ToSet(gq)
    BY <2>4 DEF Zone, Kinds, Workers
  <2>6. ToSet(gq') = ToSet(gq) \union {c} /\ QueuedOnce'
    BY <2>1, <2>2, <2>5, AppendRange DEF OwnInv, QueuedOnce
  <2>7. \A d \in Ids, k \in Kinds, v \in Workers :
          Zone(d, k, v)' => Zone(d, k, v) \/ (d = c /\ k = "global" /\ v = 0)
    BY <2>1, <2>6 DEF Zone, Owned
  <2>8. Exclusive' /\ Created'
    <3> HIDE DEF TypeInv, TypeOK
    <3>1. st \in [Ids -> CoStatus] /\ st' = [st EXCEPT ![c] = "PENDING"]
      BY <2>1, <2>2 DEF TypeInv, TypeOK
    <3>2. Exclusive'
      <4> SUFFICES ASSUME NEW d \in Ids, NEW k \in Kinds, NEW l \in Kinds,
                          NEW v \in Workers, NEW u \in Workers, Zone(d, k, v)', Zone(d, l, u)'
                   PROVE  k = l /\ v = u
        BY DEF Exclusive
      <4> QED
        BY <2>4, <2>7 DEF OwnInv, Exclusive
    <3>3. Created'
      BY <2>3, <2>7, <3>1 DEF OwnInv, Created
    <3> QED
      BY <3>2, <3>3
  <2>9. Fresh'
    BY <2>1, <2>2 DEF OwnInv, Fresh, Ids
  <2> QED
    BY <2>6, <2>8, <2>9 DEF OwnInv
<1>2. CASE SpawnSchedulable \/ SpawnPreemptive
  <2>1. /\ job \in Ids /\ st' = [st EXCEPT ![job] = "PENDING"]
        /\ spc' \in {"note", "slot"}
        /\ UNCHANGED <<nextId, job, gq, slot, newq, suspq, rt, curr, cur, hold>>
        /\ job < nextId /\ st[job] = "NONE"
    BY <1>2 DEF SpawnSchedulable, SpawnPreemptive, UpdateStatus, JobOK, OwnInv, Fresh,
       queueVars, loopVars
  <2>2. PICK c \in Ids : c = job
    BY <2>1
  <2>3. PICK kc \in Kinds, wc \in Workers :
          \A d \in Ids, k \in Kinds, v \in Workers :
            Zone(d, k, v)' => Zone(d, k, v) \/ (d = c /\ k = kc /\ v = wc)
    <3>1. CASE SpawnSchedulable
      <4>1. rtq' = [rtq EXCEPT ![Home(job)] = @ \union {job}] /\ spc' = "note"
        BY <3>1 DEF SpawnSchedulable
      <4>2. Home(job) \in Workers /\ "rtq" \in Kinds
        BY <2>1, HomeInWorkers DEF Kinds
      <4>3. \A d \in Ids, k \in Kinds, v \in Workers :
              Zone(d, k, v)' => Zone(d, k, v) \/ (d = c /\ k = "rtq" /\ v = Home(job))
        BY <2>1, <2>2, <4>1, <4>2 DEF Zone, Owned
      <4> QED
        BY <4>2, <4>3
    <3>2. CASE SpawnPreemptive
      <4>1. rtq' = rtq /\ spc' = "slot"
        BY <3>2 DEF SpawnPreemptive
      <4>2. 0 \in Workers /\ "hand" \in Kinds
        BY DEF Kinds, Workers
      <4>3. \A d \in Ids, k \in Kinds, v \in Workers :
              Zone(d, k, v)' => Zone(d, k, v) \/ (d = c /\ k = "hand" /\ v = 0)
        BY <2>1, <2>2, <4>1 DEF Zone, Owned
      <4> QED
        BY <4>2, <4>3
    <3> QED
      BY <1>2, <3>1, <3>2
  <2>4. Exclusive' /\ Created'
    <3> HIDE DEF TypeInv, TypeOK
    <3>1. st \in [Ids -> CoStatus] /\ st' = [st EXCEPT ![c] = "PENDING"] /\ st[c] = "NONE"
      BY <2>1, <2>2 DEF TypeInv, TypeOK
    <3>0. \A k \in Kinds, v \in Workers : ~Zone(c, k, v)
      BY <3>1, FreshNowhere
    <3>2. Exclusive'
      <4> SUFFICES ASSUME NEW d \in Ids, NEW k \in Kinds, NEW l \in Kinds,
                          NEW v \in Workers, NEW u \in Workers, Zone(d, k, v)', Zone(d, l, u)'
                   PROVE  k = l /\ v = u
        BY DEF Exclusive
      <4> QED
        BY <3>0, <2>3 DEF OwnInv, Exclusive
    <3>3. Created'
      BY <2>3, <3>1 DEF OwnInv, Created
    <3> QED
      BY <3>2, <3>3
  <2>5. Fresh' /\ QueuedOnce'
    BY <2>1 DEF OwnInv, Fresh, QueuedOnce, Ids
  <2> QED
    BY <2>4, <2>5 DEF OwnInv
<1> QED
  BY <1>1, <1>2

LEMMA OwnSetSlot == ASSUME TypeInv, OwnInv, SetSlot PROVE OwnInv'
<1> USE DEF TypeInv, TypeOK
<1>1. /\ spc = "slot" /\ spc' = "signal" /\ job \in Ids
      /\ UNCHANGED <<nextId, job, st, gq, rtq, newq, suspq, rt, curr, cur, hold>>
      /\ slot' = slot \/ slot' = [slot EXCEPT ![Home(job)] = job]
  BY DEF SetSlot, JobOK, queueVars, loopVars, taskVars
<1>2. PICK h \in Workers : h = Home(job)
  BY <1>1, HomeInWorkers
<1>3. Zone(job, "hand", 0) /\ 0 \in Workers /\ {"hand", "slot"} \subseteq Kinds
  BY <1>1 DEF Zone, Kinds, Workers
<1>4. \A c \in Ids, k \in Kinds, v \in Workers :
        Zone(c, k, v)' => \/ c # job /\ Zone(c, k, v)
                          \/ c = job /\ k = "slot" /\ v = h
  <2>1. \A k \in Kinds, v \in Workers : Zone(job, k, v) => k = "hand" /\ v = 0
    BY <1>1, <1>3 DEF OwnInv, Exclusive
  <2>2. \A c \in Ids, k \in Kinds, v \in Workers :
          Zone(c, k, v)' => \/ Zone(c, k, v) /\ ~(c = job /\ k = "hand")
                            \/ c = job /\ k = "slot" /\ v = h
    BY <1>1, <1>2 DEF Zone, Owned
  <2> QED
    BY <2>1, <2>2
<1>5. Exclusive'
  <2> HIDE DEF TypeInv, TypeOK
  <2> SUFFICES ASSUME NEW c \in Ids, NEW k \in Kinds, NEW l \in Kinds,
                      NEW v \in Workers, NEW u \in Workers, Zone(c, k, v)', Zone(c, l, u)'
               PROVE  k = l /\ v = u
    BY DEF Exclusive
  <2> QED
    BY <1>4 DEF OwnInv, Exclusive
<1>6. Created'
  <2> HIDE DEF TypeInv, TypeOK
  <2> QED
    BY <1>1, <1>3, <1>4 DEF OwnInv, Created
<1> QED
  BY <1>1, <1>5, <1>6 DEF OwnInv, Fresh, QueuedOnce

LEMMA OwnInit == Init => OwnInv
<1> SUFFICES ASSUME Init PROVE OwnInv
  OBVIOUS
<1>1. ToSet(gq) = {} /\ QueuedOnce
  BY EmptyRange DEF Init, QueuedOnce
<1>2. \A w \in Workers : Owned(w) = {}
  BY EmptyRange DEF Init, Owned
<1>3. \A c \in Ids, k \in Kinds, w \in Workers : ~Zone(c, k, w)
  BY <1>1, <1>2 DEF Init, Zone, Ids, None
<1> QED
  BY <1>1, <1>3 DEF OwnInv, Exclusive, Created, Fresh, Init

LEMMA OwnStep == ASSUME TypeInv, OwnInv, [Next]_vars PROVE OwnInv'
<1>1. CASE UNCHANGED vars
  <2> USE DEF vars, requestVars, schedulerVars, loopVars, queueVars, taskVars
  <2>1. \A c \in Ids, k \in Kinds, v \in Workers : Zone(c, k, v)' => Zone(c, k, v)
    BY <1>1 DEF Zone, Owned
  <2> QED
    BY <1>1, <2>1, Keep DEF OwnInv, Created, Fresh, QueuedOnce
<1>2. CASE Request \/ SchedulerStep
  BY <1>2, OwnQuiet, OwnSpawn, OwnSetSlot DEF SchedulerStep
<1> QED
  BY <1>1, <1>2, OwnWorker DEF Next

\* A coroutine is never in two hands: not in two workers', not in a worker's
\* and in a queue between threads.
THEOREM Owning == Spec => [](TypeInv /\ OwnInv)
<1>1. TypeInv /\ OwnInv /\ [Next]_vars => OwnInv'
  BY OwnStep
<1> QED
  BY <1>1, OwnInit, Typing, PTL DEF Spec

\* No coroutine runs on two threads, or runs on one while another can still
\* get hold of it, wherever signals strike.
THEOREM RunsAlone == Spec => []ExclusiveRun
<1>1. TypeInv /\ OwnInv => ExclusiveRun
  <2> SUFFICES ASSUME TypeInv, OwnInv, NEW w \in Workers, Executing(w) # None
               PROVE  LET c == Executing(w) IN
                        /\ \A v \in Workers \ {w} :
                            /\ hold[v] # c /\ curr[v] # c
                            /\ c \notin ToSet(newq[v]) \union ToSet(suspq[v]) \union rt[v]
                        /\ c \notin ToSet(gq)
                        /\ \A v \in Workers : c \notin rtq[v] /\ slot[v] # c
    BY DEF ExclusiveRun
  <2>1. PICK c \in Ids : c = Executing(w) /\ hold[w] = c
    BY DEF Executing, TypeInv, TypeOK
  <2>2. Zone(c, "own", w) /\ Kinds = {"hand", "global", "rtq", "slot", "own"} /\ 0 \in Workers
    BY <2>1 DEF Zone, Owned, Kinds, Workers, Ids, None
  <2>3. \A k \in Kinds, v \in Workers : Zone(c, k, v) => k = "own" /\ v = w
    BY <2>2 DEF OwnInv, Exclusive
  <2>4. \A v \in Workers \ {w} : c \notin Owned(v)
    BY <2>2, <2>3 DEF Zone
  <2>5. c \notin ToSet(gq) /\ \A v \in Workers : c \notin rtq[v] /\ slot[v] # c
    BY <2>2, <2>3 DEF Zone
  <2> QED
    BY <2>1, <2>4, <2>5 DEF Owned, Ids, None
<1> QED
  BY <1>1, Owning, PTL
=============================================================================
