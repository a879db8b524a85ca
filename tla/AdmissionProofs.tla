--------------------------- MODULE AdmissionProofs ---------------------------
(***************************************************************************)
(* Admission control for any number of tasks, any execution times and      *)
(* deadlines, any overrun: what the board charges and a verdict reads from *)
(* its copy, when is_schedulable waits and when its subtraction may panic, *)
(* and what an accepting verdict leaves in time.                           *)
(***************************************************************************)
EXTENDS Admission, Sums

USE AdmissionAssumption

InHand == spc \in {"admit", "judge", "writeBack", "spawn"}

\* The request in hand is new until it is pushed, and its id has been given;
\* ids not handed out have left no trace.
Fresh ==
    /\ InHand => /\ job \in Tasks /\ job < nextId /\ ran[job] = 0
                 /\ job \notin DOMAIN board \union Living \union done
    /\ spc = "note" => job \in Living \union done /\ job < nextId
    /\ \A c \in Tasks : c >= nextId =>
        c \notin DOMAIN board \union Living \union done /\ got[c] = 0 /\ ran[c] = 0

\* What runs has a start time in the past, and nothing else has one.
Clock ==
    /\ run # None => start[run] \in Instants /\ start[run] <= now
    /\ \A c \in Ids : c # run => start[c] = NotStarted

\* A task has had the time charged to it, and the time since its start.
Since(c) == IF start[c] = NotStarted THEN 0 ELSE now - start[c]
Accounted(c) == got[c] = ran[c] + Since(c) /\ rem[c] = Remaining(c, ran[c])
Accounts == \A c \in Tasks \ done : Accounted(c)

\* The entry of a task is a copy of its own status, or it came late and is
\* that of a task that has not begun.
Mirrored(c) ==
    \/ board[c].rem = rem[c] /\ board[c].start = start[c]
    \/ c \in late /\ board[c].rem = cost[c] /\ board[c].start = NotStarted

\* An accepted task has an entry unless it is about to be noted and has not
\* begun; other entries came late, or are that of the task without a deadline.
Boarded ==
    /\ \A c \in Living : c \in DOMAIN board => Mirrored(c)
    /\ \A c \in Living : c \notin DOMAIN board =>
        spc = "note" /\ c = job /\ c # run /\ ran[c] = 0
    /\ DOMAIN board \subseteq Living \union late \union {Nrt}

\* What runs has been announced, and the board says since when; the task
\* without a deadline is on the board only as long as it is not over.
Announced ==
    /\ run # None => curId = run /\ run \in DOMAIN board
    /\ run = Nrt => board[Nrt].start # NotStarted
    /\ Nrt \in DOMAIN board => nrt \in {"waiting", "running"}
    /\ nrt = "running" => run = Nrt

\* The copy of the board is as good as the board for what is still alive.
Reflected(c) ==
    \/ /\ snap[c].rem = rem[c]
       /\ snap[c].start # NotStarted => run = c /\ snap[c].start = start[c]
    \/ c \in late /\ snap[c].rem = cost[c] /\ snap[c].start = NotStarted
Copied == spc = "judge" => \A c \in Living : c \in DOMAIN snap /\ Reflected(c)

AdmInv == AdmissionTypeOK /\ Fresh /\ Clock /\ Accounts /\ Boarded /\ Announced /\ Copied

LEMMA IdKinds ==
  /\ Ids = Tasks \union {Nrt} /\ Nrt \notin Tasks /\ None \notin Ids /\ None \notin Tasks
  /\ None # Nrt /\ Nrt \in Ids /\ Tasks \subseteq Ids
  /\ Tasks \subseteq Nat /\ \A c \in Tasks : c <= MaxTasks
  /\ Costs \union {0} \subseteq Nat
  /\ NotStarted \notin Nat /\ NotStarted \notin Instants /\ Instants \subseteq Nat
BY DEF Ids, Tasks, Nrt, None, NotStarted, Instants

LEMMA EntryFields ==
  \A x \in Entry : x.rem \in Nat /\ x.start \in Instants \union {NotStarted}
BY DEF Entry

\* What the types say of single ids and entries.
LEMMA Kinds ==
  ASSUME AdmInv
  PROVE  /\ now \in Nat /\ now \in Instants /\ due \in [Ids -> Nat] /\ cost \in [Ids -> Nat]
         /\ got \in [Ids -> Nat] /\ ran \in [Ids -> Nat] /\ rem \in [Ids -> Nat]
         /\ start \in [Ids -> Instants \union {NotStarted}] /\ nextId \in Nat
         /\ Tasks \subseteq Ids
         /\ \A c \in Tasks : c \in Ids /\ due[c] \in Nat /\ cost[c] \in Nat /\ got[c] \in Nat
<1>1. /\ now \in Instants /\ due \in [Ids -> Instants] /\ cost \in [Ids -> Costs \union {0}]
      /\ got \in [Ids -> Nat] /\ ran \in [Ids -> Nat] /\ rem \in [Ids -> Nat]
      /\ start \in [Ids -> Instants \union {NotStarted}] /\ nextId \in 1 .. MaxTasks + 1
  BY DEF AdmInv, AdmissionTypeOK, StatusOK
<1>3. now \in Nat /\ nextId \in Nat
  BY <1>1, IdKinds
<1>4. due \in [Ids -> Nat]
  BY <1>1, IdKinds
<1>5. cost \in [Ids -> Nat]
  BY <1>1, IdKinds
<1>2. Tasks \subseteq Ids
  BY IdKinds
<1> QED
  BY <1>1, <1>2, <1>3, <1>4, <1>5

LEMMA Alive ==
  ASSUME AdmInv
  PROVE  /\ Living \subseteq Tasks \ done /\ Living \subseteq Ids
         /\ InHand => job \in Tasks /\ job \in Ids /\ job < nextId /\ job # run /\ job # Nrt
         /\ \A c \in Living : c < nextId /\ (InHand => c # job)
         /\ run \in Tasks => run \in Living
<1>1. Living \subseteq Tasks \ done /\ Living \subseteq Ids
  BY IdKinds DEF Living, AdmInv, AdmissionTypeOK
<1>2. run \in Tasks => run \in Living
  BY DEF Living
<1>3. InHand => job \in Tasks /\ job \in Ids /\ job < nextId /\ job \notin Living /\ job # run /\ job # Nrt
  BY IdKinds DEF AdmInv, Fresh, Living
<1>4. \A c \in Living : c < nextId
  <2>1. \A c \in Tasks : c \in Nat
    BY IdKinds
  <2> QED
    BY <1>1, <2>1, Kinds DEF AdmInv, Fresh
<1> QED
  BY <1>1, <1>2, <1>3, <1>4

LEMMA AdmInit == Init => AdmInv
<1> SUFFICES ASSUME Init PROVE AdmInv
  OBVIOUS
<1> USE DEF Init
<1>1. StatusOK /\ ThreadOK
  <2>1. 0 \in Instants
    BY DEF Instants
  <2> QED
    BY <2>1, IdKinds DEF StatusOK, ThreadOK, NoMap
<1>2. Living = {}
  BY IdKinds DEF Living
<1>3. AdmissionTypeOK
  BY <1>1, <1>2 DEF AdmissionTypeOK, Instants, NoMap, Ids, Tasks, Nrt, None
<1>4. Fresh /\ Clock /\ Copied /\ Boarded /\ Announced
  BY <1>2, IdKinds DEF Fresh, InHand, Clock, Copied, Boarded, Announced, Tasks, NoMap
<1>5. Accounts
  BY DEF Accounts, Accounted, Since, Remaining, NotStarted, Ids, Tasks
<1> QED
  BY <1>3, <1>4, <1>5 DEF AdmInv

LEMMA AdmRequest ==
  ASSUME AdmInv, NEW e \in Costs, NEW r \in RelDeadlines, Request(e, r)
  PROVE  AdmInv'
<1>1. /\ nextId \in Tasks /\ nextId \in Ids /\ nextId' = nextId + 1 /\ job' = nextId
      /\ spc = "idle" /\ spc' = "admit"
      /\ UNCHANGED <<now, ran, start, board, ava, run, ready, nrt, done, got,
                     curId, snap, copy, verdict, via, waited, late>>
      /\ cost' = [cost EXCEPT ![nextId] = e] /\ rem' = [rem EXCEPT ![nextId] = e]
      /\ due' = [due EXCEPT ![nextId] = now + r]
  BY DEF Request, AdmInv, AdmissionTypeOK, Tasks, Ids, workerVars, threadVars, historyVars
<1>2. now + r \in Instants /\ e \in Nat /\ e \in Costs
  <2>1. e \in Nat /\ r \in Nat /\ now \in Nat /\ now + r <= Horizon /\ Horizon \in Nat
    BY Kinds, IdKinds DEF Request
  <2> QED
    BY <2>1 DEF Instants
<1>3. Living' = Living
  BY <1>1 DEF Living
<1>4. AdmissionTypeOK'
  <2>1. StatusOK' /\ ThreadOK'
    BY <1>1, <1>2 DEF AdmInv, AdmissionTypeOK, StatusOK, ThreadOK
  <2>2. nextId' \in 1 .. MaxTasks + 1
    BY <1>1 DEF Tasks
  <2> QED
    BY <1>1, <1>3, <2>1, <2>2 DEF AdmInv, AdmissionTypeOK
<1>5. Fresh'
  <2>1. nextId \in Nat /\ \A c \in Tasks : c \in Nat
    BY Kinds, IdKinds
  <2>2. /\ nextId \notin DOMAIN board \union Living \union done /\ ran[nextId] = 0
    BY <1>1, <2>1 DEF AdmInv, Fresh
  <2>3. job' \in Tasks /\ job' < nextId' /\ spc' # "note"
    BY <1>1, <2>1
  <2>4. \A c \in Tasks : c >= nextId' => c >= nextId
    BY <1>1, <2>1
  <2> QED
    BY <1>1, <1>3, <2>2, <2>3, <2>4 DEF AdmInv, Fresh
<1>6. Clock' /\ Copied' /\ Announced'
  BY <1>1 DEF AdmInv, Clock, Copied, Announced
<1>7. \A c \in Ids : c # nextId => cost'[c] = cost[c] /\ rem'[c] = rem[c]
  BY <1>1, Kinds
<1>8. Boarded'
  <2>1. \A c \in Living : c \in Ids /\ c # nextId
    BY Alive, Kinds
  <2>2. \A c \in Living : c \in DOMAIN board
    BY <1>1 DEF AdmInv, Boarded
  <2> QED
    BY <1>1, <1>3, <1>7, <2>1, <2>2 DEF AdmInv, Boarded, Mirrored
<1>9. Accounts'
  <2>0. PICK n \in Tasks : n = nextId
    BY <1>1
  <2>1. ASSUME NEW c \in Tasks \ done, c # n PROVE Accounted(c)'
    <3>1. c \in Ids /\ Accounted(c) /\ cost'[c] = cost[c] /\ rem'[c] = rem[c]
      BY <1>7, <2>0, <2>1, IdKinds DEF AdmInv, Accounts
    <3> QED
      BY <1>1, <3>1 DEF Accounted, Since, Remaining
  <2>2. Accounted(n)'
    <3>1. n \in Nat /\ got[n] = 0 /\ ran[n] = 0 /\ n \notin Living
      BY <1>1, <2>0, Kinds DEF AdmInv, Fresh
    <3>2. cost'[n] = e /\ rem'[n] = e
      BY <1>1, <2>0, Kinds
    <3>3. start[n] = NotStarted
      BY <1>1, <2>0, <3>1, Alive DEF AdmInv, Clock
    <3> QED
      BY <1>1, <1>2, <3>1, <3>2, <3>3 DEF Accounted, Since, Remaining
  <2> QED
    BY <1>1, <2>1, <2>2 DEF Accounts
<1> QED
  BY <1>4, <1>5, <1>6, <1>8, <1>9 DEF AdmInv

\* A step that leaves the tasks and the worker alone, with the same request.
LEMMA AdmThread ==
  ASSUME AdmInv,
         UNCHANGED <<now, nextId, statusVars, board, workerVars, historyVars>>,
         ThreadOK', DOMAIN ava' \subseteq Tasks, Copied',
         spc # "note", spc' # "note",
         spc' \in {"idle", "panicked"} \/ (job' = job /\ InHand)
  PROVE  AdmInv'
<1> USE DEF statusVars, workerVars, historyVars
<1>0. Living' = Living
  BY DEF Living
<1>1. AdmissionTypeOK'
  BY <1>0 DEF AdmInv, AdmissionTypeOK, StatusOK
<1>2. Fresh'
  BY <1>0 DEF AdmInv, Fresh, InHand
<1>3. Clock' /\ Accounts' /\ Announced'
  BY DEF AdmInv, Clock, Accounts, Accounted, Since, Remaining, Announced
<1>4. Boarded'
  BY <1>0 DEF AdmInv, Boarded, Mirrored
<1> QED
  BY <1>1, <1>2, <1>3, <1>4 DEF AdmInv

LEMMA AdmSnapshot == ASSUME AdmInv, Snapshot PROVE AdmInv'
<1>1. /\ spc = "admit" /\ spc' = "judge" /\ snap' = board
      /\ UNCHANGED <<now, nextId, statusVars, board, ava, workerVars, job, copy, verdict, via,
                     historyVars>>
  BY DEF Snapshot
<1>2. ThreadOK' /\ DOMAIN ava' \subseteq Tasks
  BY <1>1 DEF AdmInv, AdmissionTypeOK, ThreadOK, historyVars
<1>3. Copied'
  <2>1. Living' = Living /\ UNCHANGED <<rem, start, cost, run, late>>
    BY <1>1 DEF Living, workerVars, statusVars, historyVars
  <2>2. \A c \in Living : start[c] # NotStarted => run = c
    BY Alive DEF AdmInv, Clock
  <2>3. \A c \in Living : c \in DOMAIN board /\ Mirrored(c)
    BY <1>1 DEF AdmInv, Boarded
  <2> QED
    BY <1>1, <2>1, <2>2, <2>3 DEF Copied, Reflected, Mirrored
<1> QED
  BY <1>1, <1>2, <1>3, AdmThread DEF InHand

LEMMA AdmVerdict ==
  ASSUME AdmInv, Retry \/ Judge \/ WriteBack \/ InstantiateFails
  PROVE  AdmInv'
<1>1. AdmissionTypeOK /\ ThreadOK /\ (InHand => job \in Tasks) /\ None \notin Tasks
  BY IdKinds, Alive DEF AdmInv, AdmissionTypeOK
<1>2. UNCHANGED <<now, nextId, statusVars, board, workerVars, historyVars>>
  BY DEF Retry, Judge, JudgeEmpty, JudgeNrt, JudgeQuick, JudgeInsert, JudgeReject, ToIdle,
         WriteBack, InstantiateFails
<1>3. /\ spc' \in {"idle", "panicked"} \/ (job' = job /\ InHand)
      /\ spc' \in {"idle", "admit", "writeBack", "spawn", "panicked"} /\ spc # "note"
  BY DEF Retry, Judge, JudgeEmpty, JudgeNrt, JudgeQuick, JudgeInsert, JudgeReject, ToIdle,
         WriteBack, InstantiateFails, AloneOrPanic, InHand
<1>4. spc' # "judge" /\ job' \in Tasks \union {None}
  BY <1>1 DEF Retry, Judge, JudgeEmpty, JudgeNrt, JudgeQuick, JudgeInsert, JudgeReject, ToIdle,
         WriteBack, InstantiateFails, AloneOrPanic, ThreadOK
<1>5. /\ verdict' \in {"none", "SCHEDULABLE", "PREEMPTIVE"}
      /\ via' \in {"none", "empty", "nrt", "nrtBlind", "quick", "insert"}
  BY <1>1 DEF Retry, Judge, JudgeEmpty, JudgeNrt, JudgeQuick, JudgeInsert, JudgeReject, ToIdle,
         WriteBack, InstantiateFails, AloneOrPanic, Verdict, ThreadOK
<1>6. snap' = snap \/ snap' = NoMap
  BY DEF Retry, Judge, JudgeEmpty, JudgeNrt, JudgeQuick, JudgeInsert, JudgeReject, ToIdle,
         WriteBack, InstantiateFails, AloneOrPanic, Verdict
<1>7. DOMAIN ava' \subseteq Tasks /\ DOMAIN copy' \subseteq Tasks
  <2>1. \A x : spc = "judge" => DOMAIN PutEntry(ava, job, x) \subseteq Tasks
    BY <1>1 DEF PutEntry, AdmissionTypeOK, InHand
  <2>2. DOMAIN Shifted \subseteq Tasks /\ DOMAIN NoMap \subseteq Tasks
    BY <1>1 DEF Shifted, NoMap, AdmissionTypeOK
  <2>3. DOMAIN ava \subseteq Tasks /\ DOMAIN copy \subseteq Tasks
    BY <1>1 DEF AdmissionTypeOK, ThreadOK
  <2>4. CASE Retry
    BY <2>3, <2>4 DEF Retry
  <2>5. CASE JudgeEmpty \/ JudgeNrt
    BY <2>1, <2>3, <2>5 DEF JudgeEmpty, JudgeNrt, AloneOrPanic
  <2>6. CASE JudgeQuick
    BY <2>1, <2>3, <2>6 DEF JudgeQuick
  <2>7. CASE JudgeInsert \/ JudgeReject
    BY <2>2, <2>3, <2>7 DEF JudgeInsert, JudgeReject
  <2>8. CASE WriteBack \/ InstantiateFails
    BY <2>2, <2>3, <2>8 DEF WriteBack, InstantiateFails
  <2> QED
    BY <2>4, <2>5, <2>6, <2>7, <2>8 DEF Judge
<1>8. ThreadOK'
  <2>1. DOMAIN snap' \subseteq Ids /\ \A c \in DOMAIN snap' : snap'[c] \in Entry
    BY <1>1, <1>6 DEF ThreadOK, NoMap
  <2> QED
    BY <1>1, <1>2, <1>3, <1>4, <1>5, <1>7, <2>1 DEF ThreadOK, historyVars
<1> QED
  BY <1>2, <1>3, <1>4, <1>7, <1>8, AdmThread DEF Copied

---------------------------------------------------------------------------
(* The worker, and time *)

\* The queue first: a task may run before it is noted.
LEMMA AdmPush == ASSUME AdmInv, Push PROVE AdmInv'
<1>1. /\ spc = "spawn" /\ InHand /\ spc' = "note" /\ ready' = ready \union {job}
      /\ UNCHANGED <<now, nextId, statusVars, board, ava, run, nrt, done, got, curId,
                     job, snap, copy, verdict, via, waited, late>>
  BY DEF Push, InHand, historyVars
<1>2. /\ job \in Tasks /\ job < nextId /\ ran[job] = 0 /\ job # run
      /\ job \notin DOMAIN board \union Living \union done
  BY <1>1, Alive DEF AdmInv, Fresh
<1>3. Living' = Living \union {job}
  BY <1>1, <1>2 DEF Living
<1>4. AdmissionTypeOK'
  <2>1. ThreadOK' /\ StatusOK'
    BY <1>1 DEF AdmInv, AdmissionTypeOK, ThreadOK, StatusOK, statusVars
  <2>2. ready' \subseteq Tasks \ {run'} /\ done' \subseteq Tasks \ Living'
    BY <1>1, <1>2, <1>3 DEF AdmInv, AdmissionTypeOK
  <2> QED
    BY <1>1, <2>1, <2>2 DEF AdmInv, AdmissionTypeOK
<1>5. Fresh'
  <2>1. \A c \in Tasks : c >= nextId => c # job
    BY <1>2, IdKinds, Kinds
  <2> QED
    BY <1>1, <1>2, <1>3, <2>1 DEF AdmInv, Fresh, InHand, statusVars
<1>6. Clock' /\ Accounts' /\ Announced' /\ Copied'
  BY <1>1 DEF AdmInv, Clock, Accounts, Accounted, Since, Remaining, Announced, Copied, statusVars
<1>7. Boarded'
  BY <1>1, <1>2, <1>3 DEF AdmInv, Boarded, Mirrored, statusVars
<1> QED
  BY <1>4, <1>5, <1>6, <1>7 DEF AdmInv

\* The board next, whatever has become of the task.
LEMMA AdmNote == ASSUME AdmInv, Note PROVE AdmInv'
<1>1. /\ spc = "note" /\ spc' = "idle" /\ ~InHand' /\ snap' = NoMap /\ job' = None
      /\ verdict' = "none" /\ via' = "none" /\ board' = PutEntry(board, job, Initial(job))
      /\ UNCHANGED <<now, nextId, statusVars, ava, workerVars, copy, waited>>
  BY DEF Note, ToIdle, InHand
<1>2. /\ job \in Tasks /\ job \in Ids /\ job # Nrt /\ job < nextId /\ job \in Living \union done
      /\ cost[job] \in Nat
  <2>1. job \in Living \union done /\ job < nextId
    BY <1>1 DEF AdmInv, Fresh
  <2>2. job \in Tasks
    BY <2>1, Alive DEF AdmInv, AdmissionTypeOK
  <2> QED
    BY <2>1, <2>2, IdKinds, Kinds
<1>3. /\ late \subseteq late' /\ late' \subseteq late \union {job}
      /\ job \in DOMAIN board \union done => job \in late'
  BY DEF Note
<1>4. /\ DOMAIN board' = DOMAIN board \union {job}
      /\ board'[job].rem = cost[job] /\ board'[job].start = NotStarted /\ board'[job] \in Entry
      /\ \A c \in DOMAIN board : c # job => board'[c] = board[c]
  <2>1. Initial(job).rem = cost[job] /\ Initial(job).start = NotStarted /\ Initial(job) \in Entry
    BY <1>2 DEF Initial, Entry
  <2> QED
    BY <1>1, <2>1 DEF PutEntry
<1>5. Living' = Living /\ UNCHANGED <<cost, rem, start, ran, run, curId, nrt, ready, done, got>>
  BY <1>1 DEF Living, workerVars, statusVars
<1>6. AdmissionTypeOK'
  <2>1. ThreadOK' /\ StatusOK'
    BY <1>1, <1>2, <1>3, <1>5 DEF AdmInv, AdmissionTypeOK, ThreadOK, StatusOK, NoMap, statusVars
  <2>2. DOMAIN board' \subseteq Ids /\ \A c \in DOMAIN board' : board'[c] \in Entry
    BY <1>2, <1>4 DEF AdmInv, AdmissionTypeOK
  <2> QED
    BY <1>1, <1>5, <2>1, <2>2 DEF AdmInv, AdmissionTypeOK
<1>7. Fresh'
  <2>1. \A c \in Tasks : c >= nextId => c # job
    BY <1>2, IdKinds, Kinds
  <2> QED
    BY <1>1, <1>4, <1>5, <2>1 DEF AdmInv, Fresh
<1>8. Clock' /\ Accounts' /\ Copied'
  BY <1>1, <1>5 DEF AdmInv, Clock, Accounts, Accounted, Since, Remaining, Copied
<1>9. Announced'
  BY <1>2, <1>4, <1>5, IdKinds DEF AdmInv, Announced
<1>10. Boarded'
  <2>1. ASSUME NEW c \in Living PROVE c \in DOMAIN board' /\ Mirrored(c)'
    <3>1. CASE c # job
      <4>1. c \in DOMAIN board /\ Mirrored(c) /\ board'[c] = board[c]
        BY <1>4, <2>1, <3>1 DEF AdmInv, Boarded
      <4> QED
        BY <1>3, <1>4, <1>5, <4>1 DEF Mirrored
    <3>2. CASE c = job /\ job \in late'
      BY <1>4, <1>5, <3>2 DEF Mirrored
    <3>3. CASE c = job /\ job \notin DOMAIN board
      <4>1. job # run /\ ran[job] = 0 /\ job \notin done
        BY <2>1, <3>3, Alive DEF AdmInv, Boarded
      <4>2. start[job] = NotStarted /\ rem[job] = Remaining(job, 0)
        BY <1>2, <4>1 DEF AdmInv, Clock, Accounts, Accounted
      <4>3. rem[job] = cost[job]
        BY <1>2, <4>2 DEF Remaining
      <4> QED
        BY <1>4, <1>5, <3>3, <4>2, <4>3 DEF Mirrored
    <3> QED
      BY <1>3, <1>4, <3>1, <3>2, <3>3
  <2>2. DOMAIN board' \subseteq Living' \union late' \union {Nrt}
    BY <1>2, <1>3, <1>4, <1>5 DEF AdmInv, Boarded
  <2> QED
    BY <1>5, <2>1, <2>2 DEF Boarded
<1> QED
  BY <1>6, <1>7, <1>8, <1>9, <1>10 DEF AdmInv

\* What a task that is taken off the CPU is charged.
LEMMA OffCpu ==
  ASSUME AdmInv, run # None
  PROVE  /\ run \in Ids /\ Used(run) \in Nat /\ Remaining(run, Used(run)) \in Nat
         /\ Stopped(run).rem = Remaining(run, Used(run)) /\ Stopped(run).start = NotStarted
         /\ Stopped(run) \in Entry
         /\ run \in Tasks => got[run] = Used(run)
<1>1. run \in Ids /\ ran[run] \in Nat /\ cost[run] \in Nat /\ now \in Nat
  BY Kinds DEF AdmInv, AdmissionTypeOK
<1>2. start[run] \in Nat /\ start[run] <= now /\ start[run] # NotStarted
  BY IdKinds DEF AdmInv, Clock
<1>3. run \in Tasks => Accounted(run)
  BY Alive DEF AdmInv, Accounts
<1>4. Used(run) \in Nat
  BY <1>1, <1>2 DEF Used
<1>5. Remaining(run, Used(run)) \in Nat
  BY <1>1, <1>4 DEF Remaining
<1>6. run \in Tasks => got[run] = Used(run)
  BY <1>2, <1>3 DEF Accounted, Since, Used
<1>7. /\ Stopped(run).rem = Remaining(run, Used(run)) /\ Stopped(run).start = NotStarted
      /\ Stopped(run) \in Entry
  BY <1>5 DEF Stopped, Entry
<1> QED
  BY <1>1, <1>4, <1>5, <1>6, <1>7

\* What a task that is put on the CPU is noted with.
LEMMA OnCpu ==
  ASSUME AdmInv, NEW c \in Ids
  PROVE  /\ Started(c).rem = rem[c] /\ Started(c).start = now /\ Started(c) \in Entry
         /\ now # NotStarted
<1>1. rem[c] \in Nat /\ now \in Instants /\ now # NotStarted
  BY Kinds, IdKinds
<1> QED
  BY <1>1 DEF Started, Entry

LEMMA AdmHandOverNow == ASSUME AdmInv, HandOverNow PROVE AdmInv'
<1>1. /\ InHand /\ spc = "spawn" /\ job \in Tasks /\ job \in Ids /\ job < nextId /\ job # run
      /\ job # Nrt /\ job \notin DOMAIN board \union Living \union done
      /\ run # None => run \in DOMAIN board /\ run \in Ids
  BY Alive DEF AdmInv, Fresh, Announced, HandOverNow, AdmissionTypeOK, InHand
<1>2. /\ run' = job /\ curId' = job
      /\ ready' = ready \union ({run} \intersect Tasks) /\ nrt' = IF run = Nrt THEN "waiting" ELSE nrt
      /\ UNCHANGED <<now, nextId, cost, due, ava, done, got, copy, waited, late>>
      /\ spc' = "idle" /\ job' = None /\ snap' = NoMap /\ verdict' = "none" /\ via' = "none"
      /\ ~InHand'
  BY DEF HandOverNow, ToIdle, InHand, historyVars
<1>3. start' = IF run = None THEN [start EXCEPT ![job] = now]
               ELSE [start EXCEPT ![run] = NotStarted, ![job] = now]
  BY DEF HandOverNow
<1>4. /\ run = None => ran' = ran /\ rem' = rem /\ board' = PutEntry(board, job, Started(job))
      /\ run # None => /\ ran' = [ran EXCEPT ![run] = Used(run)]
                       /\ rem' = [rem EXCEPT ![run] = Stopped(run).rem]
                       /\ board' = PutEntry(PutEntry(board, run, Stopped(run)), job, Started(job))
  BY DEF HandOverNow
<1>5. run # None => /\ run \in Ids /\ Used(run) \in Nat /\ Remaining(run, Used(run)) \in Nat
                    /\ Stopped(run).rem = Remaining(run, Used(run))
                    /\ Stopped(run).start = NotStarted /\ Stopped(run) \in Entry
                    /\ run \in Tasks => got[run] = Used(run)
  BY OffCpu
<1>6. /\ Started(job).rem = rem[job] /\ Started(job).start = now /\ Started(job) \in Entry
      /\ now # NotStarted
  BY <1>1, OnCpu
<1>7. /\ DOMAIN board' = DOMAIN board \union {job} /\ board'[job] = Started(job)
      /\ run # None => board'[run] = Stopped(run)
      /\ \A c \in DOMAIN board : c # run => board'[c] = board[c]
  <2>1. CASE run = None
    BY <1>1, <1>4, <2>1 DEF PutEntry
  <2>2. CASE run # None
    <3> DEFINE mid == PutEntry(board, run, Stopped(run))
    <3>1. /\ DOMAIN mid = DOMAIN board /\ mid[run] = Stopped(run)
          /\ \A c \in DOMAIN board : c # run => mid[c] = board[c]
      BY <1>1, <2>2 DEF PutEntry
    <3>2. board' = PutEntry(mid, job, Started(job))
      BY <1>4, <2>2
    <3> HIDE DEF mid
    <3>3. /\ DOMAIN board' = DOMAIN mid \union {job} /\ board'[job] = Started(job)
          /\ \A c \in DOMAIN mid : c # job => board'[c] = mid[c]
      BY <3>2 DEF PutEntry
    <3> QED
      BY <1>1, <2>2, <3>1, <3>3
  <2> QED
    BY <2>1, <2>2
<1>8. Living' = Living \union {job}
  BY <1>1, <1>2 DEF Living, AdmInv, AdmissionTypeOK
<1>9. /\ \A c \in Ids : c # run => ran'[c] = ran[c] /\ rem'[c] = rem[c]
      /\ run # None => ran'[run] = Used(run) /\ rem'[run] = Stopped(run).rem
      /\ start'[job] = now /\ \A c \in Ids : c # job => start'[c] = NotStarted
  <2>1. \A c \in Ids : c # run => ran'[c] = ran[c] /\ rem'[c] = rem[c]
    BY <1>4, Kinds
  <2>2. run # None => ran'[run] = Used(run) /\ rem'[run] = Stopped(run).rem
    BY <1>4, <1>5, Kinds
  <2>3. start'[job] = now /\ \A c \in Ids : c # job => start'[c] = NotStarted
    BY <1>1, <1>3, <1>5, Kinds, IdKinds DEF AdmInv, Clock
  <2> QED
    BY <2>1, <2>2, <2>3
<1>10. AdmissionTypeOK'
  <2>1. start' \in [Ids -> Instants \union {NotStarted}]
    BY <1>1, <1>3, <1>5, Kinds
  <2>2. ran' \in [Ids -> Nat] /\ rem' \in [Ids -> Nat]
    BY <1>4, <1>5, Kinds
  <2>3. StatusOK' /\ ThreadOK'
    BY <1>2, <2>1, <2>2 DEF AdmInv, AdmissionTypeOK, StatusOK, ThreadOK, NoMap
  <2>4. DOMAIN board' \subseteq Ids /\ \A c \in DOMAIN board' : board'[c] \in Entry
    BY <1>1, <1>5, <1>6, <1>7, IdKinds DEF AdmInv, AdmissionTypeOK
  <2>5. ready' \subseteq Tasks \ {run'} /\ done' \subseteq Tasks \ Living'
    BY <1>1, <1>2, <1>8 DEF AdmInv, AdmissionTypeOK, Living
  <2> QED
    BY <1>1, <1>2, <2>3, <2>4, <2>5 DEF AdmInv, AdmissionTypeOK
<1>11. Fresh'
  <2>1. ASSUME NEW c \in Tasks, c >= nextId
        PROVE  c \notin DOMAIN board' \union Living' \union done' /\ got'[c] = 0 /\ ran'[c] = 0
    <3>1. c \notin DOMAIN board \union Living \union done /\ got[c] = 0 /\ ran[c] = 0 /\ c # job
      BY <1>1, <2>1, IdKinds, Kinds DEF AdmInv, Fresh
    <3>2. c # run /\ c \in Ids
      BY <3>1, Alive, IdKinds
    <3> QED
      BY <1>2, <1>7, <1>8, <1>9, <3>1, <3>2
  <2> QED
    BY <1>2, <2>1 DEF Fresh
<1>12. Clock' /\ Copied'
  BY <1>1, <1>2, <1>9, Kinds DEF Clock, Copied
<1>13. ASSUME NEW c \in Tasks \ done PROVE Accounted(c)'
  <2>1. Accounted(c) /\ c \in Ids /\ now \in Nat
    BY IdKinds, Kinds DEF AdmInv, Accounts
  <2>2. CASE c = run
    <3>1. ran'[c] = Used(c) /\ rem'[c] = Remaining(c, Used(c)) /\ start'[c] = NotStarted /\ got[c] = Used(c)
          /\ Used(c) \in Nat
      BY <1>1, <1>5, <1>9, <2>1, <2>2, IdKinds
    <3> QED
      BY <1>2, <2>1, <3>1 DEF Accounted, Since, Remaining
  <2>3. CASE c # run
    <3>1. ran'[c] = ran[c] /\ rem'[c] = rem[c] /\ ran[c] \in Nat
      BY <1>9, <2>1, <2>3, Kinds
    <3>2. start[c] = NotStarted /\ start'[c] \in {NotStarted, now}
      BY <1>9, <2>1, <2>3 DEF AdmInv, Clock
    <3> QED
      BY <1>2, <2>1, <3>1, <3>2, IdKinds DEF Accounted, Since, Remaining, NotStarted
  <2> QED
    BY <2>2, <2>3
<1>14. Announced'
  BY <1>1, <1>2, <1>6, <1>7, Alive, IdKinds DEF AdmInv, Announced
<1>15. Boarded'
  <2>1. ASSUME NEW c \in Living' PROVE c \in DOMAIN board' /\ Mirrored(c)'
    <3>1. CASE c = job
      <4>1. rem'[job] = rem[job] /\ start'[job] = now
        BY <1>1, <1>9
      <4> QED
        BY <1>6, <1>7, <3>1, <4>1 DEF Mirrored
    <3>2. CASE c # job
      <4>1. c \in Living /\ c \in Ids /\ c \in DOMAIN board /\ Mirrored(c)
        BY <1>1, <1>8, <2>1, <3>2, Alive DEF AdmInv, Boarded
      <4>2. CASE c = run
        BY <1>5, <1>7, <1>9, <3>2, <4>1, <4>2, IdKinds DEF Mirrored
      <4>3. CASE c # run
        <5>1. start[c] = NotStarted /\ start'[c] = NotStarted /\ rem'[c] = rem[c] /\ board'[c] = board[c]
          BY <1>7, <1>9, <3>2, <4>1, <4>3 DEF AdmInv, Clock
        <5> QED
          BY <1>2, <1>7, <4>1, <5>1 DEF Mirrored
      <4> QED
        BY <4>2, <4>3
    <3> QED
      BY <3>1, <3>2
  <2>2. DOMAIN board' \subseteq Living' \union late' \union {Nrt}
    BY <1>2, <1>7, <1>8 DEF AdmInv, Boarded
  <2> QED
    BY <2>1, <2>2 DEF Boarded
<1> QED
  BY <1>2, <1>10, <1>11, <1>12, <1>13, <1>14, <1>15 DEF AdmInv, Accounts

LEMMA AdmResume == ASSUME AdmInv, NEW c \in Ids, Resume(c) PROVE AdmInv'
<1>1. /\ run = None /\ run' = c /\ curId' = c /\ board' = PutEntry(board, c, Started(c))
      /\ start' = [start EXCEPT ![c] = now] /\ ready' = ready \ {c}
      /\ nrt' = IF c = Nrt THEN "running" ELSE nrt
      /\ UNCHANGED <<now, nextId, cost, due, ran, rem, ava, done, got, threadVars>>
  BY DEF Resume
<1>2. (c \in Tasks => c \in ready /\ c \in Living) /\ None \notin ready /\ c # None
  BY IdKinds DEF Resume, Chosen, AdmInv, AdmissionTypeOK, Living
<1>3. start'[c] = now /\ \A d \in Ids : start[d] = NotStarted /\ (d # c => start'[d] = NotStarted)
  BY <1>1, Kinds, IdKinds DEF AdmInv, Clock
<1>4. /\ DOMAIN board' = DOMAIN board \union {c} /\ board'[c].rem = rem[c] /\ board'[c].start = now
      /\ board'[c] \in Entry /\ now # NotStarted
      /\ \A d \in DOMAIN board : d # c => board'[d] = board[d]
  BY <1>1, OnCpu DEF PutEntry
<1>5. Living' = Living /\ UNCHANGED <<spc, job, snap, copy, verdict, via, waited, late>>
  BY <1>1, <1>2, IdKinds DEF Living, threadVars, historyVars
<1>6. AdmissionTypeOK'
  <2>1. StatusOK' /\ ThreadOK'
    BY <1>1, <1>5, Kinds DEF AdmInv, AdmissionTypeOK, StatusOK, ThreadOK
  <2>2. DOMAIN board' \subseteq Ids /\ \A d \in DOMAIN board' : board'[d] \in Entry
    BY <1>4 DEF AdmInv, AdmissionTypeOK
  <2> QED
    BY <1>1, <1>5, <2>1, <2>2 DEF AdmInv, AdmissionTypeOK
<1>7. Fresh'
  <2>1. InHand' = InHand /\ DOMAIN board' \subseteq DOMAIN board \union Living \union {Nrt}
    BY <1>2, <1>4, <1>5, IdKinds DEF InHand
  <2> QED
    BY <1>1, <1>5, <2>1, Alive, IdKinds DEF AdmInv, Fresh
<1>8. Clock'
  BY <1>1, <1>3, Kinds DEF Clock
<1>9. Accounts'
  <2>1. ASSUME NEW d \in Tasks \ done PROVE Accounted(d)'
    <3>1. Accounted(d) /\ d \in Ids /\ start'[d] \in {NotStarted, now} /\ start[d] = NotStarted
      BY <1>1, <1>3, IdKinds DEF AdmInv, Accounts
    <3> QED
      BY <1>1, <3>1, IdKinds, Kinds DEF Accounted, Since, Remaining
  <2> QED
    BY <1>1, <2>1 DEF Accounts
<1>10. Copied'
  <2>1. ASSUME spc = "judge", NEW d \in Living PROVE d \in DOMAIN snap /\ Reflected(d)'
    <3>1. d \in Ids /\ d \in DOMAIN snap /\ Reflected(d) /\ d # run
      BY <1>1, <2>1, Alive, IdKinds DEF AdmInv, Copied
    <3> QED
      BY <1>1, <1>5, <3>1 DEF Reflected
  <2> QED
    BY <1>5, <2>1 DEF Copied
<1>11. Announced'
  BY <1>1, <1>2, <1>4, IdKinds DEF AdmInv, Announced
<1>12. Boarded'
  <2>1. ASSUME NEW d \in Living, d \in DOMAIN board' PROVE Mirrored(d)'
    <3>1. CASE d = c
      BY <1>1, <1>3, <1>4, <3>1 DEF Mirrored
    <3>2. CASE d # c
      <4>1. d \in Ids /\ d \in DOMAIN board /\ Mirrored(d) /\ board'[d] = board[d]
        BY <1>4, <2>1, <3>2, Alive DEF AdmInv, Boarded
      <4> QED
        BY <1>1, <1>3, <1>5, <3>2, <4>1 DEF Mirrored
    <3> QED
      BY <3>1, <3>2
  <2>2. \A d \in Living : d \notin DOMAIN board' => spc = "note" /\ d = job /\ d # c /\ ran[d] = 0
    BY <1>4 DEF AdmInv, Boarded
  <2>3. DOMAIN board' \subseteq Living \union late \union {Nrt}
    BY <1>2, <1>4, IdKinds DEF AdmInv, Boarded
  <2> QED
    BY <1>1, <1>5, <2>1, <2>2, <2>3 DEF Boarded
<1> QED
  BY <1>6, <1>7, <1>8, <1>9, <1>10, <1>11, <1>12 DEF AdmInv

LEMMA AdmAlarm == ASSUME AdmInv, Alarm PROVE AdmInv'
<1>1. /\ run = Nrt /\ run' = None /\ nrt' = "waiting"
      /\ ran' = [ran EXCEPT ![Nrt] = Used(Nrt)] /\ rem' = [rem EXCEPT ![Nrt] = Stopped(Nrt).rem]
      /\ start' = [start EXCEPT ![Nrt] = NotStarted] /\ board' = PutEntry(board, Nrt, Stopped(Nrt))
      /\ UNCHANGED <<now, nextId, cost, due, ava, ready, done, got, curId, threadVars>>
  BY DEF Alarm
<1>2. Nrt \in Ids /\ Used(Nrt) \in Nat /\ Stopped(Nrt).rem \in Nat /\ Stopped(Nrt) \in Entry
  BY <1>1, OffCpu, IdKinds
<1>3. /\ DOMAIN board' = DOMAIN board \union {Nrt} /\ board'[Nrt] \in Entry
      /\ \A d \in DOMAIN board : d # Nrt => board'[d] = board[d]
  BY <1>1, <1>2 DEF PutEntry
<1>4. Living' = Living /\ UNCHANGED <<spc, job, snap, copy, verdict, via, waited, late>>
  BY <1>1, IdKinds DEF Living, threadVars, historyVars
<1>5. \A c \in Tasks : /\ ran'[c] = ran[c] /\ rem'[c] = rem[c] /\ start'[c] = start[c]
                       /\ start[c] = NotStarted /\ c # Nrt /\ c # run
  <2>1. ASSUME NEW c \in Tasks
        PROVE  c \in Ids /\ c # Nrt
    BY IdKinds
  <2> QED
    BY <1>1, <2>1, Kinds DEF AdmInv, Clock
<1>6. AdmissionTypeOK'
  <2>1. StatusOK' /\ ThreadOK'
    BY <1>1, <1>2, <1>4, Kinds DEF AdmInv, AdmissionTypeOK, StatusOK, ThreadOK
  <2>2. DOMAIN board' \subseteq Ids /\ \A d \in DOMAIN board' : board'[d] \in Entry
    BY <1>2, <1>3 DEF AdmInv, AdmissionTypeOK
  <2>3. None \notin ready
    BY IdKinds DEF AdmInv, AdmissionTypeOK
  <2> QED
    BY <1>1, <1>4, <2>1, <2>2, <2>3 DEF AdmInv, AdmissionTypeOK
<1>7. Fresh' /\ Accounts'
  BY <1>1, <1>3, <1>4, <1>5 DEF AdmInv, Fresh, InHand, Accounts, Accounted, Since, Remaining
<1>8. Clock'
  BY <1>1, <1>2, Kinds DEF AdmInv, Clock
<1>9. Announced'
  BY <1>1, IdKinds DEF AdmInv, Announced
<1>10. Copied'
  <2>1. \A d \in Living : d \in Tasks
    BY Alive
  <2> QED
    BY <1>1, <1>4, <1>5, <2>1 DEF AdmInv, Copied, Reflected
<1>11. Boarded'
  <2>1. \A d \in Living : d \in Tasks
    BY Alive
  <2>2. \A d \in Living : d \in DOMAIN board' => Mirrored(d)'
    BY <1>1, <1>3, <1>4, <1>5, <2>1 DEF AdmInv, Boarded, Mirrored
  <2>3. \A d \in Living : d \notin DOMAIN board' => spc = "note" /\ d = job /\ d # None /\ ran'[d] = 0
    BY <1>3, <1>5, <2>1, IdKinds DEF AdmInv, Boarded
  <2>4. DOMAIN board' \subseteq Living \union late \union {Nrt}
    BY <1>3 DEF AdmInv, Boarded
  <2> QED
    BY <1>1, <1>4, <2>2, <2>3, <2>4 DEF Boarded
<1> QED
  BY <1>6, <1>7, <1>8, <1>9, <1>10, <1>11 DEF AdmInv

LEMMA AdmFinish == ASSUME AdmInv, Finish PROVE AdmInv'
<1>1. /\ run # None /\ run' = None /\ board' = DropEntry(board, run) /\ DOMAIN ava' = DOMAIN ava \ {run}
      /\ start' = [start EXCEPT ![run] = NotStarted] /\ done' = done \union ({run} \intersect Tasks)
      /\ nrt' = IF run = Nrt THEN "over" ELSE nrt
      /\ UNCHANGED <<now, nextId, cost, due, ran, rem, ready, got, curId, threadVars>>
  BY DEF Finish, DropEntry
<1>2. run \in Ids /\ run \in DOMAIN board /\ None \notin ready
  BY <1>1, IdKinds DEF AdmInv, AdmissionTypeOK, Announced
<1>3. DOMAIN board' = DOMAIN board \ {run} /\ \A d \in DOMAIN board' : board'[d] = board[d]
  BY <1>1 DEF DropEntry
<1>4. Living' = Living \ {run} /\ UNCHANGED <<spc, job, snap, copy, verdict, via, waited, late>>
  BY <1>1, IdKinds DEF Living, AdmInv, AdmissionTypeOK, threadVars, historyVars
<1>5. \A c \in Ids : c # run => start'[c] = start[c]
  BY <1>1, Kinds
<1>6. AdmissionTypeOK'
  <2>1. StatusOK' /\ ThreadOK'
    BY <1>1, <1>2, <1>4, Kinds DEF AdmInv, AdmissionTypeOK, StatusOK, ThreadOK
  <2>2. done' \subseteq Tasks \ Living'
    BY <1>1, <1>4 DEF AdmInv, AdmissionTypeOK
  <2> QED
    BY <1>1, <1>2, <1>3, <2>1, <2>2 DEF AdmInv, AdmissionTypeOK
<1>7. Fresh'
  <2>1. Living' \subseteq Living /\ done' \subseteq done \union Living /\ Living \subseteq Living' \union done'
    BY <1>1, <1>4, Alive, IdKinds
  <2>2. InHand' = InHand /\ DOMAIN board' \subseteq DOMAIN board
    BY <1>3, <1>4 DEF InHand
  <2> QED
    BY <1>1, <1>4, <2>1, <2>2 DEF AdmInv, Fresh
<1>8. Clock'
  BY <1>1, <1>2, Kinds DEF AdmInv, Clock
<1>9. Accounts'
  BY <1>1, <1>5, IdKinds DEF AdmInv, Accounts, Accounted, Since, Remaining
<1>10. Announced'
  BY <1>1, <1>3, IdKinds DEF AdmInv, Announced
<1>11. Copied'
  <2>1. ASSUME spc = "judge", NEW d \in Living' PROVE d \in DOMAIN snap /\ Reflected(d)'
    <3>1. d \in Ids /\ d \in DOMAIN snap /\ Reflected(d) /\ d # run
      BY <1>4, <2>1, Alive DEF AdmInv, Copied
    <3> QED
      BY <1>1, <1>4, <1>5, <3>1 DEF Reflected
  <2> QED
    BY <1>4, <2>1 DEF Copied
<1>12. Boarded'
  <2>1. ASSUME NEW d \in Living' PROVE d \in Ids /\ d \in Living /\ d # run
    BY <1>4, <2>1, Alive
  <2>2. \A d \in Living' : d \in DOMAIN board' => Mirrored(d)'
    BY <1>1, <1>3, <1>4, <1>5, <2>1 DEF AdmInv, Boarded, Mirrored
  <2>3. \A d \in Living' : d \notin DOMAIN board' => spc = "note" /\ d = job /\ d # None /\ ran[d] = 0
    BY <1>3, <2>1, IdKinds DEF AdmInv, Boarded
  <2>4. DOMAIN board' \subseteq Living' \union late \union {Nrt}
    BY <1>3, <1>4 DEF AdmInv, Boarded
  <2> QED
    BY <1>1, <1>4, <2>2, <2>3, <2>4 DEF Boarded
<1> QED
  BY <1>6, <1>7, <1>8, <1>9, <1>10, <1>11, <1>12 DEF AdmInv

LEMMA AdmElapse ==
  ASSUME AdmInv, Elapse, waited' \in BOOLEAN
  PROVE  AdmInv'
<1>1. /\ now < Horizon /\ now' = now + 1
      /\ got' = IF run \in Tasks THEN [got EXCEPT ![run] = @ + 1] ELSE got
      /\ UNCHANGED <<nextId, statusVars, board, ava, run, ready, nrt, done, curId,
                     spc, job, snap, copy, verdict, via, late>>
  BY DEF Elapse
<1>2. now \in Nat /\ now' \in Instants /\ got \in [Ids -> Nat] /\ got' \in [Ids -> Nat]
  BY <1>1, Kinds DEF AdmInv, AdmissionTypeOK, Instants
<1>3. Living' = Living /\ InHand' = InHand /\ UNCHANGED <<cost, ran, rem, start>>
  BY <1>1 DEF Living, InHand, statusVars
<1>4. AdmissionTypeOK'
  <2>1. StatusOK' /\ ThreadOK'
    BY <1>1 DEF AdmInv, AdmissionTypeOK, StatusOK, ThreadOK, statusVars
  <2> QED
    BY <1>1, <1>2, <1>3, <2>1 DEF AdmInv, AdmissionTypeOK
<1>5. Fresh'
  <2>1. \A c \in Tasks : c >= nextId => c # run
    BY Alive DEF AdmInv, Fresh
  <2>2. \A c \in Tasks : c >= nextId => got'[c] = got[c]
    BY <1>1, <2>1, Kinds
  <2> QED
    BY <1>1, <1>3, <2>2 DEF AdmInv, Fresh
<1>6. Clock'
  <2>1. run # None => start[run] \in Nat /\ start[run] \in Instants /\ start[run] <= now
    BY IdKinds DEF AdmInv, Clock
  <2> QED
    BY <1>1, <1>2, <1>3, <2>1 DEF AdmInv, Clock
<1>7. ASSUME NEW c \in Tasks \ done PROVE Accounted(c)'
  <2>1. Accounted(c) /\ c \in Ids /\ ran[c] \in Nat /\ got[c] \in Nat
    BY Kinds DEF AdmInv, Accounts
  <2>2. CASE c = run
    <3>1. start[c] \in Nat /\ start[c] # NotStarted /\ got'[c] = got[c] + 1
      BY <1>1, <1>2, <2>1, <2>2, IdKinds DEF AdmInv, Clock
    <3> QED
      BY <1>1, <1>2, <1>3, <2>1, <3>1 DEF Accounted, Since, Remaining
  <2>3. CASE c # run
    <3>1. start[c] = NotStarted /\ got'[c] = got[c]
      BY <1>1, <1>2, <2>1, <2>3 DEF AdmInv, Clock
    <3> QED
      BY <1>1, <1>3, <2>1, <3>1 DEF Accounted, Since, Remaining
  <2> QED
    BY <2>2, <2>3
<1>8. Accounts' /\ Copied' /\ Announced' /\ Boarded'
  BY <1>1, <1>3, <1>7 DEF Accounts, AdmInv, Copied, Reflected, Announced, Boarded, Mirrored
<1> QED
  BY <1>4, <1>5, <1>6, <1>8 DEF AdmInv

---------------------------------------------------------------------------
\* The inductive invariant: what runs has a start time, every task is charged
\* the time it has had, the board copies what a task keeps of itself unless
\* its entry came late, and the copy a verdict is given on is right about the
\* tasks that are still alive.
THEOREM Accounting == Spec => []AdmInv
<1>1. AdmInv /\ [Next]_vars => AdmInv'
  <2>1. CASE UNCHANGED vars
    BY <2>1 DEF AdmInv, AdmissionTypeOK, StatusOK, ThreadOK, Fresh, InHand, Clock, Accounts, Accounted,
       Since, Remaining, Boarded, Mirrored, Announced, Copied, Reflected, Living, vars, statusVars,
       workerVars, threadVars, historyVars
  <2>2. ASSUME AdmInv, NEW e \in Costs, NEW r \in RelDeadlines, RequestNrt(e, r) PROVE AdmInv'
    BY <2>2 DEF RequestNrt, AdmInv, AdmissionTypeOK, StatusOK, ThreadOK, Fresh, InHand, Clock, Accounts,
       Accounted, Since, Remaining, Boarded, Mirrored, Announced, Copied, Reflected, Living,
       statusVars, threadVars, historyVars
  <2>3. ASSUME AdmInv, Tick \/ WaitTick PROVE AdmInv'
    <3>1. Elapse /\ waited' \in BOOLEAN
      BY <2>3 DEF Tick, WaitTick, AdmInv, AdmissionTypeOK, ThreadOK
    <3> QED
      BY <2>3, <3>1, AdmElapse
  <2> QED
    BY <2>1, <2>2, <2>3, AdmRequest, AdmSnapshot, AdmVerdict, AdmPush, AdmNote, AdmHandOverNow,
       AdmResume, AdmAlarm, AdmFinish DEF Next
<1> QED
  BY <1>1, AdmInit, PTL DEF Spec

\* Every variable keeps its type; a task is in one place at most.
THEOREM AdmissionTypes == Spec => []AdmissionTypeOK
<1>1. AdmInv => AdmissionTypeOK
  BY DEF AdmInv
<1> QED
  BY <1>1, Accounting, PTL

\* The board charges an accepted task exactly what it still needs, through any
\* number of preemptions, until it has run longer than declared; a task noted
\* late may be charged in full.
THEOREM ChargedExactly == Spec => []ChargeExact
<1>1. AdmInv => ChargeExact
  <2> SUFFICES ASSUME AdmInv, NEW c \in Living \intersect DOMAIN board, got[c] <= cost[c]
               PROVE  Charge(c) = cost[c] - got[c] \/ (c \in late /\ Charge(c) = cost[c])
    BY DEF ChargeExact
  <2>1. c \in Tasks \ done /\ c \in Ids /\ Mirrored(c)
    BY Alive DEF AdmInv, Boarded
  <2>2. Accounted(c) /\ ran[c] \in Nat /\ cost[c] \in Nat /\ got[c] \in Nat /\ now \in Nat
    BY <2>1, Kinds DEF AdmInv, Accounts
  <2>3. start[c] # NotStarted => start[c] \in Nat /\ start[c] <= now
    BY <2>1, IdKinds DEF AdmInv, Clock
  <2>4. CASE c \in late /\ board[c].rem = cost[c] /\ board[c].start = NotStarted
    BY <2>4 DEF Charge
  <2>5. CASE board[c].rem = rem[c] /\ board[c].start = start[c]
    BY <2>2, <2>3, <2>5 DEF Charge, Accounted, Since, Remaining
  <2> QED
    BY <2>1, <2>4, <2>5 DEF Mirrored
<1> QED
  BY <1>1, Accounting, PTL

\* The copy of the board charges a living task at least what it needs.
LEMMA Covered == AdmInv => NeverUnderCharged
<1> SUFFICES ASSUME AdmInv, spc = "judge", Known, NEW c \in Living, got[c] <= cost[c]
             PROVE  c \in RtSnap /\ Charged(c) >= Left(c)
  BY DEF NeverUnderCharged
<1>1. c \in Tasks \ done /\ c \in Ids /\ c \in DOMAIN snap /\ Reflected(c)
  BY Alive DEF AdmInv, Copied
<1>2. Accounted(c) /\ ran[c] \in Nat /\ cost[c] \in Nat /\ got[c] \in Nat /\ now \in Nat
  BY <1>1, Kinds DEF AdmInv, Accounts
<1>3. start[c] # NotStarted => start[c] \in Nat /\ start[c] <= now
  BY <1>1, IdKinds DEF AdmInv, Clock
<1>4. c = curId => snap[c].start # NotStarted /\ snap[c].start = start[c] /\ snap[c].rem = rem[c]
  BY <1>1 DEF Known, Reflected
<1>5. ran[c] <= got[c] /\ rem[c] = cost[c] - ran[c]
  BY <1>2, <1>3 DEF Accounted, Since, Remaining
<1>6. Left(c) = cost[c] - got[c]
  BY <1>2 DEF Left, NonNeg
<1>7. Charged(c) >= Left(c)
  <2>1. CASE c = curId
    <3>1. Charged(c) = NonNeg(rem[c] - (now - start[c])) /\ got[c] = ran[c] + (now - start[c])
      BY <1>2, <1>4, <2>1 DEF Charged, Accounted, Since
    <3> QED
      BY <1>2, <1>3, <1>4, <1>5, <1>6, <2>1, <3>1 DEF NonNeg
  <2>2. CASE c # curId
    <3>1. Charged(c) = snap[c].rem /\ (snap[c].rem = rem[c] \/ snap[c].rem = cost[c])
      BY <1>1, <2>2 DEF Charged, Reflected
    <3> QED
      BY <1>2, <1>5, <1>6, <3>1
  <2> QED
    BY <2>1, <2>2
<1> QED
  BY <1>1, <1>7 DEF RtSnap

\* When a verdict is given, no accepted task is charged less than it needs,
\* although the board was copied before curr_running_id is read.
THEOREM ChargedEnough == Spec => []NeverUnderCharged
BY Covered, Accounting, PTL

---------------------------------------------------------------------------
(* When is_schedulable waits *)

\* The request in hand has its time as long as no wait has cost any; a wait
\* that costs time needs an entry that came late, and a panic such a wait.
Spare ==
    /\ InHand /\ spc \in {"admit", "judge"} /\ ~waited => due[job] - now >= cost[job]
    /\ spc = "panicked" => waited
    /\ waited => late # {}

\* On a settled worker nothing but a late entry makes the copy useless.
LEMMA WaitsForLate == ASSUME AdmInv, WaitTick PROVE late # {}
<1> SUFFICES ASSUME late = {} PROVE FALSE
  OBVIOUS
<1>1. /\ spc # "note" /\ DOMAIN board # {} /\ Settled /\ spc = "judge"
      /\ ~(curId \in DOMAIN board /\ board[curId].start # NotStarted)
  BY DEF WaitTick, Known
<1>2. CASE run = None
  <2>1. Living = {}
    BY <1>1, <1>2, IdKinds DEF Settled, Living
  <2>2. Nrt \in DOMAIN board
    BY <1>1, <2>1 DEF AdmInv, Boarded
  <2> QED
    BY <1>1, <1>2, <2>2, IdKinds DEF Settled, AdmInv, Announced
<1>3. CASE run # None
  <2>1. run = curId /\ run \in DOMAIN board /\ (run = Nrt => board[run].start # NotStarted)
    BY <1>3 DEF AdmInv, Announced
  <2>2. CASE run \in Tasks
    <3>1. Mirrored(run) /\ start[run] # NotStarted
      BY <1>3, <2>1, <2>2, Alive, IdKinds DEF AdmInv, Boarded, Clock
    <3> QED
      BY <1>1, <2>1, <3>1 DEF Mirrored
  <2> QED
    BY <1>1, <1>3, <2>1, <2>2, IdKinds DEF AdmInv, AdmissionTypeOK
<1> QED
  BY <1>2, <1>3

LEMMA SpareStep == ASSUME AdmInv, Spare, [Next]_vars PROVE Spare'
<1>1. CASE UNCHANGED vars
  BY <1>1 DEF Spare, InHand, vars, statusVars, threadVars, historyVars
<1>2. ASSUME NEW e \in Costs, NEW r \in RelDeadlines, Request(e, r) PROVE Spare'
  <2>1. /\ nextId \in Ids /\ job' = nextId /\ spc' = "admit" /\ now' = now
        /\ waited' = waited /\ late' = late
        /\ cost' = [cost EXCEPT ![nextId] = e] /\ due' = [due EXCEPT ![nextId] = now + r]
    BY <1>2 DEF Request, AdmInv, AdmissionTypeOK, Ids, Tasks, historyVars
  <2>2. r > e /\ e \in Nat /\ r \in Nat /\ now \in Nat
    BY <1>2, Kinds DEF Request, ValidDeadline
  <2>3. cost'[job'] = e /\ due'[job'] = now + r
    BY <2>1, Kinds
  <2> QED
    BY <2>1, <2>2, <2>3 DEF Spare
<1>3. ASSUME NEW e \in Costs, NEW r \in RelDeadlines, RequestNrt(e, r) PROVE Spare'
  BY <1>3 DEF RequestNrt, Spare, InHand, statusVars, threadVars, historyVars
<1>4. CASE Snapshot \/ Retry
  BY <1>4 DEF Snapshot, Retry, Spare, InHand, statusVars, historyVars
<1>5. CASE Judge
  <2>1. spc = "judge" /\ InHand /\ job \in Tasks
    BY <1>5, Alive DEF Judge, JudgeEmpty, JudgeNrt, JudgeQuick, JudgeInsert, JudgeReject, InHand
  <2>2. now \in Nat /\ cost[job] \in Nat /\ due[job] \in Nat
    BY <2>1, Kinds
  <2>3. ~waited => ~(Slack < cost[job])
    BY <2>1, <2>2 DEF Spare, Slack, NonNeg
  <2>4. waited' = waited /\ late' = late
    BY <1>5 DEF Judge, JudgeEmpty, JudgeNrt, JudgeQuick, JudgeInsert, JudgeReject, historyVars
  <2>5. spc' \in {"spawn", "writeBack", "idle", "panicked"} /\ (spc' = "panicked" => waited)
    BY <1>5, <2>3 DEF Judge, JudgeEmpty, JudgeNrt, JudgeQuick, JudgeInsert, JudgeReject,
       AloneOrPanic, ToIdle
  <2> QED
    BY <2>4, <2>5 DEF Spare
<1>6. CASE WriteBack \/ InstantiateFails \/ Push \/ HandOverNow
  BY <1>6 DEF WriteBack, InstantiateFails, Push, HandOverNow, ToIdle, Spare, historyVars
<1>7. CASE Note
  <2>1. spc' = "idle" /\ waited' = waited /\ late \subseteq late'
    BY <1>7 DEF Note, ToIdle
  <2> QED
    BY <2>1 DEF Spare
<1>8. ASSUME NEW c \in Ids, Resume(c) PROVE Spare'
  BY <1>8 DEF Resume, Spare, InHand, threadVars, historyVars
<1>9. CASE Alarm \/ Finish
  BY <1>9 DEF Alarm, Finish, Spare, InHand, threadVars, historyVars
<1>10. CASE Tick
  BY <1>10 DEF Tick, Elapse, Spare
<1>11. CASE WaitTick
  BY <1>11, WaitsForLate DEF WaitTick, Elapse, Spare
<1> QED
  BY <1>1, <1>2, <1>3, <1>4, <1>5, <1>6, <1>7, <1>8, <1>9, <1>10, <1>11 DEF Next

\* is_schedulable costs time, and the subtraction in it panics, only after a
\* task was begun before it was noted: however tight the deadlines, and
\* however long the wait then takes.
THEOREM WaitsExplained == Spec => []WaitsOnlyIfLate
<1>1. Init => Spare
  BY DEF Init, Spare
<1>2. AdmInv /\ Spare /\ [Next]_vars => Spare'
  BY SpareStep
<1>3. Spare => WaitsOnlyIfLate
  BY DEF Spare, WaitsOnlyIfLate
<1> QED
  BY <1>1, <1>2, <1>3, Accounting, PTL DEF Spec

---------------------------------------------------------------------------
(* What accepted tasks still need, as a sum *)

LeftOf == [c \in Tasks |-> Left(c)]
Need(S) == Sum(LeftOf, S)
ChargedOf == [c \in RtSnap |-> Charged(c)]

LEMMA TasksFinite == \A S \in SUBSET Tasks : IsFiniteSet(S)
<1>1. IsFiniteSet(Tasks)
  <2>1. 1 \in Int /\ MaxTasks \in Int
    OBVIOUS
  <2> QED
    BY <2>1, FS_Interval DEF Tasks
<1> QED
  BY <1>1, FS_Subset

\* MapThenSumSet is the sum of Sums.
LEMMA WorkSum == \A S \in SUBSET Tasks : Work(S) = Need(S)
<1> SUFFICES ASSUME NEW S \in SUBSET Tasks PROVE Work(S) = Sum(LeftOf, S)
  BY DEF Need
<1> DEFINE Rec(g) == g = [s \in SUBSET S |-> IF s = {} THEN 0
                            ELSE Left(CHOOSE x \in s : TRUE) + g[s \ {CHOOSE x \in s : TRUE}]]
           h == CHOOSE g : Rec(g)
<1>1. Work(S) = h[S]
  BY DEF Work, MapThenSumSet, MapThenFoldSet
<1>2. \A g : Rec(g) <=> IsSum(LeftOf, g, S)
  <2> SUFFICES ASSUME NEW g PROVE Rec(g) <=> IsSum(LeftOf, g, S)
    OBVIOUS
  <2>1. \A s \in SUBSET S : s # {} => LeftOf[Pick(s)] = Left(CHOOSE x \in s : TRUE)
    <3>1. \A s \in SUBSET S : s # {} => Pick(s) \in Tasks
      BY PickIn
    <3> QED
      BY <3>1 DEF LeftOf, Pick
  <2> QED
    BY <2>1 DEF IsSum, Pick
<1>3. \E g : Rec(g)
  <2>1. PICK g : IsSum(LeftOf, g, S)
    BY SumExists, TasksFinite
  <2> HIDE DEF Rec
  <2> QED
    BY <1>2, <2>1
<1> HIDE DEF Rec
<1>4. IsSum(LeftOf, h, S)
  BY <1>2, <1>3
<1> HIDE DEF h
<1>6. IsSum(LeftOf, CHOOSE g : IsSum(LeftOf, g, S), S)
  BY <1>4
<1>7. h[S] = Sum(LeftOf, S)
  BY <1>4, <1>6, SumUnique, TasksFinite DEF Sum
<1> QED
  BY <1>1, <1>7

\* The same for the tasks of the copy of the board.
LEMMA TotalSum == \A S \in SUBSET RtSnap : Total(S) = Sum(ChargedOf, S)
<1> SUFFICES ASSUME NEW S \in SUBSET RtSnap PROVE Total(S) = Sum(ChargedOf, S)
  OBVIOUS
<1> DEFINE Rec(g) == g = [s \in SUBSET S |-> IF s = {} THEN 0
                            ELSE Charged(CHOOSE x \in s : TRUE) + g[s \ {CHOOSE x \in s : TRUE}]]
           h == CHOOSE g : Rec(g)
<1>1. Total(S) = h[S]
  BY DEF Total, MapThenSumSet, MapThenFoldSet
<1>2. \A g : Rec(g) <=> IsSum(ChargedOf, g, S)
  <2> SUFFICES ASSUME NEW g PROVE Rec(g) <=> IsSum(ChargedOf, g, S)
    OBVIOUS
  <2>1. \A s \in SUBSET S : s # {} => ChargedOf[Pick(s)] = Charged(CHOOSE x \in s : TRUE)
    <3>1. \A s \in SUBSET S : s # {} => Pick(s) \in RtSnap
      BY PickIn
    <3> QED
      BY <3>1 DEF ChargedOf, Pick
  <2> QED
    BY <2>1 DEF IsSum, Pick
<1>0. IsFiniteSet(S)
  BY TasksFinite DEF RtSnap
<1>3. \E g : Rec(g)
  <2>1. PICK g : IsSum(ChargedOf, g, S)
    BY <1>0, SumExists
  <2> HIDE DEF Rec
  <2> QED
    BY <1>2, <2>1
<1> HIDE DEF Rec
<1>4. IsSum(ChargedOf, h, S)
  BY <1>2, <1>3
<1> HIDE DEF h
<1>6. IsSum(ChargedOf, CHOOSE g : IsSum(ChargedOf, g, S), S)
  BY <1>4
<1>7. h[S] = Sum(ChargedOf, S)
  BY <1>0, <1>4, <1>6, SumUnique DEF Sum
<1> QED
  BY <1>1, <1>7
---------------------------------------------------------------------------
(* The times a verdict is given for *)

Accepting == spc \in {"writeBack", "spawn"}

\* The entries of ava_time are numbers.
Numbers ==
    /\ \A c \in DOMAIN ava : ava[c] \in Int
    /\ \A c \in DOMAIN copy : copy[c] \in Int

\* The request in hand needs time and has had none; new ids have no entry.
Untried ==
    /\ InHand => cost[job] >= 1 /\ got[job] = 0
    /\ spc \in {"admit", "judge"} => job \notin DOMAIN ava
    /\ \A c \in Tasks : c >= nextId => c \notin DOMAIN ava \union DOMAIN copy

\* A task without a deadline that runs or is named has a request.
Placed == nrt = "absent" => run # Nrt /\ curId # Nrt

\* ava_time as it will be when the request in hand is handed over, and the
\* tasks there will be.
Book == IF spc = "writeBack" THEN copy ELSE ava
Coming == IF Accepting THEN {job} ELSE {}
Before(c) == {d \in Living \union Coming : due[d] < due[c]}

\* What a verdict has established holds until the hand-over.
Judged ==
    Accepting =>
        /\ now + cost[job] <= due[job]
        /\ spc = "writeBack" => via = "insert"
        /\ via \in {"nrt", "nrtBlind"} => nrt # "absent"
        /\ via \in {"empty", "nrt"} => Living = {}
        /\ via = "quick" => \A c \in Living : due[c] + cost[job] <= due[job]
        /\ via = "insert" => now + Need(Before(job)) + cost[job] <= due[job]
        /\ via \in {"empty", "quick"} => verdict = "SCHEDULABLE"
        /\ via # "none"

\* The same for the tasks an insertion delays.
Inserted ==
    Accepting /\ via = "insert" =>
        /\ job \notin DOMAIN Book
        /\ Living \intersect DOMAIN ava \subseteq DOMAIN Book
        /\ \A c \in Living \intersect DOMAIN Book : due[c] > due[job] => Left(c) <= Book[c]
        /\ verdict = "PREEMPTIVE" => \A c \in Living : due[job] <= due[c]

Calm == Undisturbed /\ DeadlinesDiffer

\* The entry of a task that has not run bounds its slack.
Bounded(c) == Book[c] + now + Need(Before(c)) <= due[c]
Entries ==
    Calm => \A c \in (Living \union Coming) \intersect DOMAIN Book : got[c] = 0 => Bounded(c)

\* A task with an entry waits only for earlier ones.
InOrder ==
    Calm /\ run \in Tasks =>
        \A c \in Living \intersect DOMAIN Book : c # run /\ got[c] = 0 => due[run] < due[c]

TimeInv == Numbers /\ Untried /\ Placed /\ Judged /\ Inserted /\ Entries /\ InOrder

LEMMA InTasks ==
  ASSUME AdmInv
  PROVE  Living \union Coming \subseteq Tasks /\ \A c \in Tasks : Before(c) \subseteq Tasks
<1>1. Living \union Coming \subseteq Tasks
  BY Alive DEF Coming, Accepting, InHand
<1> QED
  BY <1>1 DEF Before

LEMMA LeftKinds ==
  ASSUME AdmInv
  PROVE  /\ LeftOf \in [Tasks -> Nat]
         /\ \A c \in Tasks : /\ LeftOf[c] = Left(c) /\ LeftOf[c] <= cost[c]
                             /\ got[c] <= cost[c] => LeftOf[c] = cost[c] - got[c]
<1>1. \A c \in Tasks : Left(c) \in Nat
  BY Kinds DEF Left, NonNeg
<1>2. \A c \in Tasks : /\ Left(c) <= cost[c]
                       /\ got[c] <= cost[c] => Left(c) = cost[c] - got[c]
  BY Kinds DEF Left, NonNeg
<1> QED
  BY <1>1, <1>2 DEF LeftOf

\* Fewer tasks that need no more need no more together.
LEMMA NeedLeq ==
  ASSUME NEW f, NEW g, NEW S \in SUBSET Tasks, NEW T \in SUBSET S,
         f \in [Tasks -> Nat], g \in [Tasks -> Nat], \A c \in T : f[c] <= g[c]
  PROVE  /\ Sum(f, T) \in Nat /\ Sum(g, S) \in Nat
         /\ Sum(f, T) <= Sum(g, S)
<1>1. IsFiniteSet(S) /\ IsFiniteSet(T)
  BY TasksFinite
<1>2. Sum(f, T) \in Nat /\ Sum(g, S) \in Nat
  BY <1>1, SumNat
<1>3. Sum(f, T) <= Sum(g, S)
  BY <1>1, SumLeq
<1> QED
  BY <1>2, <1>3

\* The steps that let no time pass and take no request.
Passing == \E e \in Costs, r \in RelDeadlines : Request(e, r)
Elapsing == Tick \/ WaitTick

LEMMA Still ==
  ASSUME AdmInv, [Next]_vars, ~Passing, ~Elapsing
  PROVE  UNCHANGED <<now, nextId, cost, due, got, waited>> /\ (nrt' = "absent" => nrt = "absent")
<1>1. CASE UNCHANGED vars
  BY <1>1 DEF vars, statusVars, workerVars, threadVars, historyVars
<1>2. ASSUME NEW e \in Costs, NEW r \in RelDeadlines, RequestNrt(e, r)
      PROVE  UNCHANGED <<now, nextId, cost, due, got, waited>> /\ nrt' # "absent"
  BY <1>2 DEF RequestNrt, statusVars, threadVars, historyVars
<1>3. CASE Snapshot \/ Retry \/ Judge \/ WriteBack \/ InstantiateFails
  BY <1>3 DEF Snapshot, Retry, Judge, JudgeEmpty, JudgeNrt, JudgeQuick, JudgeInsert, JudgeReject,
     ToIdle, WriteBack, InstantiateFails, statusVars, workerVars, historyVars
<1>4. CASE Push \/ Note \/ HandOverNow
  BY <1>4 DEF Push, Note, HandOverNow, ToIdle, statusVars, workerVars, historyVars
<1>5. ASSUME NEW c \in Ids, Resume(c)
      PROVE  UNCHANGED <<now, nextId, cost, due, got, waited>> /\ (nrt' = "absent" => nrt = "absent")
  BY <1>5 DEF Resume, threadVars, historyVars
<1>6. CASE Alarm \/ Finish
  BY <1>6 DEF Alarm, Finish, threadVars, historyVars
<1> QED
  BY <1>1, <1>2, <1>3, <1>4, <1>5, <1>6 DEF Next, Passing, Elapsing

\* A request: the new one has a status, the others keep theirs.
LEMMA Requested ==
  ASSUME AdmInv, Passing
  PROVE  /\ nextId \in Tasks /\ job' = nextId /\ spc = "idle" /\ spc' = "admit" /\ nextId' = nextId + 1
         /\ cost'[nextId] >= 1
         /\ \A c \in Tasks : c # nextId => due'[c] = due[c] /\ cost'[c] = cost[c]
         /\ UNCHANGED <<now, board, ava, workerVars, snap, copy, verdict, via, waited>>
<1>1. PICK e \in Costs, r \in RelDeadlines : Request(e, r)
  BY DEF Passing
<1>2. e \in Nat /\ e # 0
  BY <1>1 DEF Request, RealTime
<1>3. /\ nextId \in Tasks /\ job' = nextId /\ spc = "idle" /\ spc' = "admit" /\ nextId' = nextId + 1
      /\ cost' = [cost EXCEPT ![nextId] = e] /\ due' = [due EXCEPT ![nextId] = now + r]
      /\ UNCHANGED <<now, board, ava, workerVars, snap, copy, verdict, via, waited>>
  BY <1>1 DEF Request, AdmInv, AdmissionTypeOK, Tasks, historyVars
<1>4. cost \in [Ids -> Nat] /\ due \in [Ids -> Nat] /\ Tasks \subseteq Ids
  BY Kinds
<1>5. cost'[nextId] = e /\ \A c \in Tasks : c # nextId => due'[c] = due[c] /\ cost'[c] = cost[c]
  BY <1>3, <1>4
<1> QED
  BY <1>2, <1>3, <1>5

\* An instant: what runs has had it.
LEMMA Elapsed ==
  ASSUME AdmInv, Elapsing
  PROVE  /\ now' = now + 1 /\ spc' = spc /\ ~Accepting /\ Settled
         /\ waited' = waited \/ waited' = TRUE
         /\ got' = IF run \in Tasks THEN [got EXCEPT ![run] = @ + 1] ELSE got
         /\ UNCHANGED <<nextId, statusVars, board, ava, run, ready, nrt, done, curId,
                        job, snap, copy, verdict, via>>
BY DEF Elapsing, Tick, WaitTick, Elapse, Accepting

\* Calm is never restored once it is gone.
LEMMA CalmBefore == ASSUME AdmInv, [Next]_vars, Calm' PROVE Calm
<1>1. CASE Passing
  <2>1. nrt = "absent" /\ ~waited /\ got' = got
    BY <1>1, Requested DEF Calm, Undisturbed, workerVars
  <2>2. ASSUME NEW c \in Tasks PROVE got[c] <= cost[c]
    <3>1. CASE c = nextId
      <4>1. got[c] = 0 /\ cost[c] \in Nat
        BY <3>1, Kinds, IdKinds DEF AdmInv, Fresh
      <4> QED
        BY <4>1
    <3>2. CASE c # nextId
      <4>1. got'[c] <= cost'[c]
        BY DEF Calm, Undisturbed
      <4> QED
        BY <1>1, <2>1, <3>2, <4>1, Requested
    <3> QED
      BY <3>1, <3>2
  <2>3. ASSUME NEW c \in Tasks, NEW d \in Tasks, c # d, c < nextId, d < nextId PROVE due[c] # due[d]
    <3>1. nextId \in Nat /\ c \in Nat /\ d \in Nat
      BY IdKinds DEF AdmInv, AdmissionTypeOK
    <3>2. c < nextId' /\ d < nextId' /\ due'[c] = due[c] /\ due'[d] = due[d]
      BY <1>1, <2>3, <3>1, Requested
    <3> QED
      BY <2>3, <3>2 DEF Calm, DeadlinesDiffer
  <2> QED
    BY <2>1, <2>2, <2>3 DEF Calm, Undisturbed, DeadlinesDiffer
<1>2. CASE Elapsing
  <2>1. nrt = "absent" /\ due' = due /\ cost' = cost /\ nextId' = nextId
    BY <1>2, Elapsed DEF Calm, Undisturbed, statusVars
  <2>2. ~waited
    BY <1>2, Elapsed DEF Calm, Undisturbed
  <2>3. ASSUME NEW c \in Tasks PROVE got[c] <= cost[c]
    <3>1. got'[c] <= cost'[c]
      BY DEF Calm, Undisturbed
    <3>2. got \in [Ids -> Nat] /\ c \in Ids /\ cost[c] \in Nat
      BY Kinds
    <3>3. got'[c] \in {got[c], got[c] + 1}
      BY <1>2, <3>2, Elapsed
    <3> QED
      BY <2>1, <3>1, <3>2, <3>3
  <2> QED
    BY <2>1, <2>2, <2>3 DEF Calm, Undisturbed, DeadlinesDiffer
<1>3. CASE ~Passing /\ ~Elapsing
  BY <1>3, Still DEF Calm, Undisturbed, DeadlinesDiffer
<1> QED
  BY <1>1, <1>2, <1>3

\* get_end_ddl is no earlier than now, and than any deadline on the board.
LEMMA LastDeadline ==
  ASSUME AdmInv, spc = "judge"
  PROVE  /\ EndDdl \in Nat /\ now <= EndDdl
         /\ \A c \in Living : due[c] <= EndDdl
<1> DEFINE B == DOMAIN board \intersect Tasks
           D == {now} \union {due[c] : c \in B}
<1>0. B \subseteq Tasks /\ Living \subseteq B
  BY Alive DEF AdmInv, Boarded
<1>1. now \in Nat /\ \A c \in B : due[c] \in Nat
  BY Kinds
<1>3. EndDdl = CHOOSE x \in D : \A y \in D : x >= y
  BY DEF EndDdl, Max
<1> HIDE DEF B
<1>2. \E x \in D : \A y \in D : x >= y
  <2>1. CASE B = {}
    <3>1. D = {now} /\ now >= now
      BY <1>1, <2>1
    <3> HIDE DEF D
    <3> QED
      BY <3>1
  <2>2. CASE B # {}
    <3>1. IsFiniteSet(B)
      BY <1>0, TasksFinite
    <3>2. PICK c \in B : \A d \in B : due[d] <= due[c]
      BY <1>1, <2>2, <3>1, Greatest
    <3>3. CASE now <= due[c]
      BY <1>1, <3>2, <3>3
    <3>4. CASE ~(now <= due[c])
      BY <1>1, <3>2, <3>4
    <3> QED
      BY <3>3, <3>4
  <2> QED
    BY <2>1, <2>2
<1>4. D \subseteq Nat /\ now \in D /\ \A c \in Living : due[c] \in D
  BY <1>0, <1>1
<1> HIDE DEF D
<1>5. EndDdl \in D /\ \A y \in D : EndDdl >= y
  BY <1>2, <1>3
<1> QED
  BY <1>4, <1>5

\* What the copy charges is a number, and no less than what is needed.
LEMMA ChargedKinds ==
  ASSUME AdmInv
  PROVE  /\ ChargedOf \in [RtSnap -> Nat] /\ RtSnap \subseteq Tasks
         /\ \A c \in RtSnap : ChargedOf[c] = Charged(c)
<1>1. ASSUME NEW c \in RtSnap PROVE Charged(c) \in Nat
  <2>1. snap[c] \in Entry /\ now \in Nat
    BY Kinds DEF RtSnap, AdmInv, AdmissionTypeOK, ThreadOK
  <2>2. snap[c].rem \in Nat /\ snap[c].start \in Int
    BY <2>1, EntryFields, IdKinds DEF NotStarted
  <2> QED
    BY <2>1, <2>2 DEF Charged, NonNeg
<1> QED
  BY <1>1 DEF ChargedOf, RtSnap

LEMMA ChargedCovers ==
  ASSUME AdmInv, spc = "judge", Known, curId # Nrt, NEW c \in Living
  PROVE  c \in RtSnap /\ LeftOf[c] <= ChargedOf[c]
<1>1. c \in RtSnap
  BY DEF AdmInv, Copied, RtSnap, Living
<1>2. c \in Tasks /\ got[c] \in Nat /\ cost[c] \in Nat
  BY Kinds, Alive
<1>3. CASE got[c] <= cost[c]
  BY <1>1, <1>2, <1>3, Covered, ChargedKinds, LeftKinds DEF NeverUnderCharged
<1>4. CASE ~(got[c] <= cost[c])
  <2>1. LeftOf[c] = 0
    BY <1>2, <1>4 DEF LeftOf, Left, NonNeg
  <2>2. ChargedOf[c] \in Nat
    BY <1>1, ChargedKinds
  <2> QED
    BY <1>1, <2>1, <2>2
<1> QED
  BY <1>3, <1>4

\* What any tasks of the copy need is in what it charges.
LEMMA NeedCharged ==
  ASSUME AdmInv, spc = "judge", Known, curId # Nrt,
         NEW S \in SUBSET Living, NEW T \in SUBSET RtSnap, S \subseteq T
  PROVE  Need(S) \in Nat /\ Total(T) \in Nat /\ Need(S) <= Total(T)
<1>1. IsFiniteSet(T) /\ IsFiniteSet(S)
  BY TasksFinite, Alive DEF RtSnap
<1>2. \A c \in S : LeftOf[c] \in Nat /\ LeftOf[c] <= ChargedOf[c]
  BY ChargedCovers, LeftKinds, Alive
<1>3. \A c \in T : ChargedOf[c] \in Nat
  BY ChargedKinds
<1>4. Sum(LeftOf, S) <= Sum(ChargedOf, T)
  BY <1>1, <1>2, <1>3, SumLeq
<1>5. Sum(LeftOf, S) \in Nat /\ Sum(ChargedOf, T) \in Nat
  BY <1>1, <1>2, <1>3, SumNat
<1> QED
  BY <1>4, <1>5, TotalSum DEF Need

---------------------------------------------------------------------------
(* The invariant of the times holds at first, and every step keeps it *)

LEMMA TimeInit == Init => TimeInv
<1> SUFFICES ASSUME Init PROVE TimeInv
  OBVIOUS
<1>1. Numbers /\ Untried /\ Placed
  BY IdKinds DEF Init, Numbers, Untried, Placed, NoMap, NoMap, InHand, Living
<1>2. Judged /\ Inserted
  BY DEF Init, Judged, Inserted, Accepting
<1>3. Entries /\ InOrder
  BY IdKinds DEF Init, Entries, InOrder, Living, Coming, Accepting
<1> QED
  BY <1>1, <1>2, <1>3 DEF TimeInv

LEMMA NumbersStep == ASSUME AdmInv, Numbers, [Next]_vars PROVE Numbers'
<1> DEFINE Whole(map) == \A c \in DOMAIN map : map[c] \in Int
<1>1. \A map, x : Whole(map) /\ x \in Int => Whole(PutEntry(map, job, x))
  BY DEF PutEntry
<1>2. InHand => due[job] \in Nat /\ cost[job] \in Nat /\ now \in Nat
  BY Kinds, Alive
<1>3. spc = "judge" => Slack \in Nat /\ Slack - cost[job] \in Int /\ Slack - Total(RtSnap) \in Int
  <2>1. Total(RtSnap) \in Nat
    <3>1. IsFiniteSet(RtSnap)
      BY ChargedKinds, TasksFinite
    <3> QED
      BY <3>1, ChargedKinds, SumNat, TotalSum
  <2> QED
    BY <1>2, <2>1 DEF InHand, Slack, NonNeg
<1>6. /\ Whole(ava) /\ Whole(copy) /\ Whole(NoMap)
  BY DEF Numbers, NoMap
<1>7. Whole(ava')
  <2>1. CASE Judge
    <3>1. \/ ava' = ava
          \/ ava' = PutEntry(ava, job, Slack - cost[job])
          \/ ava' = PutEntry(ava, job, Slack - Total(RtSnap))
      BY <2>1 DEF Judge, JudgeEmpty, JudgeNrt, JudgeQuick, JudgeInsert, JudgeReject, AloneOrPanic
    <3>2. spc = "judge"
      BY <2>1 DEF Judge, JudgeEmpty, JudgeNrt, JudgeQuick, JudgeInsert, JudgeReject
    <3> HIDE DEF Whole
    <3> QED
      BY <1>1, <1>3, <1>6, <3>1, <3>2
  <2>2. CASE ava' = ava \/ ava' = copy
    BY <1>6, <2>2
  <2>3. CASE Finish
    BY <1>6, <2>3 DEF Finish, DropEntry
  <2> QED
    BY <2>1, <2>2, <2>3 DEF Next, vars, Request, RequestNrt, Snapshot, Retry, WriteBack,
       InstantiateFails, Push, Note, HandOverNow, Resume, Alarm, Tick, WaitTick, Elapse
<1>8. Whole(copy')
  <2>1. CASE JudgeInsert
    <3>1. copy' = Shifted /\ cost[job] \in Nat
      BY <1>2, <2>1 DEF JudgeInsert, InHand
    <3> QED
      BY <1>6, <3>1 DEF Shifted
  <2>2. copy' = copy \/ copy' = NoMap \/ JudgeInsert
    BY DEF Next, vars, threadVars, Request, RequestNrt, Snapshot, Retry, Judge, JudgeEmpty, JudgeNrt,
       JudgeQuick, JudgeReject, WriteBack, InstantiateFails, Push, Note, HandOverNow, Resume, Alarm,
       Finish, Tick, WaitTick, Elapse
  <2> QED
    BY <1>6, <2>1, <2>2
<1> QED
  BY <1>7, <1>8 DEF Numbers

LEMMA PlacedStep == ASSUME AdmInv, Placed, [Next]_vars PROVE Placed'
<1>1. CASE Push \/ Note
  BY <1>1 DEF Push, Note, Placed, workerVars
<1>2. CASE HandOverNow
  <2>1. job # Nrt
    BY <1>2, Alive DEF HandOverNow, InHand
  <2> QED
    BY <1>2, <2>1 DEF HandOverNow, Placed
<1>3. ASSUME NEW c \in Ids, Resume(c) PROVE Placed'
  <2>1. c = Nrt => nrt' # "absent"
    BY <1>3 DEF Resume
  <2> QED
    BY <1>3, <2>1 DEF Resume, Placed
<1>4. CASE Alarm \/ Finish
  BY <1>4, IdKinds DEF Alarm, Finish, Placed
<1>6. ASSUME NEW e \in Costs, NEW r \in RelDeadlines, Request(e, r) \/ RequestNrt(e, r) PROVE Placed'
  BY <1>6 DEF Request, RequestNrt, Placed, workerVars
<1>7. CASE Snapshot \/ Retry \/ Judge \/ WriteBack \/ InstantiateFails
  BY <1>7 DEF Snapshot, Retry, Judge, JudgeEmpty, JudgeNrt, JudgeQuick, JudgeInsert, JudgeReject,
     WriteBack, InstantiateFails, Placed, workerVars
<1>8. CASE Tick \/ WaitTick \/ UNCHANGED vars
  BY <1>8 DEF Tick, WaitTick, Elapse, vars, workerVars, Placed
<1> QED
  BY <1>1, <1>2, <1>3, <1>4, <1>6, <1>7, <1>8 DEF Next

LEMMA UntriedStep == ASSUME AdmInv, Untried, [Next]_vars PROVE Untried'
<1>1. CASE Passing
  <2>1. nextId \in Tasks /\ nextId \in Nat /\ \A c \in Tasks : c \in Nat
    BY <1>1, Requested, IdKinds
  <2>2. got[nextId] = 0 /\ nextId \notin DOMAIN ava
    BY <2>1 DEF AdmInv, Fresh, Untried
  <2>3. nextId' = nextId + 1
    BY <1>1, Requested
  <2>4. \A c \in Tasks : c >= nextId' => c >= nextId
    BY <2>1, <2>3
  <2> QED
    BY <1>1, <2>2, <2>4, Requested DEF Untried, workerVars
<1>2. CASE Elapsing
  <2>1. InHand => job # run /\ job \in Tasks
    BY IdKinds, Alive DEF InHand, AdmInv, Fresh, AdmissionTypeOK
  <2>2. InHand => got'[job] = got[job]
    BY <1>2, <2>1, Elapsed, Kinds
  <2> QED
    BY <1>2, <2>2, Elapsed DEF Untried, InHand, statusVars
<1>3. CASE ~Passing /\ ~Elapsing
  <2>1. UNCHANGED <<nextId, cost, got>>
    BY <1>3, Still
  <2>2. /\ InHand' => InHand /\ job' = job
        /\ spc' \in {"admit", "judge"} => spc \in {"admit", "judge"} /\ DOMAIN ava' \subseteq DOMAIN ava
    BY <1>3 DEF Next, vars, threadVars, Passing, Elapsing, RequestNrt, Snapshot, Retry, Judge,
       JudgeEmpty, JudgeNrt, JudgeQuick, JudgeInsert, JudgeReject, AloneOrPanic, ToIdle, WriteBack,
       InstantiateFails, Push, Note, HandOverNow, Resume, Alarm, Finish, InHand, DropEntry
  <2>3. DOMAIN ava' \subseteq DOMAIN ava \union DOMAIN copy \union (IF InHand THEN {job} ELSE {})
    BY <1>3 DEF Next, vars, threadVars, Passing, Elapsing, RequestNrt, Snapshot, Retry, Judge,
       JudgeEmpty, JudgeNrt, JudgeQuick, JudgeInsert, JudgeReject, AloneOrPanic, ToIdle, WriteBack,
       InstantiateFails, Push, Note, HandOverNow, Resume, Alarm, Finish, InHand, DropEntry, PutEntry
  <2>4. DOMAIN copy' \subseteq DOMAIN ava \union DOMAIN copy
    BY <1>3 DEF Next, vars, threadVars, Passing, Elapsing, RequestNrt, Snapshot, Retry, Judge,
       JudgeEmpty, JudgeNrt, JudgeQuick, JudgeInsert, JudgeReject, AloneOrPanic, ToIdle, WriteBack,
       InstantiateFails, Push, Note, HandOverNow, Resume, Alarm, Finish, Shifted, NoMap
  <2>5. InHand => job < nextId /\ job \in Nat /\ nextId \in Nat
    <3>1. nextId \in Nat
      BY DEF AdmInv, AdmissionTypeOK
    <3>2. InHand => job \in Tasks /\ job < nextId
      BY Alive
    <3> QED
      BY <3>1, <3>2, IdKinds
  <2>6. \A c \in Tasks : c >= nextId => c # job \/ ~InHand
    BY <2>5, IdKinds
  <2>7. InHand => cost[job] >= 1 /\ got[job] = 0
    BY DEF Untried
  <2>8. \A c \in Tasks : c >= nextId => c \notin DOMAIN ava' \union DOMAIN copy'
    BY <2>3, <2>4, <2>6 DEF Untried
  <2>9. spc' \in {"admit", "judge"} => job' \notin DOMAIN ava'
    BY <2>2 DEF Untried, InHand
  <2> QED
    BY <2>1, <2>2, <2>7, <2>8, <2>9 DEF Untried
<1> QED
  BY <1>1, <1>2, <1>3

---------------------------------------------------------------------------
(* A verdict that accepts the request *)

\* The tasks c waits for, without the request in hand.
Ahead(c) == {d \in Living : due[d] < due[c]}

\* A request is accepted; nothing but the entries changes for the tasks.
Accept ==
    /\ spc = "judge" /\ spc' \in {"writeBack", "spawn"}
    /\ UNCHANGED <<now, nextId, statusVars, workerVars, job>>

LEMMA Accepted1 ==
  ASSUME AdmInv, Accept
  PROVE  /\ Living' = Living /\ LeftOf' = LeftOf /\ Coming' = {job} /\ Coming = {} /\ Book = ava
         /\ job \in Tasks /\ InHand /\ Accepting' /\ ~Accepting
         /\ \A c \in Tasks : Before(c) = Ahead(c) /\ Ahead(c) \subseteq Living
<1>1. Living' = Living /\ Coming' = {job} /\ Coming = {} /\ Book = ava
  BY DEF Accept, Living, Coming, Book, Accepting, workerVars
<1>2. InHand /\ Accepting' /\ ~Accepting /\ job \in Tasks
  BY Alive DEF Accept, InHand, Accepting
<1>3. LeftOf' = LeftOf
  BY DEF Accept, statusVars, workerVars, LeftOf, Left, NonNeg
<1>4. \A c \in Tasks : Before(c) = Ahead(c) /\ Ahead(c) \subseteq Living
  BY <1>1 DEF Before, Ahead
<1> QED
  BY <1>1, <1>2, <1>3, <1>4

LEMMA Accepted2 ==
  ASSUME AdmInv, Accept
  PROVE  /\ Before(job)' = Ahead(job)
         /\ \A c \in Tasks : Ahead(c) \in SUBSET Tasks
         /\ \A c \in Living : {d \in Living' \union Coming' : due'[d] < due'[c]}
                = IF due[job] < due[c] THEN Ahead(c) \union {job} ELSE Ahead(c)
<1>1. Living' = Living /\ Coming' = {job} /\ due' = due /\ job' = job /\ job \in Tasks /\ Living \subseteq Tasks
  BY Accepted1, Alive DEF Accept, statusVars
<1>2. ~(due[job] < due[job])
  BY <1>1, Kinds
<1>3. Before(job)' = Ahead(job)
  BY <1>1, <1>2 DEF Before, Ahead
<1>4. \A c \in Living : {d \in Living' \union Coming' : due'[d] < due'[c]}
                = IF due[job] < due[c] THEN Ahead(c) \union {job} ELSE Ahead(c)
  BY <1>1 DEF Ahead
<1> QED
  BY <1>1, <1>3, <1>4 DEF Ahead

LEMMA NeedAhead ==
  ASSUME AdmInv, Accept, NEW c \in Tasks, Untried
  PROVE  /\ Sum(LeftOf, Ahead(c)) \in Nat
         /\ Sum(LeftOf, Ahead(c) \union {job}) = Sum(LeftOf, Ahead(c)) + cost[job]
<1>1. IsFiniteSet(Ahead(c)) /\ Ahead(c) \subseteq Tasks /\ job \notin Ahead(c) /\ job \in Tasks
  BY Accepted1, Accepted2, TasksFinite, Alive DEF Ahead
<1>2. \A d \in Tasks : LeftOf[d] \in Nat
  BY LeftKinds
<1>3. LeftOf[job] = cost[job]
  <2>1. got[job] = 0 /\ cost[job] \in Nat
    BY <1>1, Accepted1, Kinds DEF Untried
  <2> QED
    BY <1>1, <2>1, LeftKinds
<1>4. Sum(LeftOf, Ahead(c)) \in Nat
  BY <1>1, <1>2, SumNat
<1>5. Sum(LeftOf, Ahead(c) \union {job}) = Sum(LeftOf, Ahead(c)) + LeftOf[job]
  BY <1>1, <1>2, SumAdd
<1> QED
  BY <1>3, <1>4, <1>5

LEMMA EntriesAccepted ==
  ASSUME AdmInv, Untried, Entries, Accept, Calm' => Calm,
         \A c \in Living \intersect DOMAIN Book' :
            /\ due[c] < due[job] => c \in DOMAIN ava /\ Book'[c] = ava[c]
            /\ due[c] > due[job] => c \in DOMAIN ava /\ Book'[c] = ava[c] - cost[job],
         \A c \in DOMAIN ava : ava[c] \in Int,
         job \in DOMAIN Book' => Book'[job] + now + Need(Ahead(job)) <= due[job]
  PROVE  Entries'
<1> SUFFICES ASSUME Calm', NEW c \in (Living' \union Coming') \intersect DOMAIN Book', got'[c] = 0
             PROVE  Bounded(c)'
  BY DEF Entries
<1>1. PICK x \in Tasks : x = c
  BY Accepted1, Alive
<1>2. UNCHANGED <<now, due, got, cost>> /\ LeftOf' = LeftOf /\ Calm /\ Living' = Living /\ Coming' = {job}
  BY Accepted1 DEF Accept, statusVars, workerVars
<1>3. CASE x = job
  <2>1. Sum(LeftOf, {d \in Living' \union Coming' : due'[d] < due'[x]}) = Need(Ahead(job))
    BY <1>2, <1>3, Accepted2 DEF Need, Before, Accept
  <2>2. Book'[x] + now' + Sum(LeftOf', {d \in Living' \union Coming' : due'[d] < due'[x]}) <= due'[x]
    BY <1>1, <1>2, <1>3, <2>1
  <2> QED
    BY <1>1, <2>2 DEF Bounded, Need, Before
<1>4. CASE x # job
  <2>1. x \in Living /\ x \in DOMAIN Book' /\ due[x] # due[job]
    <3>1. x \in Living /\ x \in DOMAIN Book'
      BY <1>1, <1>2, <1>4
    <3>2. x < nextId /\ job < nextId /\ job \in Tasks
      BY <3>1, Alive, Accepted1
    <3> QED
      BY <1>2, <1>4, <3>1, <3>2 DEF Calm, DeadlinesDiffer
  <2>2. x \in DOMAIN ava => ava[x] + now + Sum(LeftOf, Ahead(x)) <= due[x]
    BY <1>1, <1>2, <2>1, Accepted1 DEF Entries, Bounded, Need
  <2>3. Sum(LeftOf, Ahead(x)) \in Nat /\ Sum(LeftOf, Ahead(x) \union {job}) = Sum(LeftOf, Ahead(x)) + cost[job]
    BY NeedAhead
  <2>4. {due[x], due[job], cost[job], now} \subseteq Nat
    BY Kinds, Accepted1
  <2>5. Book'[x] + now' + Sum(LeftOf', {d \in Living' \union Coming' : due'[d] < due'[x]}) <= due'[x]
    <3>1. {d \in Living' \union Coming' : due'[d] < due'[x]} =
             IF due[job] < due[x] THEN Ahead(x) \union {job} ELSE Ahead(x)
      BY <2>1, Accepted2
    <3>2. CASE due[job] < due[x]
      <4>1. x \in DOMAIN ava /\ Book'[x] = ava[x] - cost[job] /\ ava[x] \in Int
        BY <2>1, <2>4, <3>2
      <4>2. Sum(LeftOf', {d \in Living' \union Coming' : due'[d] < due'[x]})
              = Sum(LeftOf, Ahead(x)) + cost[job]
        BY <1>2, <2>3, <3>1, <3>2
      <4>3. cost[job] \in Nat /\ now \in Nat /\ due[x] \in Nat
        BY <2>4
      <4> QED
        BY <1>2, <2>2, <2>3, <4>1, <4>2, <4>3
    <3>3. CASE due[x] < due[job]
      <4>1. x \in DOMAIN ava /\ Book'[x] = ava[x] /\ ava[x] \in Int
        BY <2>1, <3>3
      <4>2. ~(due[job] < due[x])
        BY <2>4, <3>3
      <4> QED
        BY <1>2, <2>2, <2>3, <2>4, <3>1, <4>1, <4>2
    <3> QED
      BY <2>1, <2>4, <3>2, <3>3
  <2> QED
    BY <1>1, <2>5 DEF Bounded, Need, Before
<1> QED
  BY <1>3, <1>4

LEMMA InOrderAccepted ==
  ASSUME AdmInv, InOrder, Accept, Calm' => Calm, Living \intersect DOMAIN Book' \subseteq DOMAIN ava
  PROVE  InOrder'
BY Accepted1 DEF InOrder, Accept, statusVars, workerVars

\* The branches for a request that will be alone: an empty board, or a task
\* without a deadline that is preempted.
LEMMA AloneTimes ==
  ASSUME AdmInv, TimeInv, JudgeEmpty \/ JudgeNrt, Accept, Calm' => Calm
  PROVE  Judged' /\ Inserted' /\ Entries' /\ InOrder'
<1>1. /\ ava' = PutEntry(ava, job, Slack - cost[job]) /\ ~(Slack < cost[job]) /\ spc' = "spawn"
      /\ Book' = ava'
  BY DEF JudgeEmpty, JudgeNrt, AloneOrPanic, Accept, Book
<1>2. /\ JudgeEmpty => via' = "empty" /\ verdict' = "SCHEDULABLE" /\ Living = {}
      /\ JudgeNrt => via' \in {"nrt", "nrtBlind"} /\ nrt # "absent"
      /\ JudgeNrt /\ via' = "nrt" => Living = {}
  <2>1. Living \subseteq DOMAIN snap /\ Living \subseteq RtSnap
    BY DEF Accept, AdmInv, Copied, RtSnap, Living
  <2> QED
    BY <1>1, <2>1 DEF JudgeEmpty, JudgeNrt, AloneOrPanic, Accept, Verdict, TimeInv, Placed
<1>3. now \in Nat /\ due[job] \in Nat /\ cost[job] \in Nat /\ cost[job] >= 1
  BY Kinds, Accepted1 DEF TimeInv, Untried
<1>4. Slack = due[job] - now /\ now + cost[job] <= due[job]
  BY <1>1, <1>3 DEF Slack, NonNeg
<1>5. UNCHANGED <<now, cost, due, got, nrt, job>> /\ Living' = Living
  BY Accepted1 DEF Accept, statusVars, workerVars
<1>6. Judged'
  BY <1>1, <1>2, <1>4, <1>5 DEF Judged, Accepting
<1>7. Inserted'
  BY <1>2 DEF Inserted
<1>8. Calm' => JudgeEmpty
  BY <1>2 DEF Calm, Undisturbed
<1>9. Entries'
  <2>1. CASE JudgeEmpty
    <3>1. Ahead(job) = {} /\ Need({}) = 0
      BY <1>2, <2>1, SumEmpty DEF Ahead, Need
    <3>2. Book'[job] = due[job] - now - cost[job]
      BY <1>1, <1>4 DEF PutEntry
    <3>3. Book'[job] + now + Need(Ahead(job)) <= due[job]
      BY <1>3, <3>1, <3>2
    <3> QED
      BY <1>2, <2>1, <3>3, EntriesAccepted DEF TimeInv, Numbers
  <2>2. CASE ~JudgeEmpty
    BY <1>8, <2>2 DEF Entries
  <2> QED
    BY <2>1, <2>2
<1>10. InOrder'
  <2>1. CASE JudgeEmpty
    BY <1>2, <1>5, <2>1 DEF InOrder
  <2>2. CASE ~JudgeEmpty
    BY <1>8, <2>2 DEF InOrder
  <2> QED
    BY <2>1, <2>2
<1> QED
  BY <1>6, <1>7, <1>9, <1>10

\* The quick test: the request comes after all others.
LEMMA QuickTimes ==
  ASSUME AdmInv, TimeInv, JudgeQuick, Accept, Calm' => Calm
  PROVE  Judged' /\ Inserted' /\ Entries' /\ InOrder'
<1>1. /\ ava' = PutEntry(ava, job, Slack - Total(RtSnap)) /\ Book' = ava' /\ spc' = "spawn"
      /\ via' = "quick" /\ verdict' = "SCHEDULABLE" /\ QuickFits /\ Known /\ curId # Nrt
  BY DEF JudgeQuick, Verdict, Book
<1>2. now \in Nat /\ due[job] \in Nat /\ cost[job] \in Nat /\ cost[job] >= 1
  BY Kinds, Accepted1 DEF TimeInv, Untried
<1>3. EndDdl \in Nat /\ now <= EndDdl /\ EndDdl + cost[job] <= due[job]
  BY <1>1, <1>2, LastDeadline DEF QuickFits, NonNeg, Accept
<1>4. \A c \in Living : c \in Tasks /\ due[c] \in Nat /\ due[c] + cost[job] <= due[job]
  <2>1. \A c \in Living : c \in Tasks /\ due[c] \in Nat /\ due[c] <= EndDdl
    BY LastDeadline, Kinds, Alive DEF Accept
  <2> QED
    BY <1>2, <1>3, <2>1
<1>5. UNCHANGED <<now, cost, due, got, nrt, job>> /\ Living' = Living
  BY Accepted1 DEF Accept, statusVars, workerVars
<1>6. Judged'
  <2>1. now + cost[job] <= due[job]
    BY <1>2, <1>3
  <2> QED
    BY <1>1, <1>4, <1>5, <2>1 DEF Judged, Accepting
<1>7. Inserted'
  BY <1>1 DEF Inserted
<1>8. Living \subseteq RtSnap /\ Ahead(job) \subseteq Living
  BY Accepted1 DEF Accept, AdmInv, Copied, RtSnap, Living
<1>9. Need(Ahead(job)) \in Nat /\ Total(RtSnap) \in Nat /\ Need(Ahead(job)) <= Total(RtSnap)
  BY <1>1, <1>8, NeedCharged DEF TimeInv, Accept
<1>10. Entries'
  <2>1. Book'[job] + now + Need(Ahead(job)) <= due[job]
    <3>1. Book'[job] = due[job] - now - Total(RtSnap)
      <4>1. Slack = due[job] - now
        BY <1>2, <1>3 DEF Slack, NonNeg
      <4> QED
        BY <1>1, <4>1 DEF PutEntry
    <3> QED
      BY <1>2, <1>9, <3>1
  <2>2. ASSUME NEW c \in Living \intersect DOMAIN Book'
        PROVE  c \in DOMAIN ava /\ Book'[c] = ava[c] /\ ~(due[c] > due[job])
    <3>1. c # job
      BY Alive, Accepted1
    <3> QED
      BY <1>1, <1>2, <1>4, <3>1 DEF PutEntry
  <2> QED
    BY <2>1, <2>2, EntriesAccepted DEF TimeInv, Numbers
<1>11. InOrder'
  <2>1. job \notin Living
    BY Alive, Accepted1
  <2>2. Living \intersect DOMAIN Book' \subseteq DOMAIN ava
    BY <1>1, <2>1 DEF PutEntry
  <2> QED
    BY <2>2, InOrderAccepted DEF TimeInv
<1> QED
  BY <1>6, <1>7, <1>10, <1>11

\* The insertion: room before the later tasks, which are delayed.
LEMMA InsertTimes ==
  ASSUME AdmInv, TimeInv, JudgeInsert, Accept, Calm' => Calm
  PROVE  Judged' /\ Inserted' /\ Entries' /\ InOrder'
<1>1. /\ copy' = Shifted /\ Book' = Shifted /\ spc' = "writeBack" /\ ava' = ava /\ via' = "insert"
      /\ verdict' = (IF Sooner = {} THEN "PREEMPTIVE" ELSE "SCHEDULABLE")
      /\ Fits /\ LaterFit /\ Known /\ curId # Nrt
  BY DEF JudgeInsert, Verdict, Book
<1>2. now \in Nat /\ due[job] \in Nat /\ cost[job] \in Nat /\ cost[job] >= 1 /\ job \notin DOMAIN ava
  BY Kinds, Accepted1 DEF TimeInv, Untried, Accept
<1>3. UNCHANGED <<now, cost, due, got, nrt, job>> /\ Living' = Living /\ LeftOf' = LeftOf
  BY Accepted1 DEF Accept, statusVars, workerVars
<1>4. Living \subseteq RtSnap /\ Ahead(job) \subseteq Sooner /\ Ahead(job) \subseteq Living
      /\ Sooner \subseteq RtSnap
  BY Accepted1 DEF Accept, AdmInv, Copied, RtSnap, Living, Ahead, Sooner
<1>5. /\ Need(Ahead(job)) \in Nat /\ Total(Sooner) \in Nat
      /\ Need(Ahead(job)) <= Total(Sooner)
  BY <1>1, <1>4, NeedCharged DEF TimeInv, Accept
<1>6. now + Need(Ahead(job)) + cost[job] <= due[job]
  BY <1>1, <1>2, <1>5 DEF Fits, Slack, NonNeg
<1>7. Judged'
  <2>1. (Need(Before(job)))' = Need(Ahead(job))
    BY <1>3, Accepted2 DEF Need
  <2>2. now + cost[job] <= due[job]
    BY <1>2, <1>5, <1>6
  <2> QED
    BY <1>1, <1>3, <1>6, <2>1, <2>2 DEF Judged, Accepting
<1>8. DOMAIN Shifted = DOMAIN ava
  BY DEF Shifted
<1>9. ASSUME NEW c \in Living \intersect DOMAIN ava
      PROVE  /\ c \in Tasks /\ due[c] \in Nat /\ ava[c] \in Int
             /\ due[c] < due[job] => Shifted[c] = ava[c]
             /\ due[c] > due[job] => Shifted[c] = ava[c] - cost[job] /\ LeftOf[c] <= Shifted[c]
  <2>1. c \in Tasks /\ due[c] \in Nat /\ ava[c] \in Int /\ c \in RtSnap
    BY <1>4, Kinds, Alive DEF TimeInv, Numbers
  <2>2. due[c] < due[job] => Shifted[c] = ava[c]
    BY <1>2, <2>1 DEF Shifted, Later
  <2>3. ASSUME due[c] > due[job]
        PROVE  Shifted[c] = ava[c] - cost[job] /\ LeftOf[c] <= Shifted[c]
    <3>1. c \in Later
      BY <2>1, <2>3 DEF Later
    <3>2. Shifted[c] = ava[c] - cost[job] /\ ava[c] - cost[job] >= Charged(c)
      BY <1>1, <3>1 DEF Shifted, LaterFit
    <3>3. LeftOf[c] \in Nat /\ ChargedOf[c] \in Nat /\ ChargedOf[c] = Charged(c) /\ LeftOf[c] <= ChargedOf[c]
      BY <1>1, <2>1, LeftKinds, ChargedKinds, ChargedCovers DEF TimeInv, Accept
    <3> QED
      BY <1>2, <2>1, <3>2, <3>3
  <2> QED
    BY <2>1, <2>2, <2>3
<1>10. Inserted'
  <2>1. \A c \in Living \intersect DOMAIN ava : due[c] > due[job] => LeftOf[c] <= Shifted[c]
    BY <1>9
  <2>2. Sooner = {} => \A c \in Living : due[job] <= due[c]
    <3>1. \A c \in Living : due[c] \in Nat
      BY Kinds, Alive
    <3> QED
      BY <1>2, <1>4, <3>1 DEF Sooner
  <2>3. \A c \in Living : LeftOf'[c] = Left(c)'
    BY <1>3, Alive DEF LeftOf
  <2>4. \A c \in Living \intersect DOMAIN ava : due[c] > due[job] => Left(c)' <= Shifted[c]
    BY <1>3, <2>1, <2>3
  <2> QED
    BY <1>1, <1>2, <1>3, <1>8, <2>2, <2>4 DEF Inserted
<1>11. Entries'
  BY <1>1, <1>2, <1>8, <1>9, EntriesAccepted DEF TimeInv, Numbers
<1>12. InOrder'
  BY <1>1, <1>8, InOrderAccepted DEF TimeInv
<1> QED
  BY <1>7, <1>10, <1>11, <1>12

---------------------------------------------------------------------------
(* The steps that give no verdict *)

\* Nothing changes for the tasks that are left, and none comes unannounced.
Kept ==
    /\ now' = now /\ Living' \union Coming' \subseteq Living \union Coming
    /\ \A c \in Living \union Coming : due'[c] = due[c] /\ cost'[c] = cost[c] /\ got'[c] = got[c]
    /\ \A c \in (Living' \union Coming') \intersect DOMAIN Book' : c \in DOMAIN Book /\ Book'[c] = Book[c]

LEMMA EntriesKept ==
  ASSUME AdmInv, AdmInv', LeftOf' \in [Tasks -> Nat], Numbers, Entries, Calm' => Calm, Kept
  PROVE  Entries'
<1> SUFFICES ASSUME Calm', NEW c \in (Living' \union Coming') \intersect DOMAIN Book', got'[c] = 0
             PROVE  Bounded(c)'
  BY DEF Entries
<1>1. PICK x \in Tasks : x = c
  BY InTasks DEF Kept
<1>2. /\ x \in Living \union Coming /\ x \in DOMAIN Book /\ Book'[x] = Book[x] /\ Book[x] \in Int
      /\ due'[x] = due[x] /\ got[x] = 0 /\ now' = now
  BY <1>1 DEF Kept, Numbers, Book
<1>3. Book[x] + now + Need(Before(x)) <= due[x]
  BY <1>2 DEF Entries, Bounded
<1> DEFINE S == Before(x)
           T == {d \in Living' \union Coming' : due'[d] < due'[x]}
<1>4. S \in SUBSET Tasks /\ T \in SUBSET S
  BY <1>2, InTasks DEF Before, Kept
<1>5. \A d \in T : LeftOf'[d] <= LeftOf[d]
  <2>1. ASSUME NEW d \in T PROVE LeftOf'[d] <= LeftOf[d]
    <3>1. d \in Tasks /\ cost'[d] = cost[d] /\ got'[d] = got[d]
      BY InTasks DEF Kept
    <3>2. LeftOf'[d] = LeftOf[d] /\ LeftOf[d] \in Nat
      BY <3>1, LeftKinds DEF LeftOf, Left, NonNeg
    <3> QED
      BY <3>2
  <2> QED
    BY <2>1
<1> HIDE DEF S, T
<1>6. Sum(LeftOf', T) \in Nat /\ Sum(LeftOf, S) \in Nat /\ Sum(LeftOf', T) <= Sum(LeftOf, S)
  BY <1>4, <1>5, NeedLeq, LeftKinds
<1>7. now \in Nat /\ due[x] \in Nat
  BY Kinds
<1>8. Book'[x] + now' + Sum(LeftOf', T) <= due'[x]
  BY <1>2, <1>3, <1>6, <1>7 DEF Need, S
<1> QED
  BY <1>1, <1>8 DEF Bounded, Need, Before, T

\* A verdict that has been given stays right while tasks finish.
LEMMA JudgedKept ==
  ASSUME AdmInv, AdmInv', LeftOf' \in [Tasks -> Nat], Judged, Accepting, Accepting', Kept,
         Living' \subseteq Living, UNCHANGED <<job, via, verdict, due, cost, got>>,
         nrt' = "absent" => nrt = "absent", spc' = "writeBack" => spc = "writeBack"
  PROVE  Judged'
<1>1. job \in Tasks /\ job \in Living \union Coming
  BY Alive DEF InHand, Accepting, Coming
<1>2. now' = now
  BY DEF Kept
<1> DEFINE S == Before(job)
           T == {d \in Living' \union Coming' : due'[d] < due'[job]}
<1>3. S \in SUBSET Tasks /\ T \in SUBSET S
  BY <1>1, InTasks DEF Before, Kept
<1>4. \A d \in T : LeftOf'[d] <= LeftOf[d]
  <2>1. LeftOf' = LeftOf
    BY DEF LeftOf, Left, NonNeg
  <2> QED
    BY <1>3, <2>1, LeftKinds
<1> HIDE DEF S, T
<1>5. Sum(LeftOf', T) \in Nat /\ Sum(LeftOf, S) \in Nat /\ Sum(LeftOf', T) <= Sum(LeftOf, S)
  BY <1>3, <1>4, NeedLeq, LeftKinds
<1>6. now \in Nat /\ due[job] \in Nat /\ cost[job] \in Nat
  BY <1>1, Kinds
<1>7. via = "insert" => now' + Sum(LeftOf', T) + cost'[job'] <= due'[job']
  <2>1. via = "insert" => now + Sum(LeftOf, S) + cost[job] <= due[job]
    BY DEF Judged, Need, S
  <2> QED
    BY <1>2, <1>5, <1>6, <2>1
<1>8. (Need(Before(job)))' = Sum(LeftOf', T)
  BY DEF Need, Before, T
<1> QED
  BY <1>2, <1>7, <1>8 DEF Judged

LEMMA InsertedKept ==
  ASSUME AdmInv, Inserted, Accepting, Accepting', Kept, Living' \subseteq Living,
         UNCHANGED <<job, via, verdict, due, cost, got>>,
         DOMAIN Book' \subseteq DOMAIN Book,
         Living' \intersect DOMAIN ava' \subseteq DOMAIN Book'
  PROVE  Inserted'
<1>1. \A c \in Living' \intersect DOMAIN Book' : c \in Living \intersect DOMAIN Book /\ Book'[c] = Book[c]
  BY DEF Kept
<1>2. ASSUME NEW c \in Living' \intersect DOMAIN Book', via = "insert", due'[c] > due'[job']
      PROVE  Left(c)' <= Book'[c]
  <2>1. Left(c) <= Book[c] /\ Book'[c] = Book[c]
    BY <1>1, <1>2 DEF Inserted
  <2> QED
    BY <2>1 DEF Left, NonNeg
<1> QED
  BY <1>2 DEF Inserted

LEMMA InOrderKept ==
  ASSUME InOrder, Calm' => Calm, due' = due, \A c \in Tasks : got'[c] = 0 => got[c] = 0,
         Living' \subseteq Living, run' = run \/ run' \notin Tasks,
         Living' \intersect DOMAIN Book' \subseteq DOMAIN Book
  PROVE  InOrder'
BY DEF InOrder, Living

LEMMA RequestTimes ==
  ASSUME AdmInv, AdmInv', LeftOf' \in [Tasks -> Nat], TimeInv, Passing, Calm' => Calm
  PROVE  Judged' /\ Inserted' /\ Entries' /\ InOrder'
<1>1. ~Accepting /\ ~Accepting' /\ Coming = {} /\ Coming' = {} /\ Book = ava /\ Book' = ava
  BY Requested DEF Accepting, Coming, Book
<1>2. /\ UNCHANGED <<now, got, run, ready>> /\ Living' = Living
      /\ \A c \in Living : due'[c] = due[c] /\ cost'[c] = cost[c]
  <2>1. \A c \in Living : c \in Tasks /\ c < nextId
    BY Alive
  <2>2. nextId \in Nat /\ \A c \in Tasks : c \in Nat
    BY Requested, IdKinds
  <2>3. \A c \in Living : c \in Tasks /\ c # nextId
    BY <2>1, <2>2
  <2>4. UNCHANGED <<now, got, run, ready>> /\ Living' = Living
    BY Requested DEF workerVars, Living
  <2> QED
    BY <2>3, <2>4, Requested
<1>3. Kept
  BY <1>1, <1>2 DEF Kept
<1>4. Entries'
  BY <1>3, EntriesKept DEF TimeInv
<1>5. InOrder'
  <2>1. run \in Tasks => run \in Living
    BY Alive
  <2> QED
    BY <1>1, <1>2, <2>1 DEF TimeInv, InOrder
<1> QED
  BY <1>1, <1>4, <1>5 DEF Judged, Inserted

\* An instant passes: what runs needs one less, and what has an entry and has
\* not run waits for it.
LEMMA ElapseTimes ==
  ASSUME AdmInv, AdmInv', LeftOf' \in [Tasks -> Nat], TimeInv, Elapsing, Calm' => Calm
  PROVE  Judged' /\ Inserted' /\ Entries' /\ InOrder'
<1>1. ~Accepting /\ ~Accepting' /\ Coming = {} /\ Coming' = {} /\ Book = ava /\ Book' = ava
  BY Elapsed DEF Accepting, Coming, Book
<1>2. Settled
  BY Elapsed
<1>3. /\ now' = now + 1 /\ UNCHANGED <<due, cost, run>> /\ Living' = Living
      /\ got' = IF run \in Tasks THEN [got EXCEPT ![run] = @ + 1] ELSE got
  BY Elapsed DEF statusVars, Living
<1>4. ASSUME run \notin Tasks PROVE Living = {}
  <2>1. run \in {None, Nrt}
    BY <1>4, IdKinds DEF AdmInv, AdmissionTypeOK
  <2>2. ready = {}
    BY <1>2, <1>4, <2>1 DEF Settled
  <2> QED
    BY <1>4, <2>2 DEF Living
<1>5. \A c \in Tasks : /\ got[c] \in Nat
                       /\ got'[c] = IF c = run THEN got[c] + 1 ELSE got[c]
  BY <1>3, Kinds
<1>6. InOrder'
  <2> SUFFICES ASSUME Calm', run \in Tasks, NEW c \in Living \intersect DOMAIN ava, c # run, got'[c] = 0
               PROVE  due[run] < due[c]
    BY <1>1, <1>3 DEF InOrder
  <2>1. got[c] = 0
    BY <1>5, Alive
  <2> QED
    BY <1>1, <2>1 DEF TimeInv, InOrder
<1>7. Entries'
  <2> SUFFICES ASSUME Calm', NEW c \in (Living' \union Coming') \intersect DOMAIN Book', got'[c] = 0
               PROVE  Bounded(c)'
    BY DEF Entries
  <2>1. PICK x \in Tasks : x = c
    BY <1>1, <1>3, Alive
  <2>2. x \in Living /\ x \in DOMAIN ava /\ run \in Tasks /\ x # run /\ got[x] = 0 /\ got[run] \in Nat
    BY <1>1, <1>3, <1>4, <1>5, <2>1
  <2>3. due[run] < due[x] /\ run \in Living
    <3>1. run \in Living
      BY <2>2, Alive
    <3> QED
      BY <1>1, <2>2, <3>1 DEF TimeInv, InOrder
  <2>4. ava[x] + now + Need(Before(x)) <= due[x] /\ ava[x] \in Int
    BY <1>1, <2>2 DEF TimeInv, Entries, Bounded, Numbers
  <2> DEFINE S == Before(x)
             R == S \ {run}
  <2>5. S \in SUBSET Tasks /\ R \in SUBSET Tasks /\ run \in S /\ IsFiniteSet(S) /\ R \in SUBSET R
    BY <2>2, <2>3, InTasks, TasksFinite DEF Before
  <2>6. LeftOf'[run] = LeftOf[run] - 1 /\ LeftOf[run] \in Nat /\ LeftOf'[run] \in Nat
    <3>1. got'[run] <= cost[run] /\ got'[run] = got[run] + 1 /\ cost[run] \in Nat
      BY <1>3, <1>5, <2>2, Kinds DEF Calm, Undisturbed
    <3>2. LeftOf'[run] = NonNeg(cost[run] - got'[run])
      BY <1>3, <2>2 DEF LeftOf, Left, NonNeg
    <3>3. LeftOf[run] = NonNeg(cost[run] - got[run])
      BY <2>2 DEF LeftOf, Left
    <3> QED
      BY <2>2, <3>1, <3>2, <3>3 DEF NonNeg
  <2>7. \A d \in R : LeftOf'[d] <= LeftOf[d]
    <3>1. ASSUME NEW d \in R PROVE LeftOf'[d] <= LeftOf[d]
      <4>1. d \in Tasks /\ got'[d] = got[d] /\ cost'[d] = cost[d]
        BY <1>3, <1>5, <2>5
      <4>2. LeftOf'[d] = LeftOf[d] /\ LeftOf[d] \in Nat
        BY <4>1, LeftKinds DEF LeftOf, Left, NonNeg
      <4> QED
        BY <4>2
    <3> QED
      BY <3>1
  <2> HIDE DEF S, R
  <2>8. Sum(LeftOf, S) = LeftOf[run] + Sum(LeftOf, R)
    <3>1. \A y \in S : LeftOf[y] \in Nat
      BY <2>5, LeftKinds
    <3> QED
      BY <2>5, <3>1, SumTake DEF R
  <2>9. Sum(LeftOf', S) = LeftOf'[run] + Sum(LeftOf', R)
    <3>1. \A y \in S : LeftOf'[y] \in Nat
      BY <2>5
    <3> QED
      BY <2>5, <3>1, SumTake DEF R
  <2>10. Sum(LeftOf', R) \in Nat /\ Sum(LeftOf, R) \in Nat /\ Sum(LeftOf', R) <= Sum(LeftOf, R)
    BY <2>5, <2>7, NeedLeq, LeftKinds
  <2>11. now \in Nat /\ due[x] \in Nat
    BY Kinds
  <2>12. ava[x] + (now + 1) + Sum(LeftOf', S) <= due[x]
    <3>1. ava[x] + now + Sum(LeftOf, S) <= due[x]
      BY <2>4 DEF Need, S
    <3> QED
      BY <2>4, <2>6, <2>8, <2>9, <2>10, <2>11, <3>1
  <2>13. {d \in Living' \union Coming' : due'[d] < due'[x]} = S
    BY <1>1, <1>3 DEF S, Before
  <2> QED
    BY <1>1, <1>3, <2>1, <2>12, <2>13 DEF Bounded, Need, Before
<1> QED
  BY <1>1, <1>6, <1>7 DEF Judged, Inserted

\* The scheduler thread goes on, or gives up the request.
LEMMA ThreadTimes ==
  ASSUME AdmInv, AdmInv', LeftOf' \in [Tasks -> Nat], TimeInv, Calm' => Calm,
         Snapshot \/ Retry \/ Judge \/ WriteBack \/ InstantiateFails \/ Note
  PROVE  Judged' /\ Inserted' /\ Entries' /\ InOrder'
<1>1. UNCHANGED <<now, nextId, statusVars, workerVars>>
  BY DEF Snapshot, Retry, Judge, JudgeEmpty, JudgeNrt, JudgeQuick, JudgeInsert, JudgeReject, ToIdle,
     WriteBack, InstantiateFails, Note
<1>2. Living' = Living /\ UNCHANGED <<cost, due, got, run, nrt>>
  BY <1>1 DEF Living, statusVars, workerVars
<1>3. CASE WriteBack
  <2>1. /\ Accepting /\ Accepting' /\ Book = copy /\ Book' = copy /\ ava' = copy /\ spc' # "writeBack"
        /\ UNCHANGED <<job, verdict, via>>
    BY <1>3 DEF WriteBack, Accepting, Book
  <2>2. Kept /\ Coming' = Coming
    BY <1>1, <1>2, <2>1 DEF Kept, Coming
  <2>3. Judged'
    BY <1>2, <2>1, <2>2, JudgedKept DEF TimeInv
  <2>4. Inserted'
    BY <1>2, <2>1, <2>2, InsertedKept DEF TimeInv
  <2>5. Entries' /\ InOrder'
    BY <1>2, <2>1, <2>2, EntriesKept, InOrderKept DEF TimeInv
  <2> QED
    BY <2>3, <2>4, <2>5
<1>4. CASE ~WriteBack /\ ~Accepting'
  <2>1. spc # "writeBack" /\ spc' # "writeBack" /\ ava' = ava
    BY <1>4 DEF Snapshot, Retry, Judge, JudgeEmpty, JudgeNrt, JudgeQuick, JudgeInsert, JudgeReject,
       AloneOrPanic, Verdict, ToIdle, InstantiateFails, Note, Accepting
  <2>2. Book = ava /\ Book' = ava /\ Coming' = {}
    BY <1>4, <2>1 DEF Book, Coming
  <2>3. Kept
    BY <1>1, <1>2, <2>2 DEF Kept
  <2>4. Entries' /\ InOrder'
    BY <1>2, <2>2, <2>3, EntriesKept, InOrderKept DEF TimeInv
  <2> QED
    BY <1>4, <2>4 DEF Judged, Inserted
<1>5. CASE ~WriteBack /\ Accepting'
  <2>1. JudgeEmpty \/ JudgeNrt \/ JudgeQuick \/ JudgeInsert
    BY <1>5 DEF Snapshot, Retry, Judge, JudgeReject, ToIdle, InstantiateFails, Note, Accepting
  <2>2. Accept
    BY <1>1, <1>5, <2>1 DEF JudgeEmpty, JudgeNrt, JudgeQuick, JudgeInsert, Accept, Accepting
  <2> QED
    BY <2>1, <2>2, AloneTimes, QuickTimes, InsertTimes
<1> QED
  BY <1>3, <1>4, <1>5

LEMMA PushTimes ==
  ASSUME AdmInv, AdmInv', LeftOf' \in [Tasks -> Nat], TimeInv, Calm' => Calm, Push
  PROVE  Judged' /\ Inserted' /\ Entries' /\ InOrder'
<1>1. /\ Accepting /\ spc = "spawn" /\ ~Accepting' /\ spc' = "note" /\ verdict = "SCHEDULABLE"
      /\ Coming = {job} /\ Coming' = {}
      /\ Book = ava /\ Book' = ava /\ ava' = ava /\ UNCHANGED <<now, cost, due, got, run>>
  BY DEF Push, Accepting, Coming, Book, statusVars
<1>2. job \in Tasks /\ Living' = Living \union {job}
  BY <1>1, Alive DEF Push, Living, InHand
<1>3. Kept
  BY <1>1, <1>2 DEF Kept
<1>4. Entries'
  BY <1>3, EntriesKept DEF TimeInv
<1>5. InOrder'
  <2> SUFFICES ASSUME Calm', run \in Tasks, NEW c \in Living' \intersect DOMAIN ava, c # run, got[c] = 0
               PROVE  due[run] < due[c]
    BY <1>1 DEF InOrder
  <2>1. CASE c \in Living
    BY <1>1, <2>1 DEF TimeInv, InOrder
  <2>2. CASE c = job
    <3>1. run \in Living /\ Living # {}
      BY Alive
    <3>2. via # "insert"
      BY <1>1, <2>2 DEF TimeInv, Inserted
    <3>3. via = "quick"
      <4>1. nrt = "absent"
        BY DEF Calm, Undisturbed
      <4> QED
        BY <1>1, <3>1, <3>2, <4>1 DEF TimeInv, Judged, AdmInv, AdmissionTypeOK, ThreadOK
    <3>4. due[run] + cost[job] <= due[job] /\ cost[job] >= 1
      BY <1>1, <3>1, <3>3 DEF TimeInv, Judged, Untried, InHand
    <3>5. due[run] \in Nat /\ due[job] \in Nat /\ cost[job] \in Nat
      BY <1>2, Kinds
    <3> QED
      BY <2>2, <3>4, <3>5
  <2> QED
    BY <1>2, <2>1, <2>2
<1> QED
  BY <1>1, <1>4, <1>5 DEF Judged, Inserted

LEMMA HandOverNowTimes ==
  ASSUME AdmInv, AdmInv', LeftOf' \in [Tasks -> Nat], TimeInv, Calm' => Calm, HandOverNow
  PROVE  Judged' /\ Inserted' /\ Entries' /\ InOrder'
<1>1. /\ Accepting /\ spc = "spawn" /\ ~Accepting' /\ spc' = "idle" /\ verdict = "PREEMPTIVE"
      /\ Coming = {job} /\ Coming' = {} /\ run' = job
      /\ Book = ava /\ Book' = ava /\ ava' = ava /\ UNCHANGED <<now, cost, due, got, nextId>>
  BY DEF HandOverNow, ToIdle, Accepting, Coming, Book
<1>2. job \in Tasks /\ Living' = Living \union {job} /\ job < nextId
  BY <1>1, Alive DEF HandOverNow, Living, InHand
<1>3. Kept
  BY <1>1, <1>2 DEF Kept
<1>4. Entries'
  BY <1>3, EntriesKept DEF TimeInv
<1>5. InOrder'
  <2> SUFFICES ASSUME Calm', NEW c \in Living' \intersect DOMAIN ava, c # job, got[c] = 0
               PROVE  due[job] < due[c]
    BY <1>1 DEF InOrder
  <2>1. c \in Living /\ c \in Tasks /\ c < nextId
    BY <1>2, Alive
  <2>2. Calm
    OBVIOUS
  <2>3. via = "insert"
    BY <1>1, <2>1, <2>2 DEF Calm, Undisturbed, TimeInv, Judged, AdmInv, AdmissionTypeOK, ThreadOK
  <2>4. due[job] <= due[c] /\ due[c] # due[job]
    BY <1>1, <1>2, <2>1, <2>2, <2>3 DEF TimeInv, Inserted, Calm, DeadlinesDiffer
  <2>5. due[job] \in Nat /\ due[c] \in Nat
    BY <1>2, <2>1, Kinds
  <2> QED
    BY <2>4, <2>5
<1> QED
  BY <1>1, <1>4, <1>5 DEF Judged, Inserted

\* The worker: another task runs, or one is over.
LEMMA WorkerTimes ==
  ASSUME AdmInv, AdmInv', LeftOf' \in [Tasks -> Nat], TimeInv, Calm' => Calm,
         (\E c \in Ids : Resume(c)) \/ Alarm \/ Finish
  PROVE  Judged' /\ Inserted' /\ Entries' /\ InOrder'
<1>1. UNCHANGED <<now, nextId, cost, due, got, threadVars>> /\ (nrt' = "absent" => nrt = "absent")
  BY DEF Resume, Alarm, Finish
<1>2. UNCHANGED <<spc, job, copy, verdict, via>>
  BY <1>1 DEF threadVars
<1>3. Living' \subseteq Living
  <2>1. ASSUME NEW c \in Ids, Resume(c) PROVE Living' \subseteq Living
    <3>1. c \in Tasks => c \in ready
      BY <2>1, IdKinds DEF Resume, Chosen
    <3> QED
      BY <2>1, <3>1 DEF Resume, Living
  <2> QED
    BY <2>1 DEF Alarm, Finish, Living
<1>4. DOMAIN ava' \subseteq DOMAIN ava /\ \A c \in DOMAIN ava' : ava'[c] = ava[c]
  BY DEF Resume, Alarm, Finish, DropEntry
<1>5. /\ DOMAIN Book' \subseteq DOMAIN Book /\ \A c \in DOMAIN Book' : Book'[c] = Book[c]
      /\ Coming' = Coming /\ Accepting' = Accepting
  BY <1>2, <1>4 DEF Book, Coming, Accepting
<1>6. Kept
  BY <1>1, <1>3, <1>5 DEF Kept
<1>7. Judged'
  BY <1>1, <1>2, <1>3, <1>5, <1>6, JudgedKept DEF TimeInv, Judged
<1>8. Inserted'
  <2>1. CASE Accepting /\ via = "insert"
    <3>1. Living' \intersect DOMAIN ava' \subseteq DOMAIN Book'
      BY <1>2, <1>3, <1>4, <2>1 DEF TimeInv, Inserted, Book
    <3> QED
      BY <1>1, <1>2, <1>3, <1>5, <1>6, <2>1, <3>1, InsertedKept DEF TimeInv
  <2>2. CASE ~(Accepting /\ via = "insert")
    BY <1>2, <1>5, <2>2 DEF Inserted
  <2> QED
    BY <2>1, <2>2
<1>9. Entries'
  BY <1>6, EntriesKept DEF TimeInv
<1>10. InOrder'
  <2>1. CASE Alarm \/ Finish
    <3>1. run' \notin Tasks
      BY <2>1, IdKinds DEF Alarm, Finish
    <3> QED
      BY <1>1, <1>3, <1>5, <3>1, InOrderKept DEF TimeInv
  <2>2. ASSUME NEW x \in Ids, Resume(x) PROVE InOrder'
    <3> SUFFICES ASSUME Calm', x \in Tasks, NEW c \in Living' \intersect DOMAIN Book', c # x, got[c] = 0
                 PROVE  due[x] < due[c]
      BY <1>1, <2>2 DEF InOrder, Resume
    <3>1. c \in Living /\ c \in Tasks /\ c < nextId /\ run = None
      BY <1>3, <2>2, Alive DEF Resume
    <3>2. c \in ready
      BY <3>1, IdKinds DEF Living
    <3>3. x \in ready /\ due[x] <= due[c]
      BY <2>2, <3>2, IdKinds DEF Resume, Chosen
    <3>4. x \in Living
      BY <3>3 DEF Living
    <3>5. due[x] # due[c]
      BY <3>1, <3>4, Alive DEF Calm, DeadlinesDiffer
    <3>6. due[x] \in Nat /\ due[c] \in Nat
      BY <3>1, Kinds
    <3> QED
      BY <3>3, <3>5, <3>6
  <2> QED
    BY <2>1, <2>2
<1> QED
  BY <1>7, <1>8, <1>9, <1>10

\* A request without a deadline ends the calm.
LEMMA NrtTimes ==
  ASSUME TimeInv, NEW e \in Costs, NEW r \in RelDeadlines, RequestNrt(e, r)
  PROVE  Judged' /\ Inserted' /\ Entries' /\ InOrder'
<1>1. spc' = "idle" /\ nrt' # "absent"
  BY DEF RequestNrt, threadVars
<1> QED
  BY <1>1 DEF Judged, Inserted, Accepting, Entries, InOrder, Calm, Undisturbed

LEMMA TimeStep ==
  ASSUME AdmInv, AdmInv', LeftOf' \in [Tasks -> Nat], TimeInv, [Next]_vars
  PROVE  TimeInv'
<1>1. Numbers' /\ Untried' /\ Placed'
  BY NumbersStep, UntriedStep, PlacedStep DEF TimeInv
<1>2. Calm' => Calm
  BY CalmBefore
<1>3. Judged' /\ Inserted' /\ Entries' /\ InOrder'
  <2>1. CASE UNCHANGED vars
    BY <2>1 DEF vars, statusVars, workerVars, threadVars, historyVars, TimeInv, Judged, Inserted, Entries, InOrder,
       Accepting, Coming, Book, Living, Bounded, Before, Need, LeftOf, Left, NonNeg, Calm, Undisturbed,
       DeadlinesDiffer
  <2>2. CASE Passing
    BY <1>2, <2>2, RequestTimes
  <2>3. CASE Elapsing
    BY <1>2, <2>3, ElapseTimes
  <2>4. CASE Snapshot \/ Retry \/ Judge \/ WriteBack \/ InstantiateFails \/ Note
    BY <1>2, <2>4, ThreadTimes
  <2>5. CASE Push
    BY <1>2, <2>5, PushTimes
  <2>6. CASE HandOverNow
    BY <1>2, <2>6, HandOverNowTimes
  <2>7. CASE (\E c \in Ids : Resume(c)) \/ Alarm \/ Finish
    BY <1>2, <2>7, WorkerTimes
  <2> QED
    BY <2>1, <2>2, <2>3, <2>4, <2>5, <2>6, <2>7, NrtTimes DEF Next, Passing, Elapsing
<1> QED
  BY <1>1, <1>3 DEF TimeInv

---------------------------------------------------------------------------
\* The inductive invariant of the times: what each verdict was given for holds
\* until the hand-over, the entries of ava_time bound the slack of the tasks
\* that have not run, and those wait for earlier ones only.
THEOREM Timing == Spec => [](AdmInv /\ TimeInv)
<1>1. Init => AdmInv /\ TimeInv
  BY AdmInit, TimeInit
<1>2. AdmInv => LeftOf \in [Tasks -> Nat]
  BY LeftKinds
<1>3. AdmInv' => (LeftOf \in [Tasks -> Nat])'
  BY <1>2, PTL
<1>4. AdmInv /\ AdmInv' /\ TimeInv /\ [Next]_vars => TimeInv'
  BY <1>3, TimeStep
<1> QED
  BY <1>1, <1>4, Accounting, PTL DEF Spec

\* With the times the tasks still need: EndsInTime as a sum.
LEMMA EndsSum ==
  ASSUME AdmInv, NEW c \in Tasks, NEW S \in SUBSET Tasks
  PROVE  EndsInTime(c, S) <=> now + Need({d \in S : due[d] < due[c]}) + LeftOf[c] <= due[c]
<1>1. {d \in S : due[d] < due[c]} \in SUBSET Tasks
  OBVIOUS
<1>2. Work({d \in S : due[d] < due[c]}) = Need({d \in S : due[d] < due[c]})
  BY <1>1, WorkSum
<1> QED
  BY <1>2, LeftKinds DEF EndsInTime

\* A feasible set ends by its last deadline.
LEMMA FeasibleEnds ==
  ASSUME AdmInv, Feasible(Living), Living # {}
  PROVE  \E c \in Living : (\A d \in Living : due[d] <= due[c]) /\ now + Need(Living) <= due[c]
<1>1. Living \subseteq Tasks /\ IsFiniteSet(Living) /\ \A c \in Living : due[c] \in Nat
  BY Alive, Kinds, TasksFinite
<1>2. PICK c \in Living : \A d \in Living : due[d] <= due[c]
  BY <1>1, Greatest
<1>3. {d \in Living : due[d] <= due[c]} = Living
  BY <1>2
<1>4. now + Work(Living) <= due[c]
  BY <1>3 DEF Feasible
<1> QED
  BY <1>1, <1>2, <1>4, WorkSum

\* An accepted request meets its own deadline if no more requests come: the
\* branches of an empty board, of a running task without a deadline and nothing
\* else, the quick test and the insertion all leave it the time it needs.
THEOREM AcceptedInTime == Spec => []OwnTimeFits
<1>1. AdmInv /\ TimeInv => OwnTimeFits
  <2> SUFFICES ASSUME AdmInv, TimeInv, Accepting, Feasible(Living),
                      via \in {"empty", "nrt", "quick", "insert"}
               PROVE  EndsInTime(job, Living \union {job})
    BY DEF OwnTimeFits, Accepted, Accepting
  <2>1. /\ job \in Tasks /\ Living \subseteq Tasks /\ Living \union {job} \in SUBSET Tasks
        /\ now \in Nat /\ due[job] \in Nat /\ cost[job] \in Nat
    BY Alive, Kinds DEF Accepting, InHand
  <2> DEFINE S == {d \in Living \union {job} : due[d] < due[job]}
  <2>2. S \in SUBSET Living /\ S = Before(job)
    BY <2>1 DEF Before, Coming
  <2>3. LeftOf[job] \in Nat /\ LeftOf[job] <= cost[job]
    BY <2>1, LeftKinds
  <2> HIDE DEF S
  <2>4. Need(S) \in Nat /\ Need(Living) \in Nat /\ Need(S) <= Need(Living)
    BY <2>1, <2>2, NeedLeq, LeftKinds DEF Need
  <2>5. now + Need(S) + cost[job] <= due[job]
    <3>1. CASE Living = {}
      <4>1. Need(S) = 0
        BY <2>2, <3>1, SumEmpty DEF Need
      <4>2. now + cost[job] <= due[job]
        BY <2>1, <2>2, <2>4, <4>1 DEF TimeInv, Judged
      <4> QED
        BY <2>1, <4>1, <4>2
    <3>2. CASE Living # {} /\ via = "quick"
      <4>1. PICK c \in Living : now + Need(Living) <= due[c]
        BY <3>2, FeasibleEnds
      <4>2. due[c] + cost[job] <= due[job] /\ due[c] \in Nat
        BY <2>1, <3>2, Kinds DEF TimeInv, Judged
      <4> QED
        BY <2>1, <2>4, <4>1, <4>2
    <3>3. CASE via = "insert"
      BY <2>2, <3>3 DEF TimeInv, Judged
    <3> QED
      BY <3>1, <3>2, <3>3 DEF TimeInv, Judged
  <2>6. now + Need(S) + LeftOf[job] <= due[job]
    BY <2>1, <2>3, <2>4, <2>5
  <2> QED
    BY <2>1, <2>6, EndsSum DEF S
<1> QED
  BY <1>1, Timing, PTL

\* A request accepted behind all others, or alone, leaves the whole set
\* feasible.
THEOREM BehindKeepsFeasible == Spec => []LastKeepsFeasible
<1>1. AdmInv /\ TimeInv => LastKeepsFeasible
  <2> SUFFICES ASSUME AdmInv, TimeInv, Accepting, Feasible(Living), via \in {"empty", "nrt", "quick"},
                      NEW c \in Living \union {job}
               PROVE  now + Work({d \in Living \union {job} : due[d] <= due[c]}) <= due[c]
    BY DEF LastKeepsFeasible, Accepted, Accepting, Feasible
  <2>1. /\ job \in Tasks /\ Living \subseteq Tasks /\ job \notin Living
        /\ now \in Nat /\ due[job] \in Nat /\ cost[job] \in Nat /\ cost[job] >= 1
        /\ \A d \in Living : due[d] \in Nat
    BY Alive, Kinds DEF Accepting, InHand, TimeInv, Untried
  <2>2. \A d \in Living : due[d] + cost[job] <= due[job]
    BY DEF TimeInv, Judged
  <2>3. \A d \in Living : due[d] < due[job]
    BY <2>1, <2>2
  <2>4. CASE c \in Living
    <3>1. {d \in Living \union {job} : due[d] <= due[c]} = {d \in Living : due[d] <= due[c]}
      BY <2>1, <2>3, <2>4
    <3> QED
      BY <2>4, <3>1 DEF Feasible
  <2>5. CASE c = job
    <3>1. {d \in Living \union {job} : due[d] <= due[job]} = Living \union {job}
      BY <2>1, <2>3
    <3>2. LeftOf[job] \in Nat /\ LeftOf[job] <= cost[job] /\ \A d \in Tasks : LeftOf[d] \in Nat
      BY <2>1, LeftKinds
    <3>3. Need(Living \union {job}) = Need(Living) + LeftOf[job] /\ Need(Living) \in Nat
      <4>1. IsFiniteSet(Living)
        BY <2>1, TasksFinite
      <4>2. Sum(LeftOf, Living \union {job}) = Sum(LeftOf, Living) + LeftOf[job]
        BY <2>1, <3>2, <4>1, SumAdd
      <4>3. Sum(LeftOf, Living) \in Nat
        BY <2>1, <3>2, <4>1, SumNat
      <4> QED
        BY <4>2, <4>3 DEF Need
    <3>4. Work(Living \union {job}) = Need(Living \union {job})
      BY <2>1, WorkSum
    <3>5. now + Need(Living) + cost[job] <= due[job]
      <4>1. CASE Living = {}
        <5>1. Need(Living) = 0
          BY <4>1, SumEmpty DEF Need
        <5>2. now + cost[job] <= due[job]
          BY DEF TimeInv, Judged
        <5> QED
          BY <2>1, <5>1, <5>2
      <4>2. CASE Living # {}
        <5>1. PICK d \in Living : now + Need(Living) <= due[d]
          BY <4>2, FeasibleEnds
        <5> QED
          BY <2>1, <2>2, <3>3, <5>1
      <4> QED
        BY <4>1, <4>2
    <3>6. now + Need(Living \union {job}) <= due[job]
      BY <2>1, <3>2, <3>3, <3>5
    <3> QED
      BY <2>5, <3>1, <3>4, <3>6
  <2> QED
    BY <2>4, <2>5
<1> QED
  BY <1>1, Timing, PTL

\* An insertion leaves the later tasks that have an entry in ava_time and have
\* not been run in time, as long as no two deadlines are equal and nothing has
\* cost time that admission control does not reckon with.
THEOREM DelayedStayInTime == Spec => []UnstartedStayInTime
<1>1. AdmInv /\ TimeInv => UnstartedStayInTime
  <2> SUFFICES ASSUME AdmInv, TimeInv, Accepting, via = "insert", Calm,
                      NEW c \in Living \intersect DOMAIN ava, due[c] > due[job], got[c] = 0
               PROVE  EndsInTime(c, Living \union {job})
    BY DEF UnstartedStayInTime, Accepted, Accepting, Calm
  <2>1. c \in Tasks /\ Living \union {job} \in SUBSET Tasks /\ c \in Living /\ c \in DOMAIN Book
    BY Alive DEF TimeInv, Inserted, Accepting, InHand
  <2>2. Book[c] + now + Need(Before(c)) <= due[c]
    BY <2>1 DEF TimeInv, Entries, Bounded
  <2>3. Left(c) <= Book[c] /\ Book[c] \in Int
    BY <2>1 DEF TimeInv, Inserted, Numbers, Book
  <2>4. Before(c) = {d \in Living \union {job} : due[d] < due[c]}
    BY DEF Before, Coming
  <2>5. LeftOf[c] = Left(c) /\ LeftOf[c] \in Nat /\ now \in Nat /\ due[c] \in Nat
    BY <2>1, LeftKinds, Kinds
  <2>6. Need(Before(c)) \in Nat
    <3>1. Before(c) \in SUBSET Tasks /\ IsFiniteSet(Before(c))
      BY <2>1, InTasks, TasksFinite
    <3>2. \A d \in Before(c) : LeftOf[d] \in Nat
      BY <3>1, LeftKinds
    <3> QED
      BY <3>1, <3>2, SumNat DEF Need
  <2>7. now + Need(Before(c)) + LeftOf[c] <= due[c]
    BY <2>2, <2>3, <2>5, <2>6
  <2> QED
    BY <2>1, <2>4, <2>7, EndsSum
<1> QED
  BY <1>1, Timing, PTL

\* However long is_schedulable has waited, it accepts no request whose own
\* execution time no longer fits before its deadline.
THEOREM LateRefused == Spec => []AcceptsInTime
<1>1. TimeInv => AcceptsInTime
  BY DEF TimeInv, Judged, Accepting, AcceptsInTime
<1> QED
  BY <1>1, Timing, PTL
=============================================================================
