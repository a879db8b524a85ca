--------------------------- MODULE RequestsProofs ---------------------------
(***************************************************************************)
(* The answer of a call, for any number of calls in flight (FuncResult);   *)
(* requests, for any number of calls and names and any capacity of the     *)
(* queue: types, names that stay, unique tasks, the FuncResult of each     *)
(* call used by FuncResult's rules, and who is to answer each call.        *)
(***************************************************************************)
EXTENDS Requests, FiniteSetTheorems, TLAPS

USE CallsAssumption, RequestsAssumption

---------------------------------------------------------------------------
(* The answer of a call: FuncResult *)

\* A call being answered has a round to do.
RoundsOK ==
    \A c \in Calls : apc[c] \in {"result", "complete", "wake"} => rounds[c] \in 1 .. 2

\* The flag goes up over a stored answer, which no later round changes, and
\* the future goes on only when it has seen the flag.
StoredFirst ==
    \A c \in Calls :
        /\ apc[c] = "working" => ~completed[c]
        /\ completed[c] \/ apc[c] \in {"complete", "wake"} => result[c] = answer[c]
        /\ fpc[c] \in {"ready", "delivered"} => completed[c]
        /\ fpc[c] # "panicked"

AnswerInv == TypeOK /\ RoundsOK /\ StoredFirst

LEMMA AnswerInit == Init => AnswerInv
  BY DEF Init, AnswerInv, TypeOK, RoundsOK, StoredFirst, Answers

\* Steps of the future.
LEMMA AnswerFuture ==
  ASSUME AnswerInv, NEW c \in Calls, Poll(c) \/ Disconnect(c) \/ Polling(c)
  PROVE  AnswerInv'
<1> USE DEF AnswerInv, TypeOK, RoundsOK, StoredFirst, answerVars
<1>1. CASE Poll(c)
  BY <1>1 DEF Poll
<1>2. CASE Disconnect(c)
  BY <1>2 DEF Disconnect
<1>3. CASE Check(c)
  BY <1>3 DEF Check
<1>4. CASE Register(c)
  BY <1>4 DEF Register
<1>5. CASE Deliver(c)
  <2>1. result[c] # NoResult
    BY <1>5 DEF Deliver
  <2> QED
    BY <1>5, <2>1 DEF Deliver
<1> QED
  BY <1>1, <1>2, <1>3, <1>4, <1>5 DEF Polling

\* Steps of the thread that answers.
LEMMA AnswerThread ==
  ASSUME AnswerInv, NEW c \in Calls, Finish(c) \/ Answering(c)
  PROVE  AnswerInv'
<1> USE DEF AnswerInv, TypeOK, RoundsOK, StoredFirst
<1>1. ASSUME NEW a \in Answers, Answered(c, a) PROVE AnswerInv'
  BY <1>1 DEF Answered
<1>2. CASE CallRejected(c)
  BY <1>2 DEF CallRejected, Answers
<1>3. CASE NoAnswer(c)
  BY <1>3 DEF NoAnswer
<1>4. CASE SetResult(c)
  BY <1>4 DEF SetResult
<1>5. CASE SetCompleted(c)
  BY <1>5 DEF SetCompleted
<1>6. CASE Wake(c)
  BY <1>6 DEF Wake
<1> QED
  BY <1>1, <1>2, <1>3, <1>4, <1>5, <1>6 DEF Finish, Answering

\* The inductive invariant: the flag of a call is up only over its answer.
THEOREM AnswerStored == Spec => []AnswerInv
<1>1. AnswerInv /\ [Next]_vars => AnswerInv'
  <2>1. AnswerInv /\ UNCHANGED vars => AnswerInv'
    BY DEF AnswerInv, TypeOK, RoundsOK, StoredFirst, vars, answerVars
  <2> QED
    BY <2>1, AnswerFuture, AnswerThread DEF Next
<1> QED
  BY <1>1, AnswerInit, PTL DEF Spec

\* The unwrap in poll never panics, and what a handler returns is what the
\* answering thread said, once or twice.
THEOREM UnwrapSucceeds == Spec => []ReadyHasResult
<1>1. AnswerInv => ReadyHasResult
  BY DEF AnswerInv, StoredFirst, ReadyHasResult
<1> QED
  BY <1>1, AnswerStored, PTL

---------------------------------------------------------------------------
(* Requests *)

\* The scheduler thread has a request in hand unless it is idle.
InHand == sched # "idle" => serving \in Calls

\* A future is polled by a handler that awaits it.
Polled ==
    \A c \in Calls : fpc[c] \in {"check", "register", "ready"} => hpc[c] = "await"

\* What is looked up later was looked up before, by a request that has arrived:
\* the names it asks for do not change any more.
Deployed(c) == hpc[c] # "idle" /\ wasm[c] \in registered

Known ==
    /\ \A i \in 1 .. Len(requestQueue) : Deployed(requestQueue[i])
    /\ sched # "idle" => Deployed(serving)
    /\ \A c \in Calls : /\ hpc[c] \in {"begin", "await", "timeLock"} => Deployed(c)
                        /\ hpc[c] # "panicked"

\* The name of a living task is in NAME_ID, and its alone.
Named ==
    /\ \A c \in Calls : hpc[c] = "idle" => task[c] = Anon
    /\ \A c \in live : hpc[c] # "idle" /\ task[c] \in names \union {Anon}
    /\ UniqueTasks

ReqInv == AnswerInv /\ ReqTypeOK /\ InHand /\ Polled /\ Known /\ Named

---------------------------------------------------------------------------
(* A step is a step of one FuncResult, or none of theirs. *)

LEMMA CallStep == ASSUME ReqTypeOK, InHand, ReqNext PROVE [Next]_vars
<1> USE DEF callVars, vars
<1>1. ASSUME NEW c \in Calls, NEW n \in WasmNames,
             Refuse(c, n) \/ NamedArrives(c, n) \/ TestArrives(c, n)
      PROVE  UNCHANGED vars
  BY <1>1 DEF Refuse, NamedArrives, TestArrives
<1>2. ASSUME NEW c \in Calls, NEW n \in WasmNames, NEW t \in TaskNames \union {Anon},
             CallArrives(c, n, t) \/ CallOverflows(c, n, t)
      PROVE  Next \/ UNCHANGED vars
  BY <1>2 DEF CallArrives, CallOverflows, Next, Finish
<1>3. ASSUME NEW c \in Calls, SetTestEnv(c) \/ SetTestTime(c)
      PROVE  UNCHANGED vars
  BY <1>3 DEF SetTestEnv, SetTestTime
<1>4. ASSUME NEW c \in Calls, PollResult(c) \/ Awaiting(c) \/ Return(c) \/ Drop(c)
      PROVE  Next
  BY <1>4 DEF PollResult, Awaiting, Return, Drop, Executor, Polling, Next
<1>5. ASSUME NEW c \in Calls, GuestEnds(c) \/ Answer(c)
      PROVE  Next
  BY <1>5 DEF GuestEnds, Answer, Finish, Next
<1>6. ASSUME NEW n \in WasmNames, RegisterChecks(n) \/ RegisterResumes(n) \/ InitChecks(n)
      PROVE  UNCHANGED vars
  BY <1>6 DEF RegisterChecks, RegisterResumes, InitChecks
<1>7. CASE Install \/ TakeTest \/ TestEnds
  BY <1>7 DEF Install, TakeTest, TestEnds
<1>8. CASE SchedulerLoop
  <2>1. CASE Pop \/ CallSpawns \/ ServeEnds
    BY <2>1 DEF Pop, CallSpawns, ServeEnds
  <2>2. CASE Lookup \/ CallFails \/ CallUnschedulable
    <3>1. serving \in Calls
      BY <2>2 DEF Lookup, CallFails, CallUnschedulable, InHand
    <3> QED
      BY <2>2, <3>1 DEF Lookup, CallFails, CallUnschedulable, Next, Finish, Answers
  <2> QED
    BY <1>8, <2>1, <2>2 DEF SchedulerLoop
<1>9. ASSUME NEW a \in Answers, CallSync(a) PROVE Next
  <2>1. testing \in Calls
    BY <1>9 DEF CallSync, ReqTypeOK
  <2> QED
    BY <1>9, <2>1 DEF CallSync, Next, Finish
<1> QED
  BY <1>1, <1>2, <1>3, <1>4, <1>5, <1>6, <1>7, <1>8, <1>9 DEF ReqNext

LEMMA AnswerStep == ASSUME AnswerInv, [Next]_vars PROVE AnswerInv'
<1>1. CASE UNCHANGED vars
  BY <1>1 DEF AnswerInv, TypeOK, RoundsOK, StoredFirst, vars, answerVars
<1> QED
  BY <1>1, AnswerFuture, AnswerThread DEF Next

---------------------------------------------------------------------------
(* The steps of the executor *)

LEMMA ReqArrives ==
  ASSUME ReqInv, AnswerInv', NEW c \in Calls, NEW n \in WasmNames,
         \/ Refuse(c, n) \/ NamedArrives(c, n) \/ TestArrives(c, n)
         \/ \E t \in TaskNames \union {Anon} : CallArrives(c, n, t) \/ CallOverflows(c, n, t)
  PROVE  ReqInv'
<1> USE DEF ReqInv, AnswerInv, ReqTypeOK, InHand, Polled, Known, Deployed, Named,
            UniqueTasks, Arrives, callVars, mapVars, threadVars, testVars
<1>5. CASE Refuse(c, n)
  <2> USE <1>5 DEF Refuse
  <2>1. ReqTypeOK'
    OBVIOUS
  <2>2. InHand' /\ Polled'
    OBVIOUS
  <2>3. Known'
    OBVIOUS
  <2>4. Named'
    OBVIOUS
  <2> QED
    BY <2>1, <2>2, <2>3, <2>4
<1>1. CASE TestArrives(c, n)
  <2> USE <1>1 DEF TestArrives
  <2>1. ReqTypeOK'
    OBVIOUS
  <2>2. InHand' /\ Polled'
    OBVIOUS
  <2>3. Known'
    OBVIOUS
  <2>4. Named'
    OBVIOUS
  <2> QED
    BY <2>1, <2>2, <2>3, <2>4
<1>2. CASE NamedArrives(c, n)
  <2> USE <1>2 DEF NamedArrives
  <2>1. ReqTypeOK'
    OBVIOUS
  <2>2. InHand' /\ Polled'
    OBVIOUS
  <2>3. Known'
    OBVIOUS
  <2>4. Named'
    OBVIOUS
  <2> QED
    BY <2>1, <2>2, <2>3, <2>4
<1>3. ASSUME NEW t \in TaskNames \union {Anon}, CallArrives(c, n, t) PROVE ReqInv'
  <2> USE <1>3 DEF CallArrives
  <2>1. ReqTypeOK'
    OBVIOUS
  <2>2. InHand' /\ Polled'
    OBVIOUS
  <2>3. Known'
    OBVIOUS
  <2>4. Named'
    OBVIOUS
  <2> QED
    BY <2>1, <2>2, <2>3, <2>4
<1>4. ASSUME NEW t \in TaskNames \union {Anon}, CallOverflows(c, n, t) PROVE ReqInv'
  <2> USE <1>4 DEF CallOverflows, NoAnswer
  <2>1. ReqTypeOK'
    OBVIOUS
  <2>2. InHand' /\ Polled'
    OBVIOUS
  <2>3. Known'
    OBVIOUS
  <2>4. Named'
    OBVIOUS
  <2> QED
    BY <2>1, <2>2, <2>3, <2>4
<1> QED
  BY <1>1, <1>2, <1>3, <1>4, <1>5

LEMMA ReqHandler ==
  ASSUME ReqInv, AnswerInv', NEW c \in Calls,
         \/ SetTestEnv(c) \/ SetTestTime(c)
         \/ PollResult(c) \/ Awaiting(c) \/ Return(c) \/ Drop(c)
  PROVE  ReqInv'
<1> USE DEF ReqInv, AnswerInv, ReqTypeOK, InHand, Polled, Known, Deployed, Named,
            UniqueTasks, callVars, mapVars, threadVars, testVars
<1>1. CASE SetTestEnv(c)
  <2> USE <1>1 DEF SetTestEnv
  <2>1. ReqTypeOK' /\ InHand'
    <3>1. testQueue' \in Seq(Calls)
      <4>1. testQueue' \in {testQueue, Append(testQueue, c)}
        OBVIOUS
      <4>2. Append(testQueue, c) \in Seq(Calls)
        BY ONLY testQueue \in Seq(Calls), c \in Calls
      <4> QED
        BY <4>1, <4>2
    <3>2. hpc' \in [Calls -> {"idle", "refused", "begin", "await", "testLock",
                              "timeLock", "done", "panicked"}]
      OBVIOUS
    <3>3. configured' \subseteq registered' /\ registered' \subseteq WasmNames
      OBVIOUS
    <3> QED
      BY <3>1, <3>2, <3>3
  <2>2. Polled'
    OBVIOUS
  <2>3. Known'
    OBVIOUS
  <2>4. Named'
    OBVIOUS
  <2> QED
    BY <2>1, <2>2, <2>3, <2>4
<1>2. CASE SetTestTime(c)
  BY <1>2 DEF SetTestTime
<1>3. CASE PollResult(c)
  BY <1>3 DEF PollResult, Executor, Poll, TypeOK
<1>4. CASE Awaiting(c)
  BY <1>4 DEF Awaiting, Check, Register, TypeOK
<1>5. CASE Return(c)
  BY <1>5 DEF Return, Deliver, TypeOK
<1>6. CASE Drop(c)
  BY <1>6 DEF Drop, Disconnect, TypeOK
<1> QED
  BY <1>1, <1>2, <1>3, <1>4, <1>5, <1>6

LEMMA ReqDeploy ==
  ASSUME ReqInv, AnswerInv',
         \/ \E n \in WasmNames : RegisterChecks(n) \/ RegisterResumes(n) \/ InitChecks(n)
         \/ Install
  PROVE  ReqInv'
<1> USE DEF ReqInv, AnswerInv, ReqTypeOK, InHand, Polled, Known, Deployed, Named,
            UniqueTasks, callVars, mapVars, threadVars, testVars
<1>1. ASSUME NEW n \in WasmNames, RegisterChecks(n) PROVE ReqInv'
  BY <1>1 DEF RegisterChecks
<1>2. ASSUME NEW n \in WasmNames, RegisterResumes(n) PROVE ReqInv'
  BY <1>2 DEF RegisterResumes
<1>3. ASSUME NEW n \in WasmNames, InitChecks(n) PROVE ReqInv'
  BY <1>3 DEF InitChecks
<1>4. CASE Install
  BY <1>4 DEF Install
<1> QED
  BY <1>1, <1>2, <1>3, <1>4

---------------------------------------------------------------------------
(* The steps of the other threads *)

LEMMA ReqScheduler == ASSUME ReqInv, AnswerInv', SchedulerLoop PROVE ReqInv'
<1> USE DEF ReqInv, AnswerInv, ReqTypeOK, InHand, Polled, Known, Deployed, Named,
            UniqueTasks, callVars, mapVars, threadVars, testVars
<1>1. CASE Pop
  BY <1>1 DEF Pop
<1>2. CASE Lookup
  BY <1>2 DEF Lookup
<1>3. CASE CallFails
  BY <1>3 DEF CallFails, Answered
<1>4. CASE CallUnschedulable
  BY <1>4 DEF CallUnschedulable, CallRejected
<1>5. CASE CallSpawns
  BY <1>5 DEF CallSpawns, NameFree
<1>6. CASE ServeEnds
  BY <1>6 DEF ServeEnds
<1> QED
  BY <1>1, <1>2, <1>3, <1>4, <1>5, <1>6 DEF SchedulerLoop

LEMMA ReqOthers ==
  ASSUME ReqInv, AnswerInv',
         \/ \E c \in Calls : GuestEnds(c) \/ Answer(c)
         \/ TakeTest \/ TestEnds \/ \E a \in Answers : CallSync(a)
  PROVE  ReqInv'
<1> USE DEF ReqInv, AnswerInv, ReqTypeOK, InHand, Polled, Known, Deployed, Named,
            UniqueTasks, callVars, mapVars, threadVars, testVars
<1>1. ASSUME NEW c \in Calls, GuestEnds(c) PROVE ReqInv'
  BY <1>1 DEF GuestEnds, NoAnswer, Answered
<1>2. ASSUME NEW c \in Calls, Answer(c) PROVE ReqInv'
  BY <1>2 DEF Answer, Answering, SetResult, SetCompleted, Wake
<1>3. CASE TakeTest
  <2>1. testQueue \in Seq(Calls) /\ testQueue # <<>>
    BY <1>3 DEF TakeTest
  <2>2. testing' \in Calls /\ testQueue' \in Seq(Calls)
    BY <1>3, <2>1 DEF TakeTest
  <2> QED
    BY <1>3, <2>2 DEF TakeTest
<1>4. CASE TestEnds
  BY <1>4 DEF TestEnds
<1>5. ASSUME NEW a \in Answers, CallSync(a) PROVE ReqInv'
  BY <1>5 DEF CallSync, Answered
<1> QED
  BY <1>1, <1>2, <1>3, <1>4, <1>5

---------------------------------------------------------------------------
\* The inductive invariant: whoever waits, is served or lives has a deployed
\* name that no step takes away, and a task name nobody else can take.
THEOREM Serving == ReqSpec => []ReqInv
<1>1. ReqInit => ReqInv
  BY AnswerInit DEF ReqInit, Init, ReqInv, AnswerInv, ReqTypeOK, InHand, Polled, Known,
     Named, UniqueTasks
<1>2. ReqInv /\ [ReqNext]_reqVars => ReqInv'
  <2>1. CASE UNCHANGED reqVars
    BY <2>1 DEF ReqInv, AnswerInv, TypeOK, RoundsOK, StoredFirst, ReqTypeOK, InHand,
       Polled, Known, Deployed, Named, UniqueTasks, reqVars, callVars, mapVars,
       threadVars, testVars, answerVars
  <2>2. ASSUME ReqInv, ReqNext PROVE ReqInv'
    <3>1. AnswerInv'
      BY <2>2, CallStep, AnswerStep DEF ReqInv
    <3> QED
      BY <2>2, <3>1, ReqArrives, ReqHandler, ReqDeploy, ReqScheduler, ReqOthers
         DEF ReqNext
  <2> QED
    BY <2>1, <2>2
<1> QED
  BY <1>1, <1>2, PTL DEF ReqSpec

\* Every variable has its type.
THEOREM RequestTypes == ReqSpec => []ReqTypeOK
<1>1. ReqInv => ReqTypeOK
  BY DEF ReqInv
<1> QED
  BY <1>1, Serving, PTL

\* The name a handler has looked up is deployed still when it is used: no
\* request is dropped by the scheduler thread, and /test does not panic.
THEOREM NamesKept == ReqSpec => []NamesStay
<1>1. ReqInv => NamesStay
  BY DEF ReqInv, Known, Deployed, NamesStay
<1> QED
  BY <1>1, Serving, PTL

\* No two living coroutines have one task name.
THEOREM TasksUnique == ReqSpec => []UniqueTasks
<1>1. ReqInv => UniqueTasks
  BY DEF ReqInv, Named
<1> QED
  BY <1>1, Serving, PTL

\* The threads of Requests use each FuncResult by its rules: Requests implements
\* FuncResult, and what is proved of that holds of the calls here.
THEOREM AnswersByTheRules == ReqSpec => Spec
<1>1. ReqInit => Init
  BY DEF ReqInit
<1>2. ReqInv /\ [ReqNext]_reqVars => [Next]_vars
  BY CallStep DEF ReqInv, reqVars, callVars, vars, answerVars
<1> QED
  BY <1>1, <1>2, Serving, PTL DEF ReqSpec, Spec

\* No handler of Requests panics over the result of a call.
THEOREM CallsUnwrap == ReqSpec => []ReadyHasResult
  BY AnswersByTheRules, UnwrapSucceeds, PTL

---------------------------------------------------------------------------
(* Who is to answer a call *)

\* Membership in a queue, and a queue that has nobody twice.
In(q, c) == \E i \in 1 .. Len(q) : q[i] = c
Once(q) == \A i, j \in 1 .. Len(q) : q[i] = q[j] => i = j

LEMMA AppendIn ==
  ASSUME NEW q \in Seq(Calls), NEW c \in Calls
  PROVE  /\ \A d : In(Append(q, c), d) <=> In(q, d) \/ d = c
         /\ Once(q) /\ ~In(q, c) => Once(Append(q, c))
<1>1. Len(Append(q, c)) = Len(q) + 1 /\ Len(q) \in Nat
  OBVIOUS
<1>2. \A i \in 1 .. Len(q) + 1 : Append(q, c)[i] = IF i = Len(q) + 1 THEN c ELSE q[i]
  OBVIOUS
<1> QED
  BY <1>1, <1>2 DEF In, Once

LEMMA TailIn ==
  ASSUME NEW q \in Seq(Calls), q # <<>>, Once(q)
  PROVE  /\ Head(q) \in Calls /\ In(q, Head(q)) /\ Tail(q) \in Seq(Calls)
         /\ \A d : In(Tail(q), d) <=> In(q, d) /\ d # Head(q)
         /\ Once(Tail(q))
<1>1. Len(Tail(q)) = Len(q) - 1 /\ Len(q) \in Nat \ {0} /\ Head(q) = q[1]
  OBVIOUS
<1>2. \A i \in 1 .. Len(q) - 1 : Tail(q)[i] = q[i + 1]
  OBVIOUS
<1>3. Once(Tail(q))
  BY <1>1, <1>2 DEF Once
<1>4. ASSUME NEW d, In(Tail(q), d) PROVE In(q, d) /\ d # Head(q)
  <2>1. PICK i \in 1 .. Len(q) - 1 : q[i + 1] = d
    BY <1>1, <1>2, <1>4 DEF In
  <2> QED
    BY <1>1, <2>1 DEF In, Once
<1>5. ASSUME NEW d, In(q, d), d # Head(q) PROVE In(Tail(q), d)
  <2>1. PICK i \in 1 .. Len(q) : q[i] = d
    BY <1>5 DEF In
  <2>2. i - 1 \in 1 .. Len(q) - 1 /\ Tail(q)[i - 1] = d
    BY <1>1, <1>2, <1>5, <2>1
  <2> QED
    BY <1>1, <2>2 DEF In
<1>6. In(q, Head(q)) /\ Head(q) \in Calls /\ Tail(q) \in Seq(Calls)
  BY <1>1 DEF In
<1> QED
  BY <1>3, <1>4, <1>5, <1>6

---------------------------------------------------------------------------
\* Where a call that is to be answered may be.
Zones == {"queue", "tests", "serving", "testing", "workers"}
Zone(c, k) ==
    \/ k = "queue" /\ In(requestQueue, c)
    \/ k = "tests" /\ In(testQueue, c)
    \/ k = "serving" /\ serving = c
    \/ k = "testing" /\ testing = c
    \/ k = "workers" /\ c \in live
Claimed(c) == hpc[c] \notin {"idle", "refused", "testLock"}

\* A call is in one zone, and in a queue once ...
OneZone == \A c \in Calls : \A k, l \in Zones : Zone(c, k) /\ Zone(c, l) => k = l
QueuesOnce == Once(requestQueue) /\ Once(testQueue)

\* ... none before a handler has accepted it, one from then on until the answer
\* begins ...
ZoneIfClaimed ==
    \A c \in Calls :
        /\ ~Claimed(c) => \A k \in Zones : ~Zone(c, k)
        /\ Claimed(c) /\ apc[c] = "working" => \E k \in Zones : Zone(c, k)

\* ... which is given by the thread that has the call, the last it does with it.
NotYet ==
    /\ \A c \in Calls : ~Claimed(c) => apc[c] = "working"
    /\ \A c \in Calls : Zone(c, "queue") \/ Zone(c, "tests") \/ Zone(c, "workers")
                            => apc[c] = "working"
    /\ sched \in {"lookup", "call"} => apc[serving] = "working"
    /\ sched = "idle" => serving = NoCall

HoldInv == OneZone /\ QueuesOnce /\ ZoneIfClaimed /\ NotYet

---------------------------------------------------------------------------
LEMMA HoldArrives ==
  ASSUME ReqInv, HoldInv, NEW c \in Calls, NEW n \in WasmNames,
         \/ Refuse(c, n) \/ NamedArrives(c, n) \/ TestArrives(c, n)
         \/ \E t \in TaskNames \union {Anon} : CallArrives(c, n, t) \/ CallOverflows(c, n, t)
  PROVE  HoldInv'
<1> USE DEF HoldInv, OneZone, QueuesOnce, ZoneIfClaimed, NotYet, Zones, Zone, Claimed,
            Arrives, callVars, mapVars, threadVars, testVars, answerVars
<1>0. hpc \in [Calls -> {"idle", "refused", "begin", "await", "testLock", "timeLock",
                          "done", "panicked"}]
      /\ NoCall \notin Calls /\ requestQueue \in Seq(Calls)
      /\ apc \in [Calls -> {"working", "result", "complete", "wake", "gone"}]
  BY DEF ReqInv, ReqTypeOK, TypeOK
<1>1. CASE Refuse(c, n) \/ TestArrives(c, n)
  BY <1>0, <1>1 DEF Refuse, TestArrives
<1>2. CASE NamedArrives(c, n)
  <2> USE <1>0, <1>2 DEF NamedArrives
  <2>1. OneZone'
    OBVIOUS
  <2>2. QueuesOnce'
    OBVIOUS
  <2>3. ZoneIfClaimed'
    OBVIOUS
  <2>4. NotYet'
    OBVIOUS
  <2> QED
    BY <2>1, <2>2, <2>3, <2>4
<1>3. ASSUME NEW t \in TaskNames \union {Anon}, CallArrives(c, n, t) PROVE HoldInv'
  <2>1. \A d : In(requestQueue', d) <=> In(requestQueue, d) \/ d = c
    BY <1>0, <1>3, AppendIn DEF CallArrives
  <2>2. Once(requestQueue')
    BY <1>0, <1>3, AppendIn DEF CallArrives
  <2> QED
    BY <1>0, <1>3, <2>1, <2>2 DEF CallArrives
<1>4. ASSUME NEW t \in TaskNames \union {Anon}, CallOverflows(c, n, t) PROVE HoldInv'
  BY <1>0, <1>4 DEF CallOverflows, NoAnswer
<1> QED
  BY <1>1, <1>2, <1>3, <1>4

LEMMA HoldHandler ==
  ASSUME ReqInv, HoldInv, NEW c \in Calls,
         \/ SetTestEnv(c) \/ SetTestTime(c)
         \/ PollResult(c) \/ Awaiting(c) \/ Return(c) \/ Drop(c)
  PROVE  HoldInv'
<1> USE DEF HoldInv, OneZone, QueuesOnce, ZoneIfClaimed, NotYet, Zones, Zone, Claimed,
            callVars, mapVars, threadVars, testVars, answerVars
<1>0. hpc \in [Calls -> {"idle", "refused", "begin", "await", "testLock", "timeLock",
                          "done", "panicked"}]
      /\ NoCall \notin Calls /\ testQueue \in Seq(Calls)
      /\ apc \in [Calls -> {"working", "result", "complete", "wake", "gone"}]
  BY DEF ReqInv, ReqTypeOK, TypeOK
<1>1. CASE SetTestEnv(c) /\ wasm[c] \in registered
  <2>1. testQueue' = Append(testQueue, c) /\ hpc' = [hpc EXCEPT ![c] = "begin"]
    BY <1>1 DEF SetTestEnv
  <2>2. ~In(testQueue, c) /\ apc[c] = "working" => Once(testQueue')
    BY <1>0, <2>1, AppendIn
  <2>3. \A d : In(testQueue', d) <=> In(testQueue, d) \/ d = c
    BY <1>0, <2>1, AppendIn
  <2> QED
    BY <1>0, <1>1, <2>1, <2>2, <2>3 DEF SetTestEnv
<1>2. CASE SetTestEnv(c) /\ wasm[c] \notin registered
  BY <1>0, <1>2 DEF SetTestEnv
<1>3. CASE SetTestTime(c)
  BY <1>0, <1>3 DEF SetTestTime
<1>4. CASE PollResult(c)
  BY <1>0, <1>4 DEF PollResult, Executor, Poll
<1>5. CASE Awaiting(c)
  BY <1>0, <1>5 DEF Awaiting, Check, Register
<1>6. CASE Return(c)
  BY <1>0, <1>6 DEF Return, Deliver, ReqInv, Polled
<1>7. CASE Drop(c)
  BY <1>0, <1>7 DEF Drop, Disconnect
<1> QED
  BY <1>1, <1>2, <1>3, <1>4, <1>5, <1>6, <1>7

LEMMA HoldDeploy ==
  ASSUME HoldInv,
         \/ \E n \in WasmNames : RegisterChecks(n) \/ RegisterResumes(n) \/ InitChecks(n)
         \/ Install
  PROVE  HoldInv'
  BY DEF RegisterChecks, RegisterResumes, InitChecks, Install, HoldInv, OneZone,
     QueuesOnce, ZoneIfClaimed, NotYet, Zones, Zone, Claimed, callVars, threadVars,
     testVars, answerVars

LEMMA HoldScheduler == ASSUME ReqInv, HoldInv, SchedulerLoop PROVE HoldInv'
<1> USE DEF HoldInv, OneZone, QueuesOnce, ZoneIfClaimed, NotYet, Zones, Zone, Claimed,
            callVars, mapVars, threadVars, testVars, answerVars
<1>0. /\ NoCall \notin Calls /\ requestQueue \in Seq(Calls)
      /\ apc \in [Calls -> {"working", "result", "complete", "wake", "gone"}]
      /\ sched # "idle" => serving \in Calls
  BY DEF ReqInv, ReqTypeOK, TypeOK, InHand
<1>1. CASE Pop
  <2>1. /\ serving' \in Calls /\ In(requestQueue, serving')
        /\ \A d : In(requestQueue', d) <=> In(requestQueue, d) /\ d # serving'
        /\ Once(requestQueue')
    BY <1>0, <1>1, TailIn DEF Pop
  <2> QED
    BY <1>0, <1>1, <2>1 DEF Pop
<1>2. CASE Lookup
  BY <1>0, <1>2 DEF Lookup, NoAnswer
<1>3. CASE CallFails
  BY <1>0, <1>3 DEF CallFails, Answered
<1>4. CASE CallUnschedulable
  BY <1>0, <1>4 DEF CallUnschedulable, CallRejected
<1>5. CASE CallSpawns
  <2> USE <1>0, <1>5 DEF CallSpawns
  <2>1. OneZone'
    OBVIOUS
  <2>2. QueuesOnce'
    OBVIOUS
  <2>3. ZoneIfClaimed'
    OBVIOUS
  <2>4. NotYet'
    OBVIOUS
  <2> QED
    BY <2>1, <2>2, <2>3, <2>4
<1>6. CASE ServeEnds
  BY <1>0, <1>6 DEF ServeEnds
<1> QED
  BY <1>1, <1>2, <1>3, <1>4, <1>5, <1>6 DEF SchedulerLoop

LEMMA HoldOthers ==
  ASSUME ReqInv, HoldInv,
         \/ \E c \in Calls : GuestEnds(c) \/ Answer(c)
         \/ TakeTest \/ TestEnds \/ \E a \in Answers : CallSync(a)
  PROVE  HoldInv'
<1> USE DEF HoldInv, OneZone, QueuesOnce, ZoneIfClaimed, NotYet, Zones, Zone, Claimed,
            callVars, mapVars, threadVars, testVars, answerVars
<1>0. /\ NoCall \notin Calls /\ testQueue \in Seq(Calls) /\ testing \in Calls \union {NoCall}
      /\ apc \in [Calls -> {"working", "result", "complete", "wake", "gone"}]
      /\ sched # "idle" => serving \in Calls
  BY DEF ReqInv, ReqTypeOK, TypeOK, InHand
<1>1. ASSUME NEW c \in Calls, GuestEnds(c) PROVE HoldInv'
  BY <1>0, <1>1 DEF GuestEnds, NoAnswer, Answered
<1>2. ASSUME NEW c \in Calls, Answer(c) PROVE HoldInv'
  <2>1. apc' = [apc EXCEPT ![c] = apc'[c]] /\ apc[c] # "working" /\ apc'[c] # "working"
    BY <1>0, <1>2 DEF Answer, Answering, SetResult, SetCompleted, Wake
  <2>2. UNCHANGED <<requestQueue, testQueue, serving, testing, live, sched, hpc>>
    BY <1>2 DEF Answer
  <2> QED
    BY <1>0, <2>1, <2>2
<1>3. CASE TakeTest
  <2>1. /\ testing' \in Calls /\ In(testQueue, testing')
        /\ \A d : In(testQueue', d) <=> In(testQueue, d) /\ d # testing'
        /\ Once(testQueue')
    BY <1>0, <1>3, TailIn DEF TakeTest
  <2> QED
    BY <1>0, <1>3, <2>1 DEF TakeTest
<1>4. CASE TestEnds
  BY <1>0, <1>4 DEF TestEnds
<1>5. ASSUME NEW a \in Answers, CallSync(a) PROVE HoldInv'
  BY <1>0, <1>5 DEF CallSync, Answered
<1> QED
  BY <1>1, <1>2, <1>3, <1>4, <1>5

---------------------------------------------------------------------------
\* The inductive invariant: a call goes from zone to zone until the thread that
\* has it answers.
THEOREM Holding == ReqSpec => []HoldInv
<1>1. ReqInit => HoldInv
  BY DEF ReqInit, Init, HoldInv, OneZone, QueuesOnce, ZoneIfClaimed, NotYet, Zones, Zone,
     Claimed, In, Once
<1>2. ReqInv /\ HoldInv /\ [ReqNext]_reqVars => HoldInv'
  <2>1. HoldInv /\ UNCHANGED reqVars => HoldInv'
    BY DEF HoldInv, OneZone, QueuesOnce, ZoneIfClaimed, NotYet, Zones, Zone, Claimed,
       reqVars, callVars, mapVars, threadVars, testVars, answerVars
  <2> QED
    BY <2>1, HoldArrives, HoldHandler, HoldDeploy, HoldScheduler, HoldOthers DEF ReqNext
<1> QED
  BY <1>1, <1>2, Serving, PTL DEF ReqSpec

\* The set OneAnswerer counts has the one element the zone says, or none.
LEMMA HoldersOfZone ==
  ASSUME ReqInv, HoldInv, NEW c \in Calls
  PROVE  /\ (\A k \in Zones : ~Zone(c, k)) => Holders(c) = {}
         /\ (\E k \in Zones : Zone(c, k)) => \E h : Holders(c) = {h}
<1> USE DEF HoldInv, OneZone, QueuesOnce, Zones, Zone
<1>0. DOMAIN requestQueue = 1 .. Len(requestQueue) /\ DOMAIN testQueue = 1 .. Len(testQueue)
  BY DEF ReqInv, ReqTypeOK
<1>1. (\A k \in Zones : ~Zone(c, k)) => Holders(c) = {}
  BY <1>0 DEF Holders, In
<1>2. CASE Zone(c, "queue")
  <2>1. PICK i \in 1 .. Len(requestQueue) : requestQueue[i] = c
    BY <1>2 DEF In
  <2>2. ~In(testQueue, c) /\ serving # c /\ testing # c /\ c \notin live
    BY <1>2
  <2>3. Holders(c) = {<<"queue", i>>}
    BY <1>0, <2>1, <2>2 DEF Holders, In, Once
  <2> QED
    BY <2>3, <1>2
<1>3. CASE Zone(c, "tests")
  <2>1. PICK i \in 1 .. Len(testQueue) : testQueue[i] = c
    BY <1>3 DEF In
  <2>2. ~In(requestQueue, c) /\ serving # c /\ testing # c /\ c \notin live
    BY <1>3
  <2>3. Holders(c) = {<<"tests", i>>}
    BY <1>0, <2>1, <2>2 DEF Holders, In, Once
  <2> QED
    BY <2>3, <1>3
<1>4. CASE Zone(c, "serving") \/ Zone(c, "testing")
  <2>1. ~In(requestQueue, c) /\ ~In(testQueue, c) /\ c \notin live
    BY <1>4
  <2>2. Holders(c) = {<<"thread", c>>}
    BY <1>0, <1>4, <2>1 DEF Holders, In
  <2> QED
    BY <2>2, <1>4
<1>5. CASE Zone(c, "workers")
  <2>1. ~In(requestQueue, c) /\ ~In(testQueue, c) /\ serving # c /\ testing # c
    BY <1>5
  <2>2. Holders(c) = {<<"workers", c>>}
    BY <1>0, <1>5, <2>1 DEF Holders, In
  <2> QED
    BY <2>2, <1>5
<1> QED
  BY <1>1, <1>2, <1>3, <1>4, <1>5

\* Every call a handler has accepted has exactly one thread or queue that will
\* answer it, until the answer begins; one that was refused has none.
THEOREM AnsweredByOne == ReqSpec => []OneAnswerer
<1>1. ReqInv /\ HoldInv => OneAnswerer
  <2> SUFFICES ASSUME ReqInv, HoldInv, NEW c \in Calls, apc[c] = "working"
               PROVE  Cardinality(Holders(c)) =
                          IF hpc[c] \in {"idle", "refused", "testLock"} THEN 0 ELSE 1
    BY DEF OneAnswerer
  <2>1. CASE Claimed(c)
    <3>1. PICK h : Holders(c) = {h}
      BY <2>1, HoldersOfZone DEF HoldInv, ZoneIfClaimed
    <3>2. Cardinality(Holders(c)) = 1
      BY <3>1, FS_Singleton
    <3> QED
      BY <2>1, <3>2 DEF Claimed
  <2>2. CASE ~Claimed(c)
    <3>1. Cardinality(Holders(c)) = 0
      BY <2>2, HoldersOfZone, FS_EmptySet DEF HoldInv, ZoneIfClaimed
    <3> QED
      BY <2>2, <3>1 DEF Claimed
  <2> QED
    BY <2>1, <2>2
<1> QED
  BY <1>1, Serving, Holding, PTL
=============================================================================
