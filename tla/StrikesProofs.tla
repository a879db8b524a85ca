----------------------------- MODULE StrikesProofs -----------------------------
(***************************************************************************)
(* Signals strike anywhere; what the workers keep that have not been       *)
(* struck, and what is lost only to the ones that have, for every number   *)
(* of workers, tasks and deadlines.                                        *)
(***************************************************************************)
EXTENDS Strikes, LifecycleProofs, FiniteSetTheorems

USE SchedAssumption

\* What has a deadline: the request in hand from admission to the hand-over,
\* and all that goes through slots and real-time queues; what has none: the
\* global queue, and the ids not handed out.
Timed ==
    /\ \/ spc \in {"admit", "judge", "note", "slot", "signal"}
       \/ spc \in {"instantiate", "spawn"} /\ verdict # "NOTREALTIME"
       => IsRealtime(job)
    /\ \A w \in Workers :
        /\ slot[w] # None => IsRealtime(slot[w])
        /\ \A c \in rtq[w] \union rt[w] : IsRealtime(c)
Untimed ==
    /\ \A c \in ToSet(gq) : ~IsRealtime(c)
    /\ \A c \in Ids : c >= nextId => ~IsRealtime(c)

\* A real-time coroutine goes to the worker admission placed it on.
Reach(w) == rtq[w] \union {slot[w]} \union Owned(w)
AtHome == \A w \in Workers : \A c \in Reach(w) : IsRealtime(c) => Home(c) = w

\* A coroutine waits in curr only until the loop comes to it.
Control(w) ==
    /\ pc[w] # "corrupt"
    /\ curr[w] # None => Point(w) \in {"picked", "returned", "cleanup"}
    /\ Point(w) \in {"mark", "enter", "entered", "body"} => st[hold[w]] = "RUNNING"
    /\ Point(w) = "returned" => st[hold[w]] \in {"SUSPENDED", "COMPLETED"}

\* The coroutine in run_co's hands; one that suspend has queued again is not.
Requeued(w) == Point(w) = "returned" /\ st[hold[w]] = "SUSPENDED"
Hand(w) == IF Requeued(w) THEN None ELSE hold[w]

\* A worker's coroutines, each in one of its places only.
Queued(w) == ToSet(newq[w]) \union ToSet(suspq[w]) \union rt[w]
Spots(w) == Queued(w) \union ({curr[w], Hand(w)} \ {None})
QueuesApart(w) ==
    /\ IsInjective(newq[w]) /\ IsInjective(suspq[w])
    /\ ToSet(newq[w]) \intersect ToSet(suspq[w]) = {}
    /\ rt[w] \intersect (ToSet(newq[w]) \union ToSet(suspq[w])) = {}
Separate(w) ==
    /\ QueuesApart(w)
    /\ curr[w] \notin Queued(w) /\ Hand(w) \notin Queued(w)
    /\ curr[w] # None => curr[w] # Hand(w)
    /\ Requeued(w) => hold[w] \in Queued(w)

One(c) == IF c = None THEN 0 ELSE 1
Waiting(w) == Len(newq[w]) + Len(suspq[w]) + Cardinality(rt[w])
Counted(w) == len[w] = Waiting(w) + One(curr[w]) + One(Hand(w))

\* What has been chosen is real-time, or no real-time coroutine was waiting;
\* a handler in progress may have fetched one.
Yields(w) ==
    /\ pc[w] \notin HandlerPoints /\ curr[w] # None /\ ~IsRealtime(curr[w]) => rt[w] = {}
    /\ pc[w] \in {"resume", "mark", "enter", "entered", "body"} /\ ~IsRealtime(hold[w])
        => rt[w] = {}

\* What a worker keeps until it is struck.
SafeOK(w) == Control(w) /\ Separate(w) /\ Counted(w) /\ Yields(w)

\* A coroutine that exists is in a sound place until it is freed or dropped,
\* unless it may be lost to a struck worker.
Somewhere(c) ==
    \/ spc = "slot" /\ job = c
    \/ c \in ToSet(gq)
    \/ \E w \in Workers : c \in rtq[w] \/ slot[w] = c
    \/ \E w \in Sound : c \in Spots(w)
Found == \A c \in Ids : ~Gone(c) => Somewhere(c) \/ MayBeLost(c)
FreedOut == \A c \in completed : ~Somewhere(c)

\* The holder of the latency mutex exists.
HolderMade == latency # None => st[latency] # "NONE"

SoundInv ==
    /\ struck \subseteq Workers
    /\ \A w \in Sound : SafeOK(w)
    /\ Timed /\ Untimed /\ AtHome /\ Found /\ FreedOut
    /\ HolderMade /\ LatencyHolderRuns
---------------------------------------------------------------------------
(* Sequences and sets *)

LEMMA TakeFirst ==
  ASSUME NEW S, NEW s \in Seq(S), s # <<>>, IsInjective(s)
  PROVE  /\ Head(s) \in S /\ Head(s) \in ToSet(s) /\ Tail(s) \in Seq(S)
         /\ ToSet(Tail(s)) = ToSet(s) \ {Head(s)}
         /\ IsInjective(Tail(s)) /\ Len(s) = Len(Tail(s)) + 1
<1>1. Head(s) \in S /\ Tail(s) \in Seq(S) /\ Len(s) = Len(Tail(s)) + 1
  OBVIOUS
<1>2. /\ Head(s) \in ToSet(s) /\ Head(s) \notin ToSet(Tail(s)) /\ IsInjective(Tail(s))
      /\ ToSet(Tail(s)) \subseteq ToSet(s)
  BY TailRange
<1>3. ASSUME NEW x \in ToSet(s), x # Head(s) PROVE x \in ToSet(Tail(s))
  <2>1. PICK i \in DOMAIN s : x = s[i]
    BY <1>3 DEF ToSet
  <2>2. i # 1
    BY <1>3, <2>1
  <2>3. i - 1 \in DOMAIN Tail(s) /\ Tail(s)[i - 1] = x
    BY <2>1, <2>2
  <2> QED
    BY <2>3 DEF ToSet
<1> QED
  BY <1>1, <1>2, <1>3

LEMMA PutLast ==
  ASSUME NEW S, NEW s \in Seq(S), NEW x \in S, x \notin ToSet(s), IsInjective(s)
  PROVE  /\ Append(s, x) \in Seq(S) /\ ToSet(Append(s, x)) = ToSet(s) \union {x}
         /\ IsInjective(Append(s, x)) /\ Len(Append(s, x)) = Len(s) + 1
  BY AppendRange

LEMMA ConcatOne ==
  ASSUME NEW S, NEW s \in Seq(S), NEW x \in S
  PROVE  s \o <<x>> = Append(s, x) /\ s \o <<>> = s
  OBVIOUS

LEMMA Countable ==
  ASSUME NEW S \in SUBSET Ids PROVE IsFiniteSet(S) /\ Cardinality(S) \in Nat
<1>1. IsFiniteSet(Ids)
  BY FS_Interval DEF Ids
<1> QED
  BY <1>1, FS_Subset, FS_CardinalityType

\* Appending what set_curr's caller gives, nothing or one coroutine.
LEMMA AppendTail ==
  ASSUME NEW s \in Seq(Ids), IsInjective(s), NEW tail,
         tail = <<>> \/ \E x \in Ids : tail = <<x>> /\ x \notin ToSet(s)
  PROVE  /\ s \o tail \in Seq(Ids) /\ ToSet(s \o tail) = ToSet(s) \union ToSet(tail)
         /\ IsInjective(s \o tail) /\ Len(s \o tail) = Len(s) + Len(tail)
<1>1. CASE tail = <<>>
  BY <1>1, EmptyRange, ConcatOne
<1>2. ASSUME NEW x \in Ids, tail = <<x>>, x \notin ToSet(s)
      PROVE  /\ s \o tail \in Seq(Ids) /\ ToSet(s \o tail) = ToSet(s) \union ToSet(tail)
             /\ IsInjective(s \o tail) /\ Len(s \o tail) = Len(s) + Len(tail)
  <2> USE <1>2
  <2>1. Len(tail) = 1 /\ ToSet(tail) = {x} /\ s \o tail = Append(s, x)
    BY SingleRange, ConcatOne
  <2>2. /\ Append(s, x) \in Seq(Ids) /\ ToSet(Append(s, x)) = ToSet(s) \union {x}
        /\ IsInjective(Append(s, x)) /\ Len(Append(s, x)) = Len(s) + 1
    BY PutLast
  <2> HIDE <1>2
  <2> QED
    BY <2>1, <2>2
<1> QED
  BY <1>1, <1>2

---------------------------------------------------------------------------
(* set_curr *)

\* It moves one coroutine from a queue to curr if there is one, and appends
\* the tail.
LEMMA SetCurrMoves ==
  ASSUME TypeOK, NEW w \in Workers, NEW tail, SetCurr(w, tail),
         tail = <<>> \/ \E x \in Ids : tail = <<x>> /\ x \notin Queued(w),
         curr[w] = None, QueuesApart(w)
  PROVE  /\ QueuesApart(w)'
         /\ curr'[w] \notin Queued(w)' /\ (curr'[w] = None \/ curr'[w] \in Queued(w))
         /\ Queued(w)' \union ({curr'[w]} \ {None}) = Queued(w) \union ToSet(tail)
         /\ Waiting(w)' + One(curr'[w]) = Waiting(w) + Len(tail)
         /\ rt'[w] = {} \/ curr'[w] \in rt[w]
<1> DEFINE N == newq[w]
           S == suspq[w]
           R == rt[w]
<1>1. N \in Seq(Ids) /\ S \in Seq(Ids) /\ R \subseteq Ids /\ IsInjective(N) /\ IsInjective(S)
  BY DEF TypeOK, QueuesApart
<1>2. /\ ToSet(N) \subseteq Ids /\ ToSet(S) \subseteq Ids /\ None \notin Ids
      /\ Queued(w) = ToSet(N) \union ToSet(S) \union R
      /\ ToSet(N) \intersect ToSet(S) = {} /\ R \intersect (ToSet(N) \union ToSet(S)) = {}
  <2>1. ToSet(N) \subseteq Ids /\ ToSet(S) \subseteq Ids
    BY <1>1 DEF ToSet
  <2> QED
    BY <2>1 DEF Queued, QueuesApart, None, Ids
<1>3. ToSet(tail) \intersect Queued(w) = {} /\ tail \in Seq(Ids) /\ Len(tail) \in Nat
      /\ ToSet(tail) \subseteq Ids
  <2>1. CASE tail = <<>>
    BY <2>1, EmptyRange
  <2>2. ASSUME NEW x \in Ids, tail = <<x>>, x \notin Queued(w)
        PROVE  /\ ToSet(tail) \intersect Queued(w) = {} /\ tail \in Seq(Ids)
               /\ Len(tail) \in Nat /\ ToSet(tail) \subseteq Ids
    <3>1. ToSet(tail) = {x}
      BY <2>2, SingleRange
    <3> QED
      BY <2>2, <3>1
  <2> QED
    BY <2>1, <2>2
<1>4. /\ S \o tail \in Seq(Ids) /\ ToSet(S \o tail) = ToSet(S) \union ToSet(tail)
      /\ IsInjective(S \o tail) /\ Len(S \o tail) = Len(S) + Len(tail)
  BY <1>1, <1>2, AppendTail
<1>5. Cardinality(R) \in Nat /\ IsFiniteSet(R) /\ Len(N) \in Nat /\ Len(S) \in Nat
  BY <1>1, Countable
<1>6. CASE ChooseRealtime(w, tail)
  <2>1. PICK c \in R : curr' = [curr EXCEPT ![w] = c] /\ rt' = [rt EXCEPT ![w] = @ \ {c}]
    BY <1>6, EarliestInside DEF ChooseRealtime
  <2>2. curr'[w] = c /\ rt'[w] = R \ {c} /\ suspq'[w] = S \o tail /\ newq'[w] = N
    BY <1>6, <2>1 DEF ChooseRealtime, TypeOK
  <2>3. c \in Ids /\ Cardinality(R) = Cardinality(R \ {c}) + 1 /\ Cardinality(R \ {c}) \in Nat
    <3>1. c \in Ids /\ c \in R /\ R \ {c} \subseteq Ids
      BY <1>1, <2>1
    <3>2. Cardinality(R \ {c}) \in Nat
      BY <3>1, Countable
    <3> HIDE DEF R
    <3>3. Cardinality(R \ {c}) = Cardinality(R) - 1
      BY <1>5, <3>1, FS_RemoveElement
    <3> QED
      BY <1>5, <3>1, <3>2, <3>3
  <2> HIDE DEF N, S, R
  <2>4. Queued(w)' = ToSet(N) \union ToSet(S) \union ToSet(tail) \union (R \ {c})
    BY <1>4, <2>2 DEF Queued
  <2>5. Waiting(w)' + One(curr'[w]) = Waiting(w) + Len(tail)
    <3>1. Waiting(w)' = Len(N) + (Len(S) + Len(tail)) + Cardinality(R \ {c})
      BY <1>4, <2>2 DEF Waiting
    <3>2. Waiting(w) = Len(N) + Len(S) + Cardinality(R)
      BY DEF Waiting, N, S, R
    <3>3. One(curr'[w]) = 1
      BY <2>2, <2>3 DEF One, None, Ids
    <3> QED
      BY <1>3, <1>5, <2>3, <3>1, <3>2, <3>3
  <2>6. QueuesApart(w)'
    BY <1>1, <1>2, <1>3, <1>4, <2>2 DEF QueuesApart
  <2>7. curr'[w] \notin Queued(w)'
    BY <1>2, <1>3, <2>1, <2>2, <2>4
  <2> QED
    BY <1>2, <2>1, <2>2, <2>3, <2>4, <2>5, <2>6, <2>7 DEF R
<1>7. CASE ChooseNew(w, tail)
  <2>1. /\ R = {} /\ N # <<>> /\ curr'[w] = Head(N) /\ newq'[w] = Tail(N)
        /\ suspq'[w] = S \o tail /\ rt'[w] = R
    BY <1>7 DEF ChooseNew, TypeOK
  <2>2. PICK c \in ToSet(N) : c = Head(N)
    BY <1>1, <2>1, TakeFirst
  <2>3. /\ ToSet(Tail(N)) = ToSet(N) \ {c} /\ IsInjective(Tail(N)) /\ Len(N) = Len(Tail(N)) + 1
        /\ Len(Tail(N)) \in Nat
    BY <1>1, <2>1, <2>2, TakeFirst
  <2> HIDE DEF N, S, R
  <2>4. Queued(w)' = (ToSet(N) \ {c}) \union ToSet(S) \union ToSet(tail) \union R
    BY <1>4, <2>1, <2>3 DEF Queued
  <2>5. Waiting(w)' + One(curr'[w]) = Waiting(w) + Len(tail)
    <3>1. Waiting(w)' = Len(Tail(N)) + (Len(S) + Len(tail)) + Cardinality(R)
      BY <1>4, <2>1 DEF Waiting
    <3>2. Waiting(w) = Len(N) + Len(S) + Cardinality(R)
      BY DEF Waiting, N, S, R
    <3>3. One(curr'[w]) = 1
      <4>1. curr'[w] = c /\ c # None
        BY <1>2, <2>1, <2>2
      <4> QED
        BY <4>1 DEF One
    <3>4. /\ {Len(N), Len(Tail(N)), Len(S), Len(tail), Cardinality(R)} \subseteq Nat
          /\ Len(N) = Len(Tail(N)) + 1
      BY <1>3, <1>5, <2>3
    <3>5. PICK k \in Nat : k = Len(Tail(N))
      BY <3>4
    <3>6. Waiting(w)' + One(curr'[w]) = (k + (Len(S) + Len(tail)) + Cardinality(R)) + 1
      BY <3>1, <3>3, <3>5
    <3>7. Waiting(w) + Len(tail) = (k + 1 + Len(S) + Cardinality(R)) + Len(tail)
      BY <3>2, <3>4, <3>5
    <3> QED
      BY <3>4, <3>6, <3>7
  <2>6. QueuesApart(w)'
    BY <1>1, <1>2, <1>3, <1>4, <2>1, <2>3 DEF QueuesApart
  <2>7. curr'[w] \notin Queued(w)'
    BY <1>2, <1>3, <2>1, <2>2, <2>4
  <2> QED
    BY <1>2, <2>1, <2>2, <2>4, <2>5, <2>6, <2>7
<1>8. CASE ChooseSuspended(w, tail)
  <2>1. /\ R = {} /\ N = <<>> /\ S # <<>> /\ curr'[w] = Head(S) /\ newq'[w] = N
        /\ suspq'[w] = Tail(S) \o tail /\ rt'[w] = R
    BY <1>8 DEF ChooseSuspended, TypeOK
  <2>2. PICK c \in ToSet(S) : c = Head(S)
    BY <1>1, <2>1, TakeFirst
  <2>3. /\ ToSet(Tail(S)) = ToSet(S) \ {c} /\ IsInjective(Tail(S)) /\ Len(S) = Len(Tail(S)) + 1
        /\ Len(Tail(S)) \in Nat /\ Tail(S) \in Seq(Ids)
    BY <1>1, <2>1, <2>2, TakeFirst
  <2>a. tail = <<>> \/ \E x \in Ids : tail = <<x>> /\ x \notin ToSet(Tail(S))
    BY <1>2, <2>3
  <2>b. /\ ToSet(Tail(S) \o tail) = ToSet(Tail(S)) \union ToSet(tail)
        /\ IsInjective(Tail(S) \o tail) /\ Len(Tail(S) \o tail) = Len(Tail(S)) + Len(tail)
    BY <2>3, <2>a, AppendTail
  <2> HIDE DEF N, S, R
  <2>4. Queued(w)' = ToSet(N) \union (ToSet(S) \ {c}) \union ToSet(tail) \union R
    BY <2>b, <2>1, <2>3 DEF Queued
  <2>5. Waiting(w)' + One(curr'[w]) = Waiting(w) + Len(tail)
    <3>1. Waiting(w)' = Len(N) + (Len(Tail(S)) + Len(tail)) + Cardinality(R)
      BY <2>b, <2>1 DEF Waiting
    <3>2. Waiting(w) = Len(N) + Len(S) + Cardinality(R)
      BY DEF Waiting, N, S, R
    <3>3. One(curr'[w]) = 1
      <4>1. curr'[w] = c /\ c # None
        BY <1>2, <2>1, <2>2
      <4> QED
        BY <4>1 DEF One
    <3> QED
      BY <1>3, <1>5, <2>3, <3>1, <3>2, <3>3
  <2>6. QueuesApart(w)'
    BY <1>1, <1>2, <1>3, <2>b, <2>1, <2>3 DEF QueuesApart
  <2>7. curr'[w] \notin Queued(w)'
    BY <1>2, <1>3, <2>1, <2>2, <2>4
  <2> QED
    BY <1>2, <2>1, <2>2, <2>4, <2>5, <2>6, <2>7
<1>9. CASE ChooseNothing(w, tail)
  <2>1. /\ R = {} /\ N = <<>> /\ S = <<>> /\ curr'[w] = None /\ newq'[w] = N
        /\ suspq'[w] = tail /\ rt'[w] = R
    BY <1>9 DEF ChooseNothing, TypeOK
  <2>2. ToSet(S) = {} /\ S \o tail = tail
    BY <1>3, <2>1, EmptyRange
  <2>3. IsInjective(tail) /\ Len(S) = 0
    BY <1>4, <2>1, <2>2
  <2> HIDE DEF N, S, R
  <2>4. Queued(w)' = ToSet(N) \union ToSet(tail) \union R
    BY <2>1 DEF Queued
  <2>5. Waiting(w)' + One(curr'[w]) = Waiting(w) + Len(tail)
    BY <1>3, <1>5, <2>1, <2>3 DEF Waiting, One, N, S, R
  <2>6. QueuesApart(w)'
    BY <1>1, <1>2, <1>3, <2>1, <2>3 DEF QueuesApart
  <2> QED
    BY <1>2, <1>3, <2>1, <2>2, <2>4, <2>5, <2>6
<1> QED
  BY <1>6, <1>7, <1>8, <1>9 DEF SetCurr

---------------------------------------------------------------------------
(* A worker's step, seen from itself *)

\* What its own steps need of a worker that is not struck.
Fit(w) ==
    /\ AllInv /\ Timed /\ SafeOK(w)
    /\ Spots(w) \intersect completed = {}

\* The worker's steps that move no coroutine.
QuietStep(w) ==
    \/ Boot(w) \/ LoopGet(w) \/ FetchRealtimeEnds(w) \/ FetchGlobalEnds(w)
    \/ Resume(w) \/ Mark(w) \/ Enter(w) \/ Swap(w)
    \/ Finish(w) \/ LockStats(w) \/ Restore(w) \/ Leave(w)
    \/ Alrm(w) \/ AlrmReturns(w) \/ UrgIgnored(w)

QuietEffect(w) ==
    /\ UNCHANGED <<newq, suspq, rt, curr, len, gq, rtq, slot, completed>>
    /\ Hand(w)' = Hand(w) /\ (Requeued(w)' => Requeued(w) /\ hold'[w] = hold[w])
    /\ Control(w)'
    /\ pc'[w] \notin HandlerPoints /\ curr[w] # None => pc[w] \notin HandlerPoints \/ rt[w] = {}
    /\ pc'[w] \in {"resume", "mark", "enter", "entered", "body"} /\ ~IsRealtime(hold[w])'
        => rt[w] = {}

\* A handler that returns for want of a second coroutine has fetched none.
LEMMA AloneEmpty ==
  ASSUME NEW w \in Workers, Fit(w), len[w] <= 1, Hand(w) \in Ids \/ curr[w] \in Ids
  PROVE  rt[w] = {}
<1>1. /\ len[w] = Len(newq[w]) + Len(suspq[w]) + Cardinality(rt[w]) + One(curr[w]) + One(Hand(w))
      /\ rt[w] \subseteq Ids /\ Len(newq[w]) \in Nat /\ Len(suspq[w]) \in Nat
  BY DEF Fit, SafeOK, Counted, Waiting, AllInv, TypeInv, TypeOK
<1>2. One(curr[w]) \in Nat /\ One(Hand(w)) \in Nat /\ One(curr[w]) + One(Hand(w)) >= 1
  BY DEF One, None, Ids
<1>3. Cardinality(rt[w]) \in Nat /\ IsFiniteSet(rt[w])
  BY <1>1, Countable
<1>4. Cardinality(rt[w]) = 0
  <2>1. PICK a \in Nat, b \in Nat, r \in Nat, x \in Nat, y \in Nat :
          /\ a = Len(newq[w]) /\ b = Len(suspq[w]) /\ r = Cardinality(rt[w])
          /\ x = One(curr[w]) /\ y = One(Hand(w))
    BY <1>1, <1>2, <1>3
  <2>2. a + b + r + x + y <= 1 /\ x + y >= 1
    BY <1>1, <1>2, <2>1
  <2>3. r = 0
    BY <2>2
  <2> QED
    BY <2>1, <2>3
<1> QED
  BY <1>3, <1>4, FS_EmptySet

LEMMA QuietEffects ==
  ASSUME NEW w \in Workers, Fit(w), QuietStep(w) PROVE QuietEffect(w)
<1>1. Control(w) /\ Yields(w) /\ TypeOK /\ HoldOK /\ RunsOK(w)
  BY DEF Fit, SafeOK, AllInv, TypeInv, RunInv
<1> USE DEF TypeOK, QuietEffect, Hand, Requeued, Control, Yields, Point, HandlerPoints,
        schedulerVars, queueVars, taskVars, markVars, loopVars, requestVars,
        IsRealtime
<1>2. CASE Boot(w) \/ LoopGet(w)
  BY <1>1, <1>2 DEF Boot, LoopGet
<1>3. CASE FetchRealtimeEnds(w)
  BY <1>1, <1>3 DEF FetchRealtimeEnds
<1>4. CASE FetchGlobalEnds(w)
  BY <1>1, <1>4 DEF FetchGlobalEnds
<1>5. CASE Resume(w)
  BY <1>1, <1>5 DEF Resume, HoldOK
<1>6. CASE Mark(w) \/ Enter(w)
  BY <1>1, <1>6 DEF Mark, Enter
<1>7. CASE Swap(w)
  <2>1. at[hold[w]] = "body"
    <3>1. hold[w] \in Ids /\ st[hold[w]] = "RUNNING"
      BY <1>1, <1>7 DEF Swap, HoldOK
    <3> QED
      BY <3>1 DEF Fit, AllInv, RunInv, DoneAway
  <2> QED
    BY <1>1, <1>7, <2>1 DEF Swap
<1>8. CASE Finish(w)
  BY <1>1, <1>8 DEF Finish
<1>9. CASE LockStats(w)
  BY <1>1, <1>9 DEF LockStats
<1>10. CASE Restore(w)
  <2>1. st[hold[w]] = "COMPLETED"
    BY <1>1, <1>10 DEF Restore, RunsOK, ExitingDone
  <2> QED
    BY <1>1, <1>10, <2>1 DEF Restore
<1>11. CASE Leave(w)
  <2>1. curr[w] = None \/ curr[w] \in Ids
    BY <1>1
  <2>2. CASE st[hold[w]] = "COMPLETED"
    BY <1>1, <1>11, <2>2 DEF Leave
  <2>3. CASE st[hold[w]] # "COMPLETED"
    <3>1. st[hold[w]] = "SUSPENDED" /\ pc'[w] = LoopHead(curr[w]) /\ hold'[w] = None
          /\ pc[w] = "returned" /\ ret' = ret
      BY <1>1, <1>11, <2>3 DEF Leave
    <3>2. \/ pc'[w] = "top" /\ curr[w] = None
          \/ pc'[w] = "picked" /\ curr[w] # None
      BY <3>1 DEF LoopHead
    <3> QED
      BY <1>1, <1>11, <3>1, <3>2 DEF Leave
  <2> QED
    BY <2>2, <2>3
<1>12. CASE Alrm(w)
  BY <1>1, <1>12 DEF Alrm, LoopPoints, TaskPoints
<1>13. CASE AlrmReturns(w)
  <2>1. ret[w] \in LoopPoints \union TaskPoints /\ curr[w] \in Ids \union {None}
    BY <1>1
  <2>2. ret[w] \in {"resume", "mark", "enter", "entered", "body"} => Hand(w) \in Ids
    BY <1>1, <1>13 DEF AlrmReturns, HoldOK, TaskPoints
  <2>3. ret[w] \in {"resume", "mark", "enter", "entered", "body"} \/ curr[w] # None => rt[w] = {}
    BY <1>13, <2>1, <2>2, AloneEmpty DEF AlrmReturns
  <2> QED
    BY <1>1, <1>13, <2>1, <2>3 DEF AlrmReturns, LoopPoints, TaskPoints
<1>14. CASE UrgIgnored(w)
  BY <1>1, <1>14 DEF UrgIgnored
<1> QED
  BY <1>2, <1>3, <1>4, <1>5, <1>6, <1>7, <1>8, <1>9, <1>10, <1>11, <1>12, <1>13, <1>14
     DEF QuietStep

LEMMA QuietSafe ==
  ASSUME NEW w \in Workers, Fit(w), QuietStep(w)
  PROVE  SafeOK(w)' /\ Spots(w)' = Spots(w) /\ UNCHANGED <<gq, rtq, slot, completed>>
<1>1. QuietEffect(w) /\ SafeOK(w)
  BY QuietEffects DEF Fit
<1>2. UNCHANGED ddl
  BY WorkerKeepsRequest DEF QuietStep, WorkerStep, RunLoop, Urg, requestVars
<1>3. Separate(w)' /\ Spots(w)' = Spots(w)
  BY <1>1 DEF QuietEffect, SafeOK, Separate, QueuesApart, Spots, Queued
<1>4. Counted(w)'
  BY <1>1 DEF QuietEffect, SafeOK, Counted, Waiting
<1>5. Yields(w)'
  BY <1>1, <1>2 DEF QuietEffect, SafeOK, Yields, IsRealtime
<1> QED
  BY <1>1, <1>3, <1>4, <1>5 DEF QuietEffect, SafeOK

\* What another place has is not the worker's.
LEMMA Outside ==
  ASSUME AllInv, NEW w \in Workers, NEW c \in Ids,
         \E k \in Kinds \ {"own"}, v \in Workers : Zone(c, k, v)
  PROVE  c \notin Spots(w)
<1>1. "own" \in Kinds /\ ~Zone(c, "own", w)
  BY DEF AllInv, OwnInv, Exclusive, Kinds
<1> QED
  BY <1>1 DEF Zone, Spots, Queued, Owned, Hand

LEMMA QueuedIds == ASSUME TypeOK, NEW w \in Workers PROVE Queued(w) \subseteq Ids
<1>1. newq[w] \in Seq(Ids) /\ suspq[w] \in Seq(Ids) /\ rt[w] \subseteq Ids
  BY DEF TypeOK
<1>2. ToSet(newq[w]) \subseteq Ids /\ ToSet(suspq[w]) \subseteq Ids
  BY <1>1 DEF ToSet
<1> QED
  BY <1>1, <1>2 DEF Queued

LEMMA WaitingNat == ASSUME TypeOK, NEW w \in Workers PROVE Waiting(w) \in Nat
<1>1. Len(newq[w]) \in Nat /\ Len(suspq[w]) \in Nat /\ rt[w] \in SUBSET Ids
  BY DEF TypeOK
<1>2. PICK a \in Nat, b \in Nat, r \in Nat :
        a = Len(newq[w]) /\ b = Len(suspq[w]) /\ r = Cardinality(rt[w])
  BY <1>1, Countable
<1>3. Waiting(w) = a + b + r
  BY <1>2 DEF Waiting
<1> QED
  BY <1>3

\* The worker's places when one coroutine has joined its queues.
Joined(w, x) ==
    /\ QueuesApart(w)' /\ Queued(w)' = Queued(w) \union {x}
    /\ Waiting(w)' = Waiting(w) + 1

LEMMA JoinsRt ==
  ASSUME TypeOK, NEW w \in Workers, QueuesApart(w), NEW x \in Ids, x \notin Queued(w),
         rt' = [rt EXCEPT ![w] = @ \union {x}], UNCHANGED <<newq, suspq>>
  PROVE  Joined(w, x)
<1>1. rt'[w] = rt[w] \union {x} /\ rt[w] \subseteq Ids /\ x \notin rt[w]
  BY DEF TypeOK, Queued
<1>2. Cardinality(rt'[w]) = Cardinality(rt[w]) + 1 /\ Cardinality(rt[w]) \in Nat
  BY <1>1, Countable, FS_AddElement
<1>3. Len(newq[w]) \in Nat /\ Len(suspq[w]) \in Nat
  BY DEF TypeOK
<1>4. QueuesApart(w)' /\ Queued(w)' = Queued(w) \union {x}
  BY <1>1 DEF Queued, QueuesApart
<1>5. Waiting(w)' = Waiting(w) + 1
  <2>1. PICK a \in Nat, b \in Nat, r \in Nat :
          a = Len(newq[w]) /\ b = Len(suspq[w]) /\ r = Cardinality(rt[w])
    BY <1>2, <1>3
  <2>2. Waiting(w)' = a + b + (r + 1) /\ Waiting(w) = a + b + r
    BY <1>2, <2>1 DEF Waiting
  <2> QED
    BY <2>2
<1> QED
  BY <1>4, <1>5 DEF Joined

LEMMA JoinsNew ==
  ASSUME TypeOK, NEW w \in Workers, QueuesApart(w), NEW x \in Ids, x \notin Queued(w),
         newq' = [newq EXCEPT ![w] = Append(@, x)], UNCHANGED <<rt, suspq>>
  PROVE  Joined(w, x)
<1>1. /\ newq'[w] = Append(newq[w], x) /\ newq[w] \in Seq(Ids) /\ x \notin ToSet(newq[w])
      /\ IsInjective(newq[w])
  BY DEF TypeOK, Queued, QueuesApart
<1>2. /\ ToSet(newq'[w]) = ToSet(newq[w]) \union {x} /\ IsInjective(newq'[w])
      /\ Len(newq'[w]) = Len(newq[w]) + 1
  BY <1>1, PutLast
<1>3. Len(newq[w]) \in Nat /\ Len(suspq[w]) \in Nat /\ Cardinality(rt[w]) \in Nat
  BY Countable DEF TypeOK
<1>4. QueuesApart(w)' /\ Queued(w)' = Queued(w) \union {x}
  BY <1>2 DEF Queued, QueuesApart
<1>5. Waiting(w)' = Waiting(w) + 1
  <2>1. PICK a \in Nat, b \in Nat, r \in Nat :
          a = Len(newq[w]) /\ b = Len(suspq[w]) /\ r = Cardinality(rt[w])
    BY <1>2, <1>3
  <2>2. Waiting(w)' = (a + 1) + b + r /\ Waiting(w) = a + b + r
    BY <1>2, <2>1 DEF Waiting
  <2> QED
    BY <2>2
<1> QED
  BY <1>4, <1>5 DEF Joined

LEMMA JoinsSuspended ==
  ASSUME TypeOK, NEW w \in Workers, QueuesApart(w), NEW x \in Ids, x \notin Queued(w),
         suspq' = [suspq EXCEPT ![w] = Append(@, x)], UNCHANGED <<rt, newq>>
  PROVE  Joined(w, x)
<1>1. /\ suspq'[w] = Append(suspq[w], x) /\ suspq[w] \in Seq(Ids) /\ x \notin ToSet(suspq[w])
      /\ IsInjective(suspq[w])
  BY DEF TypeOK, Queued, QueuesApart
<1>2. /\ ToSet(suspq'[w]) = ToSet(suspq[w]) \union {x} /\ IsInjective(suspq'[w])
      /\ Len(suspq'[w]) = Len(suspq[w]) + 1
  BY <1>1, PutLast
<1>3. Len(newq[w]) \in Nat /\ Len(suspq[w]) \in Nat /\ Cardinality(rt[w]) \in Nat
  BY Countable DEF TypeOK
<1>4. QueuesApart(w)' /\ Queued(w)' = Queued(w) \union {x}
  BY <1>2 DEF Queued, QueuesApart
<1>5. Waiting(w)' = Waiting(w) + 1
  <2>1. PICK a \in Nat, b \in Nat, r \in Nat :
          a = Len(newq[w]) /\ b = Len(suspq[w]) /\ r = Cardinality(rt[w])
    BY <1>2, <1>3
  <2>2. Waiting(w)' = a + (b + 1) + r /\ Waiting(w) = a + b + r
    BY <1>2, <2>1 DEF Waiting
  <2> QED
    BY <2>2
<1> QED
  BY <1>4, <1>5 DEF Joined

\* A fetch, outside and inside of the handler.
LEMMA FetchSafe ==
  ASSUME NEW w \in Workers, Fit(w), NEW x \in Ids, x \notin Spots(w),
         FetchRealtime(w) \/ FetchGlobal(w), Joined(w, x)
  PROVE  SafeOK(w)' /\ Spots(w)' = Spots(w) \union {x}
<1>1. SafeOK(w) /\ TypeOK
  BY DEF Fit, AllInv, TypeInv
<1>2. /\ pc[w] \in {"drainRt", "hDrainRt", "drainNrt", "hDrainNrt"}
      /\ UNCHANGED <<pc, ret, curr, hold, st, ddl>> /\ len' = [len EXCEPT ![w] = @ + 1]
  BY DEF FetchRealtime, FetchGlobal, loopVars, taskVars, requestVars
<1>3. /\ Hand(w)' = Hand(w) /\ Point(w)' = Point(w) /\ (Requeued(w)' <=> Requeued(w))
      /\ pc[w] \in HandlerPoints \/ curr[w] = None
  BY <1>1, <1>2 DEF SafeOK, Control, Hand, Requeued, Point, HandlerPoints
<1>4. Control(w)'
  BY <1>1, <1>2, <1>3 DEF SafeOK, Control
<1>5. Separate(w)' /\ Spots(w)' = Spots(w) \union {x}
  BY <1>1, <1>2, <1>3 DEF SafeOK, Separate, Spots, Joined, Ids, None
<1>6. Counted(w)'
  <2>1. len'[w] = len[w] + 1 /\ len[w] = Waiting(w) + One(curr[w]) + One(Hand(w))
    BY <1>1, <1>2 DEF TypeOK, SafeOK, Counted
  <2>2. Waiting(w) \in Nat
    BY <1>1, WaitingNat
  <2>3. One(curr[w]) \in Nat /\ One(Hand(w)) \in Nat
    BY DEF One
  <2>4. Waiting(w)' = Waiting(w) + 1 /\ One(curr[w])' = One(curr[w]) /\ One(Hand(w))' = One(Hand(w))
    BY <1>2, <1>3 DEF Joined, One
  <2> QED
    BY <2>1, <2>2, <2>3, <2>4 DEF Counted
<1>7. Yields(w)'
  BY <1>2, <1>3 DEF Yields, HandlerPoints
<1> QED
  BY <1>4, <1>5, <1>6, <1>7 DEF SafeOK

LEMMA FetchRealtimeSafe ==
  ASSUME NEW w \in Workers, Fit(w), FetchRealtime(w)
  PROVE  /\ SafeOK(w)' /\ UNCHANGED <<gq, slot, completed>>
         /\ \E x \in rtq[w] : /\ rtq' = [rtq EXCEPT ![w] = @ \ {x}]
                              /\ Spots(w)' = Spots(w) \union {x}
<1>1. TypeOK /\ QueuesApart(w)
  BY DEF Fit, SafeOK, Separate, AllInv, TypeInv
<1>2. PICK x \in rtq[w] : /\ rtq' = [rtq EXCEPT ![w] = @ \ {x}]
                          /\ rt' = [rt EXCEPT ![w] = @ \union {x}]
  BY EarliestInside DEF FetchRealtime
<1>3. x \in Ids
  BY <1>1, <1>2 DEF TypeOK
<1>4. Zone(x, "rtq", w) /\ "rtq" \in Kinds \ {"own"}
  BY <1>2 DEF Zone, Kinds
<1>5. x \notin Spots(w)
  BY <1>3, <1>4, Outside DEF Fit
<1>6. Joined(w, x)
  BY <1>1, <1>2, <1>3, <1>5, JoinsRt DEF Spots, FetchRealtime
<1> QED
  BY <1>2, <1>3, <1>5, <1>6, FetchSafe DEF FetchRealtime, taskVars, markVars

LEMMA FetchGlobalSafe ==
  ASSUME NEW w \in Workers, Fit(w), FetchGlobal(w)
  PROVE  /\ SafeOK(w)' /\ UNCHANGED <<rtq, slot, completed>>
         /\ \E x \in ToSet(gq) : ToSet(gq') = ToSet(gq) \ {x} /\ Spots(w)' = Spots(w) \union {x}
<1>1. TypeOK /\ QueuesApart(w) /\ IsInjective(gq)
  BY DEF Fit, SafeOK, Separate, AllInv, TypeInv, OwnInv, QueuedOnce
<1>2. gq # <<>> /\ gq' = Tail(gq) /\ newq' = [newq EXCEPT ![w] = Append(@, Head(gq))]
      /\ gq \in Seq(Ids)
  BY <1>1 DEF FetchGlobal, TypeOK
<1>3. PICK x \in Ids : x = Head(gq) /\ x \in ToSet(gq) /\ ToSet(gq') = ToSet(gq) \ {x}
  BY <1>1, <1>2, TakeFirst
<1>4. Zone(x, "global", 0) /\ "global" \in Kinds \ {"own"} /\ 0 \in Workers
  BY <1>3 DEF Zone, Kinds, Workers
<1>5. x \notin Spots(w)
  BY <1>4, Outside DEF Fit
<1>6. Joined(w, x)
  BY <1>1, <1>2, <1>3, <1>5, JoinsNew DEF Spots, FetchGlobal
<1> QED
  BY <1>3, <1>5, <1>6, FetchSafe DEF FetchGlobal, taskVars, markVars

\* What set_curr chooses satisfies Yields.
LEMMA ChoiceYields ==
  ASSUME NEW w \in Workers, Fit(w), NEW c, rt'[w] = {} \/ c \in rt[w], UNCHANGED ddl,
         c # None, ~IsRealtime(c)'
  PROVE  rt'[w] = {}
  BY DEF Fit, Timed, IsRealtime

\* set_curr outside a coroutine: at the end of the loop, and in the handler.
LEMMA ChooseSafe ==
  ASSUME NEW w \in Workers, Fit(w), Pick(w) \/ (AlrmInLoop(w) /\ ret[w] \in SafePoints)
  PROVE  SafeOK(w)' /\ Spots(w)' = Spots(w) /\ UNCHANGED <<gq, rtq, slot, completed>>
<1>1. SafeOK(w) /\ TypeOK /\ CurHeld(w) /\ HoldOK /\ HandsOK(w)
  BY DEF Fit, AllInv, TypeInv, RunInv, RunsOK, LifeInv
<1>2. /\ SetCurr(w, <<>>) /\ UNCHANGED <<gq, rtq, slot, completed, st, hold, len, ddl>>
      /\ pc[w] \in {"pick", "hPick"}
  BY DEF Pick, AlrmInLoop, schedulerVars, taskVars, markVars, requestVars
<1>3. pc' = [pc EXCEPT ![w] = LoopHead(curr'[w])] /\ Point(w) \in {"pick", "top"}
  <2>1. CASE Pick(w)
    BY <2>1 DEF Pick, Point, HandlerPoints
  <2>2. CASE AlrmInLoop(w) /\ ret[w] \in SafePoints
    <3>1. ret[w] # "body"
      BY <1>1, <2>2 DEF AlrmInLoop, CurHeld, HoldOK, Point, HandlerPoints, TaskPoints, None, Ids
    <3>2. ret[w] = "top"
      BY <2>2, <3>1 DEF AlrmInLoop, SafePoints
    <3> QED
      BY <2>2, <3>2 DEF AlrmInLoop, BackTo, Point, HandlerPoints
  <2> QED
    BY <2>1, <2>2
<1>4. curr[w] = None /\ Hand(w) = hold[w] /\ QueuesApart(w)
  BY <1>1, <1>3 DEF SafeOK, Control, Separate, Hand, Requeued
<1>5. /\ QueuesApart(w)'
      /\ curr'[w] \notin Queued(w)' /\ (curr'[w] = None \/ curr'[w] \in Queued(w))
      /\ Queued(w)' \union ({curr'[w]} \ {None}) = Queued(w)
      /\ Waiting(w)' + One(curr'[w]) = Waiting(w)
      /\ rt'[w] = {} \/ curr'[w] \in rt[w]
  <2>1. Waiting(w) + Len(<<>>) = Waiting(w) /\ ToSet(<<>>) = {}
    BY <1>1, WaitingNat, EmptyRange
  <2> QED
    BY <1>1, <1>2, <1>4, <2>1, SetCurrMoves
<1>6. \/ curr'[w] = None /\ pc'[w] = "top"
      \/ curr'[w] # None /\ pc'[w] = "picked"
  BY <1>1, <1>3 DEF LoopHead, TypeOK
<1>7. ~Requeued(w)' /\ Hand(w)' = Hand(w)
  BY <1>2, <1>4, <1>6 DEF Requeued, Hand, Point, HandlerPoints
<1>8. Control(w)'
  BY <1>6 DEF Control, Point, HandlerPoints
<1>9. Separate(w)' /\ Spots(w)' = Spots(w)
  BY <1>1, <1>4, <1>5, <1>7 DEF SafeOK, Separate, Spots
<1>10. Counted(w)'
  <2>1. len'[w] = len[w] /\ len[w] = Waiting(w) + One(curr[w]) + One(Hand(w)) /\ One(curr[w]) = 0
    BY <1>1, <1>2, <1>4 DEF SafeOK, Counted, One
  <2>2. Waiting(w) \in Nat /\ One(Hand(w)) \in Nat /\ One(Hand(w))' = One(Hand(w))
    BY <1>1, <1>7, WaitingNat DEF One
  <2> QED
    BY <1>5, <2>1, <2>2 DEF Counted
<1>11. Yields(w)'
  BY <1>2, <1>5, <1>6, ChoiceYields DEF Yields
<1> QED
  BY <1>2, <1>8, <1>9, <1>10, <1>11 DEF SafeOK

\* A coroutine goes from curr to run_co's hands.
LEMMA TakeSafe ==
  ASSUME NEW w \in Workers, Fit(w), Take(w)
  PROVE  SafeOK(w)' /\ Spots(w)' = Spots(w) /\ UNCHANGED <<gq, rtq, slot, completed>>
<1>1. SafeOK(w) /\ TypeOK /\ HoldOK /\ HandsOK(w)
  BY DEF Fit, AllInv, TypeInv, LifeInv
<1>2. pc[w] = "picked" /\ curr[w] \in Ids /\ hold[w] = None
  BY <1>1 DEF Take, HoldOK, HandsOK, Point, HandlerPoints, RunPoints, TaskPoints
<1>3. PICK c \in Ids : c = curr[w]
  BY <1>2
<1>4. c \notin completed
  <2>1. c \in Spots(w)
    BY <1>3 DEF Spots, None, Ids
  <2> QED
    BY <2>1 DEF Fit
<1>5. /\ curr'[w] = None /\ hold'[w] = c /\ pc'[w] = "resume"
      /\ UNCHANGED <<gq, rtq, slot, completed, newq, suspq, rt, len, ddl>>
  BY <1>1, <1>3, <1>4 DEF Take, TypeOK, schedulerVars, markVars, queueVars, requestVars
<1>6. Hand(w) = None /\ Hand(w)' = c /\ ~Requeued(w)'
  BY <1>2, <1>5 DEF Hand, Requeued, Point, HandlerPoints
<1>7. Control(w)'
  BY <1>5 DEF Control, Point, HandlerPoints
<1>8. Separate(w)' /\ Spots(w)' = Spots(w)
  BY <1>1, <1>3, <1>5, <1>6 DEF SafeOK, Separate, QueuesApart, Spots, Queued, None, Ids
<1>9. Counted(w)'
  <2>1. Waiting(w)' = Waiting(w) /\ len'[w] = len[w] /\ Waiting(w) \in Nat
    BY <1>1, <1>5, WaitingNat DEF Waiting
  <2>2. One(None) = 0 /\ One(c) = 1
    BY DEF One, None, Ids
  <2> QED
    BY <1>1, <1>3, <1>5, <1>6, <2>1, <2>2 DEF SafeOK, Counted
<1>10. Yields(w)'
  BY <1>1, <1>2, <1>3, <1>5 DEF SafeOK, Yields, IsRealtime, HandlerPoints, None, Ids
<1> QED
  BY <1>5, <1>7, <1>8, <1>9, <1>10 DEF SafeOK

\* A completed coroutine leaves.
LEMMA CleanupSafe ==
  ASSUME NEW w \in Workers, Fit(w), Cleanup(w)
  PROVE  /\ SafeOK(w)' /\ UNCHANGED <<gq, rtq, slot>>
         /\ hold[w] \in Spots(w) /\ Spots(w)' = Spots(w) \ {hold[w]}
         /\ completed' = completed \union {hold[w]}
<1>1. SafeOK(w) /\ TypeOK /\ HoldOK
  BY DEF Fit, AllInv, TypeInv
<1>2. PICK c \in Ids : c = hold[w]
  BY <1>1 DEF Cleanup, HoldOK, Point, HandlerPoints
<1>3. /\ pc[w] = "cleanup" /\ hold'[w] = None /\ completed' = completed \union {c}
      /\ UNCHANGED <<gq, rtq, slot, newq, suspq, rt, curr, ddl>> /\ len'[w] = len[w] - 1
      /\ pc'[w] = LoopHead(curr[w])
  BY <1>1, <1>2 DEF Cleanup, TypeOK, taskVars, requestVars
<1>4. \/ curr'[w] = None /\ pc'[w] = "top"
      \/ curr'[w] # None /\ pc'[w] = "picked"
  BY <1>3 DEF LoopHead
<1>5. Hand(w) = c /\ Hand(w)' = None /\ ~Requeued(w)'
  BY <1>2, <1>3, <1>4 DEF Hand, Requeued, Point, HandlerPoints
<1>6. Control(w)'
  BY <1>4 DEF Control, Point, HandlerPoints
<1>7. None \notin Queued(w)
  BY <1>1, QueuedIds DEF Ids, None
<1>8. Separate(w)' /\ c \in Spots(w) /\ Spots(w)' = Spots(w) \ {c}
  BY <1>1, <1>3, <1>5, <1>7 DEF SafeOK, Separate, QueuesApart, Spots, Queued, None, Ids
<1>9. Counted(w)'
  <2>1. Waiting(w)' = Waiting(w) /\ Waiting(w) \in Nat
    BY <1>1, <1>3, WaitingNat DEF Waiting
  <2>2. One(None) = 0 /\ One(c) = 1 /\ One(curr[w]) \in Nat
    BY DEF One, None, Ids
  <2> QED
    BY <1>1, <1>3, <1>5, <2>1, <2>2 DEF SafeOK, Counted
<1>10. Yields(w)'
  BY <1>1, <1>3, <1>4 DEF SafeOK, Yields, IsRealtime, HandlerPoints
<1> QED
  BY <1>2, <1>3, <1>6, <1>8, <1>9, <1>10 DEF SafeOK

\* A coroutine that a handler switches out is interrupted in guest code.
LEMMA SwitchOutSafe ==
  ASSUME NEW w \in Workers, Fit(w),
         \/ AlrmSwitches(w) /\ ret[w] \in SafePoints
         \/ UrgPreempts(w) /\ pc[w] \in SafePoints
  PROVE  /\ cur[w] = hold[w] /\ hold[w] \in Ids /\ hold[w] \notin Queued(w)
         /\ curr[w] = None /\ Hand(w) = hold[w]
         /\ pc'[w] = "returned" /\ st'[hold[w]] = "SUSPENDED"
         /\ UNCHANGED <<completed, hold, ddl>>
<1>1. SafeOK(w) /\ TypeOK /\ CurHeld(w) /\ HandsOK(w)
  BY DEF Fit, AllInv, TypeInv, RunInv, RunsOK, LifeInv
<1>2. cur[w] \in Ids
  BY <1>1 DEF AlrmSwitches, UrgPreempts, TypeOK
<1>3. PICK p : p \in SafePoints /\ p = Point(w) /\ SwitchOut(w, p)
  <2>1. CASE AlrmSwitches(w) /\ ret[w] \in SafePoints
    BY <2>1 DEF AlrmSwitches, Point, HandlerPoints
  <2>2. CASE UrgPreempts(w) /\ pc[w] \in SafePoints
    BY <2>2 DEF UrgPreempts, Point, HandlerPoints, SafePoints
  <2> QED
    BY <2>1, <2>2
<1>4. p = "body"
  BY <1>1, <1>2, <1>3 DEF HandsOK, SafePoints, TaskPoints, None, Ids
<1>5. /\ cur[w] = hold[w] /\ st[hold[w]] = "RUNNING" /\ curr[w] = None
      /\ ~Requeued(w)
  <2>1. Point(w) = "body"
    BY <1>3, <1>4
  <2>2. cur[w] = hold[w] /\ st[hold[w]] = "RUNNING"
    BY <1>1, <1>3, <1>4 DEF CurHeld, TaskPoints, SafeOK, Control
  <2> QED
    BY <1>1, <2>1, <2>2 DEF SafeOK, Control, Requeued
<1>6. Hand(w) = hold[w] /\ hold[w] \notin Queued(w)
  BY <1>1, <1>5 DEF Hand, SafeOK, Separate
<1>7. /\ st' = [st EXCEPT ![hold[w]] = "SUSPENDED"]
      /\ pc' = [pc EXCEPT ![w] = "returned"]
  BY <1>1, <1>2, <1>3, <1>4, <1>5 DEF SwitchOut, TaskPoints, TypeOK
<1>8. UNCHANGED <<completed, hold, ddl>>
  BY DEF AlrmSwitches, UrgPreempts, markVars, requestVars
<1> QED
  BY <1>1, <1>2, <1>5, <1>6, <1>7, <1>8 DEF TypeOK

LEMMA AlrmSwitchesSafe ==
  ASSUME NEW w \in Workers, Fit(w), AlrmSwitches(w), ret[w] \in SafePoints
  PROVE  /\ SafeOK(w)' /\ Spots(w)' = Spots(w)
         /\ UNCHANGED <<gq, rtq, slot, completed>>
<1>1. SafeOK(w) /\ TypeOK
  BY DEF Fit, AllInv, TypeInv
<1>2. PICK c \in Ids : c = hold[w]
  BY SwitchOutSafe
<1>3. /\ cur[w] = c /\ c \notin Queued(w) /\ curr[w] = None /\ Hand(w) = c
      /\ pc'[w] = "returned" /\ st'[c] = "SUSPENDED" /\ hold'[w] = c
      /\ UNCHANGED <<completed, ddl>>
  BY <1>2, SwitchOutSafe
<1>4. SetCurr(w, <<c>>) /\ UNCHANGED <<gq, rtq, slot>> /\ len'[w] = len[w]
  BY <1>3 DEF AlrmSwitches
<1>5. /\ QueuesApart(w)'
      /\ curr'[w] \notin Queued(w)' /\ (curr'[w] = None \/ curr'[w] \in Queued(w))
      /\ Queued(w)' \union ({curr'[w]} \ {None}) = Queued(w) \union {c}
      /\ Waiting(w)' + One(curr'[w]) = Waiting(w) + 1
      /\ rt'[w] = {} \/ curr'[w] \in rt[w]
  <2>1. Len(<<c>>) = 1 /\ ToSet(<<c>>) = {c}
    BY SingleRange
  <2>2. QueuesApart(w)
    BY <1>1 DEF SafeOK, Separate
  <2> QED
    BY <1>1, <1>3, <1>4, <2>1, <2>2, SetCurrMoves
<1>6. Requeued(w)' /\ Hand(w)' = None
  BY <1>3 DEF Requeued, Hand, Point, HandlerPoints
<1>7. Control(w)'
  BY <1>3 DEF Control, Point, HandlerPoints
<1>8. None \notin Queued(w)
  BY <1>1, QueuedIds DEF Ids, None
<1>9. c # None /\ c \in Queued(w)' /\ None \notin Queued(w)'
  BY <1>3, <1>5, <1>8 DEF Ids, None
<1>10. Separate(w)' /\ Spots(w)' = Spots(w)
  BY <1>3, <1>5, <1>6, <1>9 DEF Separate, Spots
<1>11. Counted(w)'
  <2>1. One(None) = 0 /\ One(c) = 1
    BY <1>9 DEF One
  <2>2. len[w] = Waiting(w) + One(None) + One(c) /\ Waiting(w) \in Nat
    BY <1>1, <1>3, WaitingNat DEF SafeOK, Counted
  <2>3. Waiting(w)' + One(curr'[w]) + One(Hand(w)') = Waiting(w) + 1
    BY <1>5, <1>6, <2>1, <2>2
  <2> QED
    BY <1>4, <2>1, <2>2, <2>3 DEF Counted
<1>12. Yields(w)'
  BY <1>3, <1>5, ChoiceYields DEF Yields
<1> QED
  BY <1>3, <1>4, <1>7, <1>10, <1>11, <1>12 DEF SafeOK

\* The coroutine of the slot becomes curr.
LEMMA SlotToCurr ==
  ASSUME NEW w \in Workers, Fit(w), TakeSlot(w), UNCHANGED <<spc, job, gq, rtq>>
  PROVE  \E x \in Ids :
            /\ x = slot[w] /\ x \notin Spots(w) /\ IsRealtime(x)
            /\ slot' = [slot EXCEPT ![w] = None] /\ curr'[w] = x
            /\ len'[w] = len[w] + 1
<1>1. TypeOK /\ slot[w] # None
  BY DEF Fit, AllInv, TypeInv, TakeSlot
<1>2. PICK x \in Ids : x = slot[w]
  BY <1>1 DEF TypeOK
<1>3. Zone(x, "slot", w) /\ "slot" \in Kinds \ {"own"}
  BY <1>2 DEF Zone, Kinds
<1>4. x \notin Spots(w)
  BY <1>3, Outside DEF Fit
<1>5. IsRealtime(x)
  BY <1>1, <1>2 DEF Fit, Timed
<1>6. slot' = [slot EXCEPT ![w] = None] /\ curr'[w] = x /\ len'[w] = len[w] + 1
  BY <1>1, <1>2 DEF TakeSlot, TypeOK
<1> QED
  BY <1>2, <1>4, <1>5, <1>6

LEMMA UrgInLoopSafe ==
  ASSUME NEW w \in Workers, Fit(w), UrgInLoop(w), pc[w] \in SafePoints
  PROVE  /\ SafeOK(w)' /\ UNCHANGED <<gq, rtq, completed>>
         /\ slot[w] \in Ids /\ Spots(w)' = Spots(w) \union {slot[w]}
         /\ slot' = [slot EXCEPT ![w] = None]
<1>1. SafeOK(w) /\ TypeOK /\ CurHeld(w) /\ HoldOK /\ HandsOK(w)
  BY DEF Fit, AllInv, TypeInv, RunInv, RunsOK, LifeInv
<1>2. /\ TakeSlot(w) /\ cur[w] = None /\ pc[w] \in SafePoints
      /\ UNCHANGED <<gq, rtq, completed, spc, job, newq, suspq, rt, hold, st, ddl>>
  BY DEF UrgInLoop, markVars, taskVars, requestVars
<1>3. PICK x \in Ids :
        /\ x = slot[w] /\ x \notin Spots(w) /\ IsRealtime(x)
        /\ slot' = [slot EXCEPT ![w] = None] /\ curr'[w] = x
        /\ len'[w] = len[w] + 1
  BY <1>2, SlotToCurr
<1>4. pc[w] = "top" /\ Point(w) = "top"
  BY <1>1, <1>2 DEF SafePoints, CurHeld, HoldOK, Point, HandlerPoints, TaskPoints, None, Ids
<1>5. curr[w] = None /\ hold[w] = None
  BY <1>1, <1>4 DEF SafeOK, Control, HandsOK, RunPoints, TaskPoints
<1>6. pc'[w] = "picked"
  BY <1>1, <1>3, <1>4 DEF UrgInLoop, BackTo, LoopHead, TypeOK, None, Ids
<1>7. Hand(w) = None /\ Hand(w)' = None /\ ~Requeued(w)'
  BY <1>2, <1>4, <1>5, <1>6 DEF Hand, Requeued, Point, HandlerPoints
<1>8. Control(w)'
  BY <1>6 DEF Control, Point, HandlerPoints
<1>9. Separate(w)' /\ Spots(w)' = Spots(w) \union {x}
  BY <1>1, <1>2, <1>3, <1>5, <1>7 DEF SafeOK, Separate, QueuesApart, Spots, Queued, None, Ids
<1>10. Counted(w)'
  <2>1. Waiting(w)' = Waiting(w) /\ Waiting(w) \in Nat
    BY <1>1, <1>2, WaitingNat DEF Waiting
  <2>2. One(None) = 0 /\ One(x) = 1
    BY DEF One, None, Ids
  <2> QED
    BY <1>1, <1>3, <1>5, <1>7, <2>1, <2>2 DEF SafeOK, Counted
<1>11. Yields(w)'
  BY <1>2, <1>3, <1>6 DEF Yields, IsRealtime
<1> QED
  BY <1>2, <1>3, <1>8, <1>9, <1>10, <1>11 DEF SafeOK

LEMMA UrgPreemptsSafe ==
  ASSUME NEW w \in Workers, Fit(w), UrgPreempts(w), pc[w] \in SafePoints
  PROVE  /\ SafeOK(w)' /\ UNCHANGED <<gq, rtq, completed>>
         /\ slot[w] \in Ids /\ Spots(w)' = Spots(w) \union {slot[w]}
         /\ slot' = [slot EXCEPT ![w] = None]
<1>1. SafeOK(w) /\ TypeOK /\ QueuesApart(w)
  BY DEF Fit, SafeOK, Separate, AllInv, TypeInv
<1>2. PICK c \in Ids : c = hold[w]
  BY SwitchOutSafe
<1>3. /\ cur[w] = c /\ c \notin Queued(w) /\ curr[w] = None /\ Hand(w) = c
      /\ pc'[w] = "returned" /\ st'[c] = "SUSPENDED" /\ hold'[w] = c
      /\ UNCHANGED <<completed, ddl>>
  BY <1>2, SwitchOutSafe
<1>4. TakeSlot(w) /\ UNCHANGED <<spc, job, gq, rtq, newq>>
  BY DEF UrgPreempts, requestVars
<1>5. PICK x \in Ids :
        /\ x = slot[w] /\ x \notin Spots(w) /\ IsRealtime(x)
        /\ slot' = [slot EXCEPT ![w] = None] /\ curr'[w] = x
        /\ len'[w] = len[w] + 1
  BY <1>4, SlotToCurr
<1>6. Joined(w, c)
  <2>1. CASE IsRealtime(c)
    BY <1>1, <1>3, <1>4, <2>1, JoinsRt DEF UrgPreempts
  <2>2. CASE ~IsRealtime(c)
    BY <1>1, <1>3, <1>4, <2>2, JoinsSuspended DEF UrgPreempts
  <2> QED
    BY <2>1, <2>2
<1>7. Requeued(w)' /\ Hand(w)' = None
  BY <1>3 DEF Requeued, Hand, Point, HandlerPoints
<1>8. Control(w)'
  BY <1>3 DEF Control, Point, HandlerPoints
<1>9. None \notin Queued(w) /\ c # None
  BY <1>1, QueuedIds DEF Ids, None
<1>10. Separate(w)' /\ Spots(w)' = Spots(w) \union {x}
  <2>1. x \notin Queued(w) /\ x # c /\ x # None
    BY <1>3, <1>5, <1>9 DEF Spots, Ids, None
  <2>2. Queued(w)' = Queued(w) \union {c} /\ QueuesApart(w)'
    BY <1>6 DEF Joined
  <2>3. Spots(w) = Queued(w) \union {c} /\ Spots(w)' = Queued(w)' \union {x}
    BY <1>3, <1>5, <1>7, <1>9, <2>1 DEF Spots
  <2>4. Separate(w)'
    BY <1>3, <1>5, <1>7, <1>9, <2>1, <2>2 DEF Separate
  <2> QED
    BY <2>2, <2>3, <2>4
<1>11. Counted(w)'
  <2>1. One(None) = 0 /\ One(c) = 1 /\ One(x) = 1
    BY DEF One, None, Ids
  <2>2. len[w] = Waiting(w) + 1 /\ Waiting(w) \in Nat
    BY <1>1, <1>3, <2>1, WaitingNat DEF SafeOK, Counted
  <2>3. Waiting(w)' = Waiting(w) + 1
    BY <1>6 DEF Joined
  <2> QED
    BY <1>5, <1>7, <2>1, <2>2, <2>3 DEF Counted
<1>12. Yields(w)'
  BY <1>3, <1>5 DEF Yields, IsRealtime
<1> QED
  BY <1>3, <1>4, <1>5, <1>8, <1>10, <1>11, <1>12 DEF SafeOK

---------------------------------------------------------------------------
(* A worker's step, seen from outside the worker *)

Safe == AllInv /\ SoundInv

LEMMA SoundFit == ASSUME Safe, NEW w \in Sound PROVE w \in Workers /\ Fit(w)
<1>1. w \in Workers /\ SafeOK(w)
  BY DEF Sound, Safe, SoundInv
<1>2. \A c \in completed : c \notin Spots(w)
  BY DEF Safe, SoundInv, FreedOut, Somewhere
<1> QED
  BY <1>1, <1>2 DEF Fit, Safe, SoundInv

LEMMA OthersSafe ==
  ASSUME AllInv, NEW w \in Workers, WorkerStep(w), NEW v \in Workers \ {w}, SafeOK(v)
  PROVE  SafeOK(v)' /\ Spots(v)' = Spots(v)
<1>1. UNCHANGED <<pc[v], ret[v], curr[v], hold[v], newq[v], suspq[v], rt[v], len[v]>>
  BY Elsewhere DEF Mine, AllInv, TypeInv
<1>2. Point(v)' = Point(v)
  BY <1>1 DEF Point
<1>3. hold[v] \in Ids => st'[hold[v]] = st[hold[v]]
  BY Apart, Touched DEF AllInv, TypeInv
<1>4. Point(v) \in {"mark", "enter", "entered", "body", "returned"} => hold[v] \in Ids
  BY DEF AllInv, TypeInv, HoldOK, TaskPoints
<1>5. (Requeued(v)' <=> Requeued(v)) /\ Hand(v)' = Hand(v)
  BY <1>1, <1>2, <1>3, <1>4 DEF Requeued, Hand
<1>6. UNCHANGED ddl
  BY WorkerKeepsRequest DEF requestVars
<1>7. Control(v)'
  BY <1>1, <1>2, <1>3, <1>4 DEF SafeOK, Control
<1>8. Queued(v)' = Queued(v) /\ Waiting(v)' = Waiting(v)
  BY <1>1 DEF Queued, Waiting
<1>9. Separate(v)' /\ Spots(v)' = Spots(v)
  BY <1>1, <1>5, <1>8 DEF SafeOK, Separate, QueuesApart, Spots
<1>10. Counted(v)'
  BY <1>1, <1>5, <1>8 DEF SafeOK, Counted
<1>11. Yields(v)'
  BY <1>1, <1>6 DEF SafeOK, Yields, IsRealtime
<1> QED
  BY <1>7, <1>9, <1>10, <1>11 DEF SafeOK

\* In exactly one place.
LEMMA SpotsOwned == ASSUME NEW w \in Workers PROVE Spots(w) \subseteq Owned(w)
  BY DEF Spots, Queued, Owned, Hand

LEMMA NowhereElse ==
  ASSUME AllInv, NEW w \in Workers, NEW c \in Ids, c \in Owned(w)
  PROVE  /\ ~(spc = "slot" /\ job = c) /\ c \notin ToSet(gq)
         /\ \A v \in Workers : c \notin rtq[v] /\ slot[v] # c /\ (v # w => c \notin Owned(v))
<1>1. Zone(c, "own", w) /\ Kinds = {"hand", "global", "rtq", "slot", "own"} /\ 0 \in Workers
  BY DEF Zone, Kinds, Workers
<1>2. \A k \in Kinds, v \in Workers : Zone(c, k, v) => k = "own" /\ v = w
  BY <1>1 DEF AllInv, OwnInv, Exclusive
<1>3. \A v \in Workers \ {w} : c \notin Owned(v)
  BY <1>1, <1>2 DEF Zone
<1>4. ~(spc = "slot" /\ job = c) /\ c \notin ToSet(gq)
  BY <1>1, <1>2 DEF Zone
<1>5. \A v \in Workers : c \notin rtq[v] /\ slot[v] # c
  BY <1>1, <1>2 DEF Zone
<1> QED
  BY <1>3, <1>4, <1>5

---------------------------------------------------------------------------
(* What a worker's step takes from the shared places, whoever takes it *)

LEMMA SharedShrink ==
  ASSUME AllInv, NEW w \in Workers, WorkerStep(w)
  PROVE  /\ ToSet(gq') \subseteq ToSet(gq) /\ rtq'[w] \subseteq rtq[w]
         /\ slot'[w] \in {slot[w], None}
<1> USE DEF AllInv, TypeInv, TypeOK
<1>1. CASE LocalSteps(w)
  BY <1>1, LocalOwned
<1>2. CASE FetchRealtime(w)
  BY <1>2 DEF FetchRealtime
<1>3. CASE FetchGlobal(w)
  <2>1. gq # <<>> /\ gq' = Tail(gq) /\ UNCHANGED <<rtq, slot>> /\ gq \in Seq(Ids)
    BY <1>3 DEF FetchGlobal
  <2> QED
    BY <2>1, TailRange
<1>4. CASE UrgInLoop(w) \/ UrgPreempts(w)
  BY <1>4 DEF UrgInLoop, UrgPreempts, TakeSlot
<1> QED
  BY <1>1, <1>2, <1>3, <1>4 DEF WorkerStep, RunLoop, Urg, LocalSteps

\* What a worker has, it had before or took from its own queue, its slot or
\* the global queue.
LEMMA OwnedGains ==
  ASSUME AllInv, NEW w \in Workers, WorkerStep(w), NEW c \in Ids, c \in Owned(w)'
  PROVE  c \in Reach(w) \/ c \in ToSet(gq)
<1>1. CASE LocalSteps(w)
  BY <1>1, LocalOwned DEF AllInv, Reach
<1>2. CASE FetchGlobal(w)
  <2>1. /\ newq' = [newq EXCEPT ![w] = Append(@, Head(gq))] /\ gq # <<>>
        /\ UNCHANGED <<suspq, rt, curr, cur, hold>> /\ gq \in Seq(Ids) /\ newq[w] \in Seq(Ids)
        /\ newq \in [Workers -> Seq(Ids)]
    BY <1>2 DEF FetchGlobal, loopVars, AllInv, TypeInv, TypeOK
  <2>2. PICK x \in Ids : x = Head(gq) /\ x \in ToSet(gq)
    BY <2>1, TailRange
  <2>3. ToSet(newq'[w]) = ToSet(newq[w]) \union {x}
    BY <2>1, <2>2, AppendRange
  <2> QED
    BY <2>1, <2>2, <2>3 DEF Owned, Reach
<1>3. CASE FetchRealtime(w) \/ UrgInLoop(w) \/ UrgPreempts(w)
  <2>1. Zone(c, "own", w)' /\ Kinds = {"hand", "global", "rtq", "slot", "own"} /\ 0 \in Workers
    BY DEF Zone, Kinds, Workers
  <2>2. Exclusive' /\ \E l \in Kinds : Zone(c, l, w)
    BY <1>3, <2>1, ZonesFetchRealtime, ZonesTakeSlot DEF AllInv
  <2>3. UNCHANGED <<spc, job>>
    BY WorkerKeepsRequest DEF requestVars
  <2>4. ~Zone(c, "hand", w)
    <3>1. Zone(c, "hand", w) => Zone(c, "hand", w)'
      BY <2>3 DEF Zone
    <3> QED
      BY <2>1, <2>2, <3>1 DEF Exclusive
  <2>5. Zone(c, "global", w) \/ Zone(c, "rtq", w) \/ Zone(c, "slot", w) \/ Zone(c, "own", w)
    BY <2>1, <2>2, <2>4
  <2> QED
    BY <2>5 DEF Zone, Reach
<1> QED
  BY <1>1, <1>2, <1>3 DEF WorkerStep, RunLoop, Urg, LocalSteps

LEMMA HomeWorker ==
  ASSUME Safe, NEW w \in Workers, WorkerStep(w) PROVE AtHome' /\ Untimed'
<1>1. UNCHANGED <<ddl, nextId>> /\ TypeOK
  BY WorkerKeepsRequest DEF requestVars, Safe, AllInv, TypeInv
<1>2. AtHome /\ Untimed /\ AllInv
  BY DEF Safe, SoundInv
<1>3. \A v \in Workers \ {w} : Reach(v)' = Reach(v)
  BY <1>1, Elsewhere DEF Mine, Reach, Owned
<1>4. ASSUME NEW c \in Reach(w)', IsRealtime(c) PROVE Home(c) = w
  <2>1. TypeOK'
    BY <1>2, TypeStep DEF AllInv, TypeInv, Next
  <2>2. c \in Ids
    <3>1. newq'[w] \in Seq(Ids) /\ suspq'[w] \in Seq(Ids)
      BY <2>1 DEF TypeOK
    <3>2. ToSet(newq'[w]) \subseteq Ids /\ ToSet(suspq'[w]) \subseteq Ids
      BY <3>1 DEF ToSet
    <3>3. Reach(w)' \subseteq Ids \union {None}
      BY <2>1, <3>2 DEF Reach, Owned, TypeOK
    <3> QED
      BY <1>4, <3>3 DEF IsRealtime
  <2>3. c \in Reach(w) \/ c \in ToSet(gq)
    BY <1>2, <1>4, <2>2, SharedShrink, OwnedGains DEF Reach, IsRealtime
  <2> QED
    BY <1>2, <1>4, <2>3 DEF AtHome, Untimed
<1>5. AtHome'
  BY <1>1, <1>2, <1>3, <1>4 DEF AtHome, IsRealtime, Home
<1>6. Untimed'
  BY <1>1, <1>2, SharedShrink DEF Untimed, IsRealtime
<1> QED
  BY <1>5, <1>6

---------------------------------------------------------------------------
(* Strikes *)

LEMMA StrikeMoves ==
  ASSUME TypeOK, NEW v \in Workers, Strike(v)
  PROVE  \/ urg[v] = TRUE /\ urg'[v] = FALSE
         \/ pc[v] = "hPick" /\ pc'[v] # "hPick"
<1> USE DEF TypeOK
<1>1. CASE UrgInLoop(v) \/ UrgPreempts(v)
  BY <1>1 DEF UrgInLoop, UrgPreempts, TakeSlot
<1>2. CASE AlrmInLoop(v)
  BY <1>2 DEF AlrmInLoop, BackTo, LoopHead, LoopPoints, TaskPoints
<1>3. CASE AlrmSwitches(v)
  BY <1>3 DEF AlrmSwitches, SwitchOut
<1> QED
  BY <1>1, <1>2, <1>3 DEF Strike

\* A step strikes the worker that takes it, or nobody.
LEMMA StrikeMine ==
  ASSUME TypeOK, NEW w \in Workers, WorkerStep(w), NEW v \in Workers \ {w} PROVE ~Strike(v)
<1>1. urg'[v] = urg[v] /\ pc'[v] = pc[v]
  BY Elsewhere DEF Mine
<1> QED
  BY <1>1, StrikeMoves

LEMMA StrikeNobody ==
  ASSUME TypeOK, Request \/ SchedulerStep, NEW v \in Workers PROVE ~Strike(v)
<1>1. pc' = pc /\ (urg'[v] = urg[v] \/ urg'[v] = TRUE)
  BY DEF Request, RequestNrt, RequestRt, SchedulerStep, Snapshot, Decide, Reject, Admit,
     Retry, Instantiate, InstantiateFails, NoteSchedulable, SpawnNrt, SpawnSchedulable,
     SpawnPreemptive, SetSlot, Signal, loopVars, schedulerVars, TypeOK
<1> QED
  BY <1>1, StrikeMoves

Strikes(w) == struck' = struck \union (IF Strike(w) THEN {w} ELSE {})

---------------------------------------------------------------------------
(* What a worker's step owes to the invariant *)

\* The workers still sound keep their own; a coroutine that leaves the sound
\* places is freed, or a struck worker's to lose; what is freed has left them.
Keeps ==
    /\ \A v \in Sound' : SafeOK(v)'
    /\ completed \subseteq completed'
    /\ \A c \in Ids :
        /\ Somewhere(c)' => Somewhere(c)
        /\ Somewhere(c) => Somewhere(c)' \/ MayBeLost(c)' \/ c \in completed'
        /\ c \in completed' => c \in completed \/ ~Somewhere(c)'

\* Only the end of run_co frees.
LEMMA Freed ==
  ASSUME NEW w \in Workers, WorkerStep(w)
  PROVE  completed' = completed \/ (Cleanup(w) /\ completed' = completed \union {hold[w]})
<1>1. CASE Cleanup(w)
  BY <1>1 DEF Cleanup
<1>2. CASE ~Cleanup(w)
  BY <1>2 DEF WorkerStep, RunLoop, Finish, Urg, Alrm, UrgIgnored, UrgInLoop, UrgPreempts,
     Boot, LoopGet, FetchRealtime, FetchRealtimeEnds, FetchGlobal, FetchGlobalEnds, Pick,
     Take, Resume, Mark, Enter, Swap, LockStats, Restore, Leave, AlrmReturns,
     AlrmInLoop, AlrmSwitches, markVars
<1> QED
  BY <1>1, <1>2

\* The step of a worker that is, or is thereby, struck.
LEMMA StruckKeeps ==
  ASSUME Safe, NEW w \in Workers, WorkerStep(w), Strikes(w), w \in struck' PROVE Keeps
<1>a. AllInv /\ TypeOK /\ AtHome /\ Untimed /\ struck \subseteq struck'
  BY DEF Safe, SoundInv, AllInv, TypeInv, Strikes
<1>b. UNCHANGED <<spc, job, ddl>>
  BY WorkerKeepsRequest DEF requestVars
<1>c. /\ ToSet(gq') \subseteq ToSet(gq)
      /\ rtq'[w] \subseteq rtq[w] /\ slot'[w] \in {slot[w], None}
      /\ \A v \in Workers \ {w} : rtq'[v] = rtq[v] /\ slot'[v] = slot[v]
  BY <1>a, SharedShrink, Elsewhere DEF Mine
<1>d. Sound' = Sound \ {w} /\ Sound' \subseteq Workers \ {w}
  BY DEF Sound, Strikes
<1>1. \A v \in Sound' : SafeOK(v)' /\ Spots(v)' = Spots(v)
  BY <1>a, <1>d, OthersSafe DEF Safe, SoundInv
<1>2. ASSUME NEW c \in Ids, Somewhere(c)' PROVE Somewhere(c)
  <2>1. CASE spc = "slot" /\ job = c
    BY <2>1 DEF Somewhere
  <2>2. CASE c \in ToSet(gq')
    BY <1>c, <2>2 DEF Somewhere
  <2>3. ASSUME NEW v \in Workers, c \in rtq'[v] \/ slot'[v] = c PROVE Somewhere(c)
    <3>1. c \in rtq[v] \/ slot[v] = c
      BY <1>c, <2>3 DEF None, Ids
    <3> QED
      BY <3>1 DEF Somewhere
  <2>4. ASSUME NEW v \in Sound', c \in Spots(v)' PROVE Somewhere(c)
    BY <1>1, <1>d, <2>4 DEF Somewhere
  <2> QED
    BY <1>2, <1>b, <2>1, <2>2, <2>3, <2>4 DEF Somewhere
<1>3. ASSUME NEW c \in Ids, Somewhere(c), ~Somewhere(c)' PROVE MayBeLost(c)'
  <2>1. CASE c \in ToSet(gq)
    BY <1>a, <1>b, <2>1 DEF Untimed, MayBeLost, IsRealtime
  <2>2. CASE c \in Reach(w)
    BY <1>a, <1>b, <2>2 DEF AtHome, MayBeLost, IsRealtime, Home
  <2>3. CASE c \notin ToSet(gq) /\ c \notin Reach(w)
    <3>1. ~(spc = "slot" /\ job = c)
      BY <1>3, <1>b DEF Somewhere
    <3>2. ASSUME NEW v \in Workers, c \in rtq[v] \/ slot[v] = c PROVE FALSE
      <4>1. v # w
        BY <2>3, <3>2 DEF Reach
      <4> QED
        BY <1>3, <1>c, <3>2, <4>1 DEF Somewhere
    <3>3. ASSUME NEW v \in Sound, c \in Spots(v) PROVE FALSE
      <4>1. v # w
        <5>1. Spots(w) \subseteq Owned(w)
          BY SpotsOwned
        <5> QED
          BY <2>3, <3>3, <5>1 DEF Reach
      <4> QED
        BY <1>1, <1>3, <1>d, <3>3, <4>1 DEF Somewhere
    <3> QED
      BY <1>3, <2>3, <3>1, <3>2, <3>3 DEF Somewhere
  <2> QED
    BY <2>1, <2>2, <2>3
<1>4. ASSUME NEW c \in Ids, c \in completed', c \notin completed PROVE ~Somewhere(c)'
  <2>1. Cleanup(w) /\ c = hold[w]
    BY <1>4, Freed
  <2>2. c \in Owned(w)
    BY <2>1 DEF Owned, Ids, None
  <2>3. /\ ~(spc = "slot" /\ job = c) /\ c \notin ToSet(gq)
        /\ \A v \in Workers : c \notin rtq[v] /\ slot[v] # c /\ (v # w => c \notin Owned(v))
    BY <1>a, <2>2, NowhereElse
  <2>4. \A v \in Sound' : c \notin Spots(v)'
    BY <1>1, <1>d, <2>3, SpotsOwned
  <2>5. \A v \in Workers : c \notin rtq'[v] /\ slot'[v] # c
    BY <1>c, <2>3 DEF None, Ids
  <2> QED
    BY <1>b, <1>c, <2>3, <2>4, <2>5 DEF Somewhere
<1>5. completed \subseteq completed'
  BY Freed
<1> QED
  BY <1>1, <1>2, <1>3, <1>4, <1>5 DEF Keeps

\* The worker's own places are as they were, or have got what another had.
LEMMA SameSpots ==
  ASSUME Safe, NEW w \in Sound, WorkerStep(w), UNCHANGED struck, Spots(w)' = Spots(w),
         UNCHANGED <<gq, rtq, slot>>, NEW c \in Ids
  PROVE  Somewhere(c)' <=> Somewhere(c)
<1>1. UNCHANGED <<spc, job>> /\ Sound' = Sound
  BY WorkerKeepsRequest DEF requestVars, Sound
<1>2. \A v \in Sound : Spots(v)' = Spots(v)
  BY OthersSafe DEF Sound, Safe, SoundInv
<1> QED
  BY <1>1, <1>2 DEF Somewhere

LEMMA MovedSpots ==
  ASSUME Safe, NEW w \in Sound, WorkerStep(w), UNCHANGED struck, NEW x \in Ids,
         Spots(w)' = Spots(w) \union {x},
         \/ /\ x \in rtq[w] /\ rtq' = [rtq EXCEPT ![w] = @ \ {x}] /\ UNCHANGED <<gq, slot>>
         \/ /\ x \in ToSet(gq) /\ ToSet(gq') = ToSet(gq) \ {x} /\ UNCHANGED <<rtq, slot>>
         \/ /\ x = slot[w] /\ slot' = [slot EXCEPT ![w] = None] /\ UNCHANGED <<gq, rtq>>,
         NEW c \in Ids
  PROVE  Somewhere(c)' <=> Somewhere(c)
<1>1. UNCHANGED <<spc, job>> /\ Sound' = Sound /\ w \in Workers
  BY WorkerKeepsRequest DEF requestVars, Sound
<1>2. \A v \in Sound \ {w} : Spots(v)' = Spots(v)
  BY OthersSafe DEF Sound, Safe, SoundInv
<1>3. slot \in [Workers -> Ids \union {None}] /\ rtq \in [Workers -> SUBSET Ids]
  BY DEF Safe, AllInv, TypeInv, TypeOK
<1>4. Somewhere(x)
  BY <1>1 DEF Somewhere
<1>5. Somewhere(x)'
  BY <1>1 DEF Somewhere
<1>6. ASSUME c # x PROVE Somewhere(c)' <=> Somewhere(c)
  <2>1. c \in ToSet(gq') <=> c \in ToSet(gq)
    BY <1>6
  <2>2. \A v \in Workers : (c \in rtq'[v] <=> c \in rtq[v]) /\ (slot'[v] = c <=> slot[v] = c)
    BY <1>1, <1>3, <1>6 DEF None, Ids
  <2>3. \A v \in Sound : c \in Spots(v)' <=> c \in Spots(v)
    BY <1>2, <1>6
  <2> QED
    BY <1>1, <2>1, <2>2, <2>3 DEF Somewhere
<1> QED
  BY <1>4, <1>5, <1>6

\* What a sound worker's step owes: nothing gets lost on the way, and only
\* Cleanup lets a coroutine go.
KeepsAll(w) ==
    /\ SafeOK(w)'
    /\ \/ /\ completed' = completed
          /\ \A c \in Ids : Somewhere(c)' <=> Somewhere(c)
       \/ \E x \in Ids :
            /\ completed' = completed \union {x} /\ ~Somewhere(x)'
            /\ \A c \in Ids \ {x} : Somewhere(c)' <=> Somewhere(c)

LEMMA SoundKeepsAll ==
  ASSUME Safe, NEW w \in Sound, WorkerStep(w), ~Strike(w), UNCHANGED struck
  PROVE  KeepsAll(w)
<1>a. TypeOK /\ w \in Workers /\ Fit(w)
  BY SoundFit DEF Safe, AllInv, TypeInv
<1>1. CASE QuietStep(w) \/ Pick(w) \/ (AlrmInLoop(w) /\ ret[w] \in SafePoints) \/ Take(w)
  <2>1. SafeOK(w)' /\ Spots(w)' = Spots(w) /\ UNCHANGED <<gq, rtq, slot, completed>>
    BY <1>a, <1>1, QuietSafe, ChooseSafe, TakeSafe
  <2> QED
    BY <2>1, SameSpots DEF KeepsAll
<1>2. CASE AlrmSwitches(w) /\ ret[w] \in SafePoints
  BY <1>a, <1>2, AlrmSwitchesSafe, SameSpots DEF KeepsAll
<1>3. CASE FetchRealtime(w)
  <2>1. SafeOK(w)' /\ UNCHANGED <<gq, slot, completed>>
    BY <1>a, <1>3, FetchRealtimeSafe
  <2>2. PICK x \in Ids : /\ x \in rtq[w] /\ rtq' = [rtq EXCEPT ![w] = @ \ {x}]
                        /\ Spots(w)' = Spots(w) \union {x}
    BY <1>a, <1>3, FetchRealtimeSafe DEF TypeOK
  <2> QED
    BY <2>1, <2>2, MovedSpots DEF KeepsAll
<1>4. CASE FetchGlobal(w)
  <2>1. SafeOK(w)' /\ UNCHANGED <<rtq, slot, completed>>
    BY <1>a, <1>4, FetchGlobalSafe
  <2>2. ToSet(gq) \subseteq Ids
    BY <1>a DEF TypeOK, ToSet
  <2>3. PICK x \in Ids : /\ x \in ToSet(gq) /\ ToSet(gq') = ToSet(gq) \ {x}
                        /\ Spots(w)' = Spots(w) \union {x}
    BY <1>a, <1>4, <2>2, FetchGlobalSafe
  <2> QED
    BY <2>1, <2>3, MovedSpots DEF KeepsAll
<1>5. CASE (UrgInLoop(w) \/ UrgPreempts(w)) /\ pc[w] \in SafePoints
  <2>1. /\ SafeOK(w)' /\ UNCHANGED <<gq, rtq, completed>>
        /\ slot[w] \in Ids /\ Spots(w)' = Spots(w) \union {slot[w]}
        /\ slot' = [slot EXCEPT ![w] = None]
    BY <1>a, <1>5, UrgInLoopSafe, UrgPreemptsSafe
  <2> QED
    BY <2>1, MovedSpots DEF KeepsAll
<1>6. CASE Cleanup(w)
  <2>1. /\ SafeOK(w)' /\ UNCHANGED <<gq, rtq, slot>>
        /\ hold[w] \in Spots(w) /\ Spots(w)' = Spots(w) \ {hold[w]}
        /\ completed' = completed \union {hold[w]}
    BY <1>a, <1>6, CleanupSafe
  <2>2. /\ UNCHANGED <<spc, job>> /\ Sound' = Sound
        /\ \A v \in Sound \ {w} : Spots(v)' = Spots(v)
    BY <1>a, WorkerKeepsRequest, OthersSafe DEF requestVars, Sound, Safe, SoundInv
  <2>3. PICK c \in Ids : c = hold[w]
    BY <1>6, <1>a DEF Cleanup, Safe, AllInv, TypeInv, HoldOK, Point, HandlerPoints
  <2>4. ~Somewhere(c)'
    <3>1. c \in Owned(w) /\ \A v \in Sound : v \in Workers /\ Spots(v) \subseteq Owned(v)
      BY <1>a, <2>1, <2>3, SpotsOwned DEF Sound
    <3>2. /\ ~(spc = "slot" /\ job = c) /\ c \notin ToSet(gq)
          /\ \A v \in Workers : c \notin rtq[v] /\ slot[v] # c /\ (v # w => c \notin Owned(v))
      BY <1>a, <3>1, NowhereElse DEF Safe
    <3> QED
      BY <2>1, <2>2, <2>3, <3>1, <3>2 DEF Somewhere
  <2>5. \A d \in Ids \ {c} : Somewhere(d)' <=> Somewhere(d)
    BY <2>1, <2>2, <2>3 DEF Somewhere
  <2> QED
    BY <2>1, <2>3, <2>4, <2>5 DEF KeepsAll
<1> QED
  BY <1>1, <1>2, <1>3, <1>4, <1>5, <1>6 DEF WorkerStep, RunLoop, Urg, QuietStep, Strike

LEMMA WorkerKeeps ==
  ASSUME Safe, NEW w \in Workers, WorkerStep(w), Strikes(w) PROVE Keeps
<1>1. CASE w \in struck'
  BY <1>1, StruckKeeps
<1>2. CASE w \notin struck'
  <2>1. w \in Sound /\ ~Strike(w) /\ UNCHANGED struck /\ Sound' = Sound
    BY <1>2 DEF Strikes, Sound
  <2>2. KeepsAll(w)
    BY <2>1, SoundKeepsAll
  <2>3. \A v \in Sound : SafeOK(v)'
    <3>1. \A v \in Sound \ {w} : v \in Workers \ {w} /\ SafeOK(v)
      BY DEF Sound, Safe, SoundInv
    <3> QED
      BY <2>2, <3>1, OthersSafe DEF KeepsAll, Safe
  <2>4. FreedOut /\ completed \subseteq Ids
    BY DEF Safe, SoundInv, AllInv, TypeInv, TypeOK
  <2> QED
    BY <2>1, <2>2, <2>3, <2>4 DEF Keeps, KeepsAll, FreedOut
<1> QED
  BY <1>1, <1>2

LEMMA TimedWorker ==
  ASSUME TypeOK, Timed, NEW w \in Workers, WorkerStep(w) PROVE Timed'
<1>1. UNCHANGED <<spc, job, verdict, ddl>>
  BY WorkerKeepsRequest DEF requestVars
<1>2. \A v \in Workers \ {w} : UNCHANGED <<slot[v], rtq[v], rt[v]>>
  BY Elsewhere DEF Mine
<1>3. (slot'[w] = None \/ slot'[w] = slot[w]) /\ \A c \in rtq'[w] \union rt'[w] : IsRealtime(c)
  <2>1. \A c \in rtq[w] \union rt[w] : IsRealtime(c)
    BY DEF Timed
  <2> USE DEF TypeOK, schedulerVars, queueVars
  <2>2. CASE FetchRealtime(w)
    BY <2>1, <2>2, EarliestInside DEF FetchRealtime
  <2>3. ASSUME NEW tail, SetCurr(w, tail) PROVE rt'[w] \subseteq rt[w]
    BY <2>3 DEF SetCurr, ChooseRealtime, ChooseNew, ChooseSuspended, ChooseNothing
  <2>4. CASE Pick(w) \/ AlrmInLoop(w) \/ AlrmSwitches(w)
    BY <2>1, <2>3, <2>4 DEF Pick, AlrmInLoop, AlrmSwitches
  <2>5. CASE UrgInLoop(w)
    BY <2>1, <2>5 DEF UrgInLoop, TakeSlot
  <2>6. CASE UrgPreempts(w)
    BY <2>1, <2>6 DEF UrgPreempts, TakeSlot
  <2>7. CASE QuietStep(w) \/ Take(w) \/ Cleanup(w) \/ FetchGlobal(w)
    BY <2>1, <2>7 DEF QuietStep, Take, Cleanup, FetchGlobal, Boot, LoopGet, FetchRealtimeEnds,
       FetchGlobalEnds, Resume, Mark, Enter, Swap, Finish, LockStats, Restore, Leave, Alrm,
       AlrmReturns, UrgIgnored
  <2> QED
    BY <2>2, <2>4, <2>5, <2>6, <2>7 DEF WorkerStep, RunLoop, Urg, QuietStep
<1> QED
  BY <1>1, <1>2, <1>3 DEF Timed, IsRealtime

\* A worker that is not struck stays at the critical section until Restore.
LEMMA StatsStay ==
  ASSUME TypeOK, NEW w \in Workers, WorkerStep(w), ~Strike(w), Point(w) = "stats"
  PROVE  Restore(w) \/ (hold'[w] = hold[w] /\ Point(w)' = "stats")
<1>1. CASE pc[w] = "stats"
  <2>1. Restore(w) \/ UrgIgnored(w) \/ Alrm(w)
    BY <1>1 DEF WorkerStep, RunLoop, Finish, Urg, Strike, SafePoints,
       Boot, LoopGet, FetchRealtime, FetchRealtimeEnds, FetchGlobal, FetchGlobalEnds, Pick,
       Take, Resume, Mark, Enter, Swap, LockStats, Leave, Cleanup, AlrmReturns,
       AlrmInLoop, AlrmSwitches
  <2> QED
    BY <1>1, <2>1 DEF UrgIgnored, Alrm, loopVars, Point, HandlerPoints, TypeOK
<1>2. CASE pc[w] # "stats"
  <2>1. pc[w] \in HandlerPoints /\ ret[w] = "stats"
    BY <1>2 DEF Point
  <2>2. \/ FetchRealtime(w) \/ FetchRealtimeEnds(w) \/ FetchGlobal(w) \/ FetchGlobalEnds(w)
        \/ AlrmReturns(w)
    <3>1. pc[w] \notin LoopPoints \union TaskPoints \union {"boot"}
      BY <2>1 DEF HandlerPoints, LoopPoints, TaskPoints
    <3> QED
      BY <2>1, <3>1, SchedAssumption DEF WorkerStep, RunLoop, Finish, Urg, Alrm, Strike,
         SafePoints, UrgIgnored, UrgInLoop, UrgPreempts, Boot, LoopGet, Pick, Take, Resume,
         Mark, Enter, Swap, LockStats, Restore, Leave, Cleanup, LoopPoints, TaskPoints
  <2> QED
    BY <2>1, <2>2 DEF FetchRealtime, FetchRealtimeEnds, FetchGlobal, FetchGlobalEnds,
       AlrmReturns, loopVars, Point, HandlerPoints, TypeOK
<1> QED
  BY <1>1, <1>2

LEMMA LatencyWorker ==
  ASSUME Safe, NEW w \in Workers, WorkerStep(w), Strikes(w)
  PROVE  LatencyHolderRuns' /\ HolderMade'
<1>a. /\ TypeOK /\ TypeInv /\ OwnInv /\ AtHome /\ HolderMade /\ LatencyHolderRuns
      /\ struck \subseteq struck' /\ None \notin Ids
  BY DEF Safe, SoundInv, AllInv, TypeInv, Strikes, None, Ids
<1>b. UNCHANGED ddl
  BY WorkerKeepsRequest DEF requestVars
<1>1. CASE LockStats(w)
  <2>1. latency' = hold[w] /\ hold'[w] = hold[w] /\ pc'[w] = "stats" /\ st' = st
    BY <1>a, <1>1 DEF LockStats, TypeOK
  <2>2. hold[w] \in Ids /\ st[hold[w]] # "NONE"
    <3>1. hold[w] \in Ids
      BY <1>a, <1>1 DEF LockStats, TypeInv, HoldOK, Point, HandlerPoints, TaskPoints
    <3>2. Zone(hold[w], "own", w) /\ "own" \in Kinds
      BY <1>a, <3>1 DEF Zone, Owned, Kinds
    <3> QED
      BY <1>a, <3>1, <3>2 DEF OwnInv, Created
  <2>3. Point(w)' = "stats"
    BY <2>1 DEF Point, HandlerPoints
  <2> QED
    BY <2>1, <2>2, <2>3 DEF LatencyHolderRuns, HolderMade
<1>2. CASE ~LockStats(w)
  <2>1. latency' = latency \/ latency' = None
    BY <1>2 DEF WorkerStep, RunLoop, Finish, Urg, Alrm, UrgIgnored, UrgInLoop, UrgPreempts,
       Boot, LoopGet, FetchRealtime, FetchRealtimeEnds, FetchGlobal, FetchGlobalEnds, Pick,
       Take, Resume, Mark, Enter, Swap, Restore, Leave, Cleanup, AlrmReturns,
       AlrmInLoop, AlrmSwitches, taskVars
  <2>2. CASE latency' = None
    BY <2>2 DEF LatencyHolderRuns, HolderMade
  <2>3. CASE latency' # None
    <3>1. PICK c \in Ids : c = latency
      BY <1>a, <2>1, <2>3 DEF TypeOK
    <3>2. latency' = c /\ c # None
      BY <1>a, <2>1, <2>3, <3>1
    <3>3. HolderMade'
      <4>1. st[c] # "NONE"
        BY <1>a, <3>1, <3>2 DEF HolderMade
      <4>2. st'[c] # "NONE"
        BY <1>a, <4>1, StatusKept DEF OwnInv
      <4> QED
        BY <3>2, <4>2 DEF HolderMade
    <3>4. MayBeLost(c) => MayBeLost(c)'
      BY <1>a, <1>b DEF MayBeLost, IsRealtime, Home
    <3>5. ASSUME NEW v \in Workers, hold[v] = c, Point(v) = "stats"
          PROVE  MayBeLost(c)' \/ (hold'[v] = c /\ Point(v)' = "stats")
      <4>1. CASE v # w
        BY <1>a, <3>5, <4>1, Elsewhere DEF Mine, Point
      <4>2. CASE v = w /\ w \in struck'
        <5>1. c \in Reach(w)
          BY <3>2, <3>5, <4>2 DEF Reach, Owned
        <5> QED
          BY <1>a, <1>b, <4>2, <5>1 DEF AtHome, MayBeLost, IsRealtime, Home
      <4>3. CASE v = w /\ w \notin struck'
        <5>1. ~Strike(w)
          BY <4>3 DEF Strikes
        <5>2. ~Restore(w)
          BY <2>3 DEF Restore
        <5> QED
          BY <1>a, <3>5, <4>3, <5>1, <5>2, StatsStay
      <4> QED
        BY <4>1, <4>2, <4>3
    <3>6. MayBeLost(c)' \/ \E v \in Workers : hold'[v] = c /\ Point(v)' = "stats"
      <4>1. MayBeLost(c) \/ \E v \in Workers : hold[v] = c /\ Point(v) = "stats"
        BY <1>a, <3>1, <3>2 DEF LatencyHolderRuns
      <4> QED
        BY <3>4, <3>5, <4>1
    <3>7. MayBeLost(c)' => MayBeLost(latency)'
      BY <3>2 DEF MayBeLost, IsRealtime, Home
    <3> QED
      BY <3>2, <3>3, <3>6, <3>7 DEF LatencyHolderRuns
  <2> QED
    BY <2>2, <2>3
<1> QED
  BY <1>1, <1>2

LEMMA SoundWorker ==
  ASSUME Safe, NEW w \in Workers, WorkerStep(w), Strikes(w) PROVE SoundInv'
<1>1. Keeps
  BY WorkerKeeps
<1>2. /\ Timed' /\ AtHome' /\ Untimed' /\ LatencyHolderRuns' /\ HolderMade'
      /\ struck' \subseteq Workers
  BY TimedWorker, HomeWorker, LatencyWorker DEF Safe, SoundInv, AllInv, TypeInv, Strikes
<1>3. completed \subseteq Ids /\ completed' \subseteq Ids /\ Found /\ FreedOut
  <2>1. TypeOK'
    BY TypeStep DEF Next, Safe, AllInv, TypeInv
  <2> QED
    BY <2>1 DEF Safe, SoundInv, AllInv, TypeInv, TypeOK
<1>4. \A c \in Ids : (st'[c] = "NONE" <=> st[c] = "NONE") /\ dropped' = dropped
  BY StatusKept, DroppedKept DEF Safe, AllInv, OwnInv
<1>5. \A c \in Ids : MayBeLost(c) => MayBeLost(c)'
  BY WorkerKeepsRequest DEF MayBeLost, IsRealtime, Home, Strikes, requestVars
<1>6. Found'
  <2> SUFFICES ASSUME NEW c \in Ids, ~Gone(c)' PROVE Somewhere(c)' \/ MayBeLost(c)'
    BY DEF Found
  <2>1. ~Gone(c) /\ c \notin completed'
    BY <1>1, <1>4 DEF Gone, Keeps
  <2>2. Somewhere(c) \/ MayBeLost(c)
    BY <1>3, <2>1 DEF Found
  <2> QED
    BY <1>1, <1>5, <2>1, <2>2 DEF Keeps
<1>7. FreedOut'
  BY <1>1, <1>3 DEF Keeps, FreedOut
<1> QED
  BY <1>1, <1>2, <1>6, <1>7 DEF SoundInv, Keeps

---------------------------------------------------------------------------
(* The scheduler thread *)

LEMMA TimedScheduler ==
  ASSUME TypeInv, OwnInv, Timed, Request \/ SchedulerStep PROVE Timed'
<1>1. nextId \in Ids => st[nextId] = "NONE"
  BY DEF OwnInv, Fresh, Ids
<1>2. \A w \in Workers, c \in Ids : c = slot[w] \/ c \in rtq[w] \union rt[w] => st[c] # "NONE"
  <2> SUFFICES ASSUME NEW w \in Workers, NEW c \in Ids, c = slot[w] \/ c \in rtq[w] \union rt[w]
               PROVE  \E k \in Kinds : Zone(c, k, w)
    BY DEF OwnInv, Created
  <2> QED
    BY DEF Zone, Kinds, Owned
<1> USE DEF TypeInv, TypeOK, Timed, IsRealtime, schedulerVars, queueVars
<1>3. UNCHANGED rt
  BY DEF Request, RequestNrt, RequestRt, SchedulerStep, Snapshot, Decide, Reject, Admit,
     Retry, Instantiate, InstantiateFails, NoteSchedulable, SpawnNrt, SpawnSchedulable,
     SpawnPreemptive, SetSlot, Signal
<1>4. ASSUME NEW d \in Deadlines, RequestRt(d) PROVE Timed'
  <2>1. /\ nextId \in Ids /\ ddl' = [ddl EXCEPT ![nextId] = d] /\ d # NotRealtime
        /\ job' = nextId /\ spc' = "admit" /\ UNCHANGED <<slot, rtq, rt>>
    BY <1>4 DEF RequestRt, Ids, NotRealtime
  <2>2. \A w \in Workers, c \in Ids :
          c = slot[w] \/ c \in rtq[w] \union rt[w] => c # nextId /\ ddl'[c] = ddl[c]
    BY <1>1, <1>2, <2>1
  <2>3. ddl'[nextId] = d /\ nextId # None
    BY <2>1 DEF Ids, None
  <2>4. ASSUME NEW w \in Workers
        PROVE  /\ slot[w] # None => IsRealtime(slot[w])'
               /\ \A c \in rtq[w] \union rt[w] : IsRealtime(c)'
    BY <2>1, <2>2
  <2> QED
    BY <2>1, <2>3, <2>4
<1>5. CASE RequestNrt \/ Snapshot \/ Decide \/ Retry \/ Instantiate \/ InstantiateFails
  BY <1>5 DEF RequestNrt, Snapshot, Decide, Reject, Admit, Retry, Instantiate, InstantiateFails
<1>6. CASE SpawnNrt \/ NoteSchedulable \/ SpawnPreemptive \/ Signal
  BY <1>6 DEF SpawnNrt, NoteSchedulable, SpawnPreemptive, Signal, Done
<1>7. CASE SpawnSchedulable
  BY <1>7 DEF SpawnSchedulable
<1>8. CASE SetSlot
  BY <1>8 DEF SetSlot
<1> QED
  BY <1>4, <1>5, <1>6, <1>7, <1>8 DEF Request, SchedulerStep

\* Only a request with a deadline sets one, of an id that is nowhere yet.
LEMMA DeadlineSet ==
  ASSUME TypeOK, Fresh, Request \/ SchedulerStep
  PROVE  /\ \A c \in Ids : st[c] # "NONE" => ddl'[c] = ddl[c]
         /\ \A c \in Ids : c >= nextId' => ddl'[c] = ddl[c] /\ c >= nextId
<1>1. ASSUME NEW d \in Deadlines, RequestRt(d), NEW c \in Ids
      PROVE  /\ st[c] # "NONE" => ddl'[c] = ddl[c]
             /\ c >= nextId' => ddl'[c] = ddl[c] /\ c >= nextId
  <2>1. st[c] # "NONE" => c # nextId
    BY <1>1 DEF Fresh, TypeOK
  <2>2. nextId' = nextId + 1 /\ nextId \in Nat /\ c \in Nat
    BY <1>1 DEF RequestRt, TypeOK, Ids
  <2> QED
    BY <1>1, <2>1, <2>2 DEF RequestRt, TypeOK
<1>2. CASE RequestNrt \/ SchedulerStep
  <2>1. UNCHANGED ddl /\ nextId \in Nat /\ (nextId' = nextId \/ nextId' = nextId + 1)
    BY <1>2 DEF RequestNrt, SchedulerStep, Snapshot, Decide, Reject, Admit,
       Retry, Instantiate, InstantiateFails, NoteSchedulable, SpawnNrt, SpawnSchedulable,
       SpawnPreemptive, SetSlot, Signal, TypeOK
  <2>2. \A c \in Ids : c \in Nat
    BY DEF Ids
  <2> QED
    BY <2>1, <2>2
<1> QED
  BY <1>1, <1>2 DEF Request

\* The shared places after a step of the scheduler thread.
LEMMA SharedGains ==
  ASSUME TypeInv, Request \/ SchedulerStep, NEW w \in Workers, NEW c \in Ids
  PROVE  /\ UNCHANGED <<pc, ret, curr, cur, hold, newq, suspq, rt, len, completed, latency>>
         /\ Owned(w)' = Owned(w)
         /\ c \in ToSet(gq') => c \in ToSet(gq) \/ c = nextId
         /\ c \in rtq'[w] => c \in rtq[w] \/ Home(c) = w
         /\ c = slot'[w] => c = slot[w] \/ Home(c) = w
<1> USE DEF TypeInv, TypeOK, schedulerVars
<1>1. UNCHANGED <<pc, ret, curr, cur, hold, newq, suspq, rt, len, completed, latency>>
  BY DEF Request, RequestNrt, RequestRt, SchedulerStep, Snapshot, Decide, Reject, Admit,
     Retry, Instantiate, InstantiateFails, NoteSchedulable, SpawnNrt, SpawnSchedulable,
     SpawnPreemptive, SetSlot, Signal, loopVars, queueVars, markVars, taskVars
<1>2. Owned(w)' = Owned(w)
  BY <1>1 DEF Owned
<1>3. CASE SpawnNrt
  <2>1. nextId \in Ids /\ gq' = Append(gq, nextId) /\ UNCHANGED <<rtq, slot>> /\ gq \in Seq(Ids)
    BY <1>3 DEF SpawnNrt, JobOK
  <2> QED
    BY <1>1, <1>2, <2>1, AppendRange
<1>4. CASE SpawnSchedulable
  <2>1. job \in Ids /\ rtq' = [rtq EXCEPT ![Home(job)] = @ \union {job}] /\ UNCHANGED <<gq, slot>>
    BY <1>4 DEF SpawnSchedulable, JobOK
  <2> QED
    BY <1>1, <1>2, <2>1
<1>5. CASE SetSlot
  <2>1. /\ UNCHANGED <<gq, rtq>>
        /\ slot' = slot \/ slot' = [slot EXCEPT ![Home(job)] = job]
    BY <1>5 DEF SetSlot
  <2> QED
    BY <1>1, <1>2, <2>1
<1>6. CASE ~(SpawnNrt \/ SpawnSchedulable \/ SetSlot)
  <2>1. UNCHANGED <<gq, rtq, slot>>
    BY <1>6 DEF Request, RequestNrt, RequestRt, SchedulerStep, Snapshot, Decide, Reject, Admit,
       Retry, Instantiate, InstantiateFails, NoteSchedulable, SpawnPreemptive, Signal
  <2> QED
    BY <1>1, <1>2, <2>1
<1> QED
  BY <1>3, <1>4, <1>5, <1>6

LEMMA HomeScheduler ==
  ASSUME TypeInv, OwnInv, AtHome, Untimed, Request \/ SchedulerStep PROVE AtHome' /\ Untimed'
<1>a. TypeOK /\ Fresh /\ None \notin Ids
  BY DEF TypeInv, OwnInv, None, Ids
<1>b. ASSUME NEW c \in Ids, c \in ToSet(gq) \/ \E w \in Workers : c \in Reach(w)
      PROVE  st[c] # "NONE"
  <2>1. \E k \in Kinds, w \in Workers : Zone(c, k, w)
    BY <1>a, <1>b DEF Reach, Zone, Kinds, Workers
  <2> QED
    BY <2>1 DEF OwnInv, Created
<1>1. ASSUME NEW w \in Workers, NEW c \in Reach(w)', IsRealtime(c)' PROVE Home(c) = w
  <2>1. c \in Ids
    <3>1. TypeOK'
      BY TypeScheduler DEF TypeInv
    <3>2. newq'[w] \in Seq(Ids) /\ suspq'[w] \in Seq(Ids)
      BY <3>1 DEF TypeOK
    <3>3. ToSet(newq'[w]) \subseteq Ids /\ ToSet(suspq'[w]) \subseteq Ids
      BY <3>2 DEF ToSet
    <3>4. Reach(w)' \subseteq Ids \union {None}
      BY <3>1, <3>3 DEF Reach, Owned, TypeOK
    <3> QED
      BY <1>1, <3>4 DEF IsRealtime
  <2>2. c \in Reach(w) \/ Home(c) = w
    BY <1>1, <2>1, SharedGains DEF Reach
  <2>3. CASE c \in Reach(w)
    <3>1. ddl'[c] = ddl[c]
      BY <1>a, <1>b, <2>1, <2>3, DeadlineSet
    <3> QED
      BY <1>1, <2>3, <3>1 DEF AtHome, IsRealtime
  <2> QED
    BY <2>2, <2>3
<1>2. ASSUME NEW c \in Ids, c >= nextId' PROVE ~IsRealtime(c)'
  BY <1>a, <1>2, DeadlineSet DEF Untimed, IsRealtime
<1>3. ASSUME NEW c \in ToSet(gq') PROVE ~IsRealtime(c)'
  <2>1. c \in Ids
    <3>1. gq' \in Seq(Ids)
      BY TypeScheduler DEF TypeInv, TypeOK
    <3> QED
      BY <1>3, <3>1 DEF ToSet
  <2>2. CASE c \in ToSet(gq)
    <3>1. ddl'[c] = ddl[c]
      BY <1>a, <1>b, <2>1, <2>2, DeadlineSet
    <3> QED
      BY <2>2, <3>1 DEF Untimed, IsRealtime
  <2>3. CASE c \notin ToSet(gq)
    <3>1. gq' # gq
      BY <1>3, <2>3
    <3>2. SpawnNrt
      BY <3>1 DEF Request, RequestNrt, RequestRt, SchedulerStep, Snapshot, Decide, Reject, Admit,
         Retry, Instantiate, InstantiateFails, NoteSchedulable, SpawnSchedulable, SetSlot,
         SpawnPreemptive, Signal, schedulerVars
    <3>3. UNCHANGED ddl /\ 0 \in Workers
      BY <3>2 DEF SpawnNrt, Workers
    <3>4. c = nextId
      BY <1>3, <2>1, <2>3, <3>3, SharedGains
    <3>5. c >= nextId
      BY <2>1, <3>4 DEF Ids
    <3> QED
      BY <2>1, <3>3, <3>5 DEF Untimed, IsRealtime
  <2> QED
    BY <2>2, <2>3
<1>4. AtHome'
  BY <1>1 DEF AtHome, Home
<1>5. Untimed'
  BY <1>2, <1>3 DEF Untimed
<1> QED
  BY <1>4, <1>5
\* A coroutine that is made is somewhere; one that exists stays where it is, but
\* for the hand-over, which may drop it.
LEMMA SchedulerKeeps ==
  ASSUME Safe, Request \/ SchedulerStep, UNCHANGED struck,
         \A w \in Sound : Spots(w)' = Spots(w), NEW c \in Ids
  PROVE  /\ st'[c] # "NONE" /\ st[c] = "NONE" => Somewhere(c)'
         /\ st[c] # "NONE" => (Somewhere(c)' => Somewhere(c))
         /\ st[c] # "NONE" /\ Somewhere(c) => Somewhere(c)' \/ c \in dropped'
<1>1. TypeOK /\ JobOK /\ Fresh /\ Sound' = Sound
  BY DEF Safe, AllInv, TypeInv, OwnInv, Sound
<1> USE DEF schedulerVars, taskVars
<1>2. CASE SpawnNrt
  <2>1. /\ gq' = Append(gq, nextId) /\ st' = [st EXCEPT ![nextId] = "PENDING"]
        /\ UNCHANGED <<rtq, slot>> /\ spc # "slot" /\ spc' # "slot"
        /\ nextId \in Ids /\ st[nextId] = "NONE" /\ gq \in Seq(Ids)
    BY <1>1, <1>2 DEF SpawnNrt, Done, JobOK, Fresh, TypeOK
  <2>2. ToSet(gq') = ToSet(gq) \union {nextId}
    BY <2>1, AppendRange
  <2> QED
    BY <1>1, <2>1, <2>2 DEF Somewhere, TypeOK
<1>3. CASE SpawnSchedulable
  <2>1. /\ rtq' = [rtq EXCEPT ![Home(job)] = @ \union {job}]
        /\ st' = [st EXCEPT ![job] = "PENDING"]
        /\ UNCHANGED <<gq, slot>> /\ spc # "slot" /\ spc' # "slot"
        /\ job \in Ids /\ st[job] = "NONE"
    BY <1>1, <1>3 DEF SpawnSchedulable, JobOK, Fresh
  <2>2. Home(job) \in Workers
    BY <2>1, HomeInWorkers
  <2> QED
    BY <1>1, <2>1, <2>2 DEF Somewhere, TypeOK
<1>4. CASE SpawnPreemptive
  <2>1. /\ UNCHANGED <<gq, rtq, slot, job>> /\ spc # "slot" /\ spc' = "slot"
        /\ st' = [st EXCEPT ![job] = "PENDING"] /\ job \in Ids /\ st[job] = "NONE"
    BY <1>1, <1>4 DEF SpawnPreemptive, JobOK, Fresh
  <2> QED
    BY <1>1, <2>1 DEF Somewhere, TypeOK
<1>5. CASE SetSlot
  <2>1. /\ UNCHANGED <<gq, rtq, job, st>> /\ spc = "slot" /\ spc' = "signal" /\ job \in Ids
        /\ \/ slot[Home(job)] = None /\ slot' = [slot EXCEPT ![Home(job)] = job]
           \/ slot' = slot /\ job \in dropped'
    BY <1>1, <1>5 DEF SetSlot, JobOK
  <2>2. Home(job) \in Workers
    BY <2>1, HomeInWorkers
  <2> QED
    BY <1>1, <2>1, <2>2 DEF Somewhere, TypeOK, Ids, None
<1>6. CASE ~(SpawnNrt \/ SpawnSchedulable \/ SpawnPreemptive \/ SetSlot)
  <2>1. UNCHANGED <<gq, rtq, slot, st>> /\ spc # "slot" /\ spc' # "slot"
    BY <1>6 DEF Request, RequestNrt, RequestRt, SchedulerStep, Snapshot, Decide, Reject, Admit,
       Retry, Instantiate, InstantiateFails, NoteSchedulable, Signal, Done
  <2> QED
    BY <1>1, <2>1 DEF Somewhere
<1> QED
  BY <1>2, <1>3, <1>4, <1>5, <1>6

LEMMA SoundScheduler ==
  ASSUME Safe, Request \/ SchedulerStep, UNCHANGED struck PROVE SoundInv'
<1>1. UNCHANGED <<completed, pc, ret, curr, cur, hold, newq, suspq, rt, len, latency>>
  <2>1. 0 \in Workers
    BY DEF Workers
  <2> QED
    BY <2>1 DEF Request, RequestNrt, RequestRt, SchedulerStep, Snapshot, Decide, Reject, Admit,
     Retry, Instantiate, InstantiateFails, NoteSchedulable, SpawnNrt, SpawnSchedulable,
     SpawnPreemptive, SetSlot, Signal, loopVars, queueVars, markVars, taskVars
<1>2. TypeInv /\ OwnInv /\ Timed /\ AtHome /\ Untimed /\ TypeOK /\ HoldOK /\ Fresh
  BY DEF Safe, SoundInv, AllInv, TypeInv, OwnInv
<1>3. Timed' /\ AtHome' /\ Untimed' /\ Sound' = Sound
  BY <1>2, TimedScheduler, HomeScheduler DEF Sound
<1>4. \A c \in Ids : st'[c] = st[c] \/ (st[c] = "NONE" /\ st'[c] = "PENDING")
  BY LifeAside DEF Safe
<1>5. \A c \in Ids : st[c] # "NONE" => ddl'[c] = ddl[c]
  BY <1>2, DeadlineSet
<1>6. ASSUME NEW w \in Sound PROVE SafeOK(w)' /\ Spots(w)' = Spots(w)
  <2>1. /\ SafeOK(w) /\ Point(w)' = Point(w) /\ Queued(w)' = Queued(w) /\ Waiting(w)' = Waiting(w)
        /\ w \in Workers
    BY <1>1 DEF Safe, SoundInv, Point, Queued, Waiting, Sound
  <2>2. \A c \in Ids : c \in {curr[w], hold[w]} => st[c] # "NONE"
    BY <1>2, <2>1 DEF OwnInv, Created, Zone, Kinds, Owned, Ids, None
  <2>3. hold[w] \in Ids => st'[hold[w]] = st[hold[w]] /\ (IsRealtime(hold[w])' <=> IsRealtime(hold[w]))
    BY <1>1, <1>4, <1>5, <2>2 DEF IsRealtime
  <2>4. curr[w] \in Ids => (IsRealtime(curr[w])' <=> IsRealtime(curr[w]))
    BY <1>1, <1>5, <2>2 DEF IsRealtime
  <2>5. /\ Point(w) \in {"resume", "mark", "enter", "entered", "body", "returned"} => hold[w] \in Ids
        /\ pc[w] \in {"resume", "mark", "enter", "entered", "body", "returned"} => Point(w) = pc[w]
        /\ curr[w] # None => curr[w] \in Ids
    BY <1>2, <2>1 DEF HoldOK, TaskPoints, Point, HandlerPoints, TypeOK
  <2>6. (Requeued(w)' <=> Requeued(w)) /\ Hand(w)' = Hand(w)
    BY <1>1, <2>1, <2>3, <2>5 DEF Requeued, Hand
  <2>7. Control(w)'
    BY <1>1, <2>1, <2>3, <2>5 DEF SafeOK, Control
  <2>8. Separate(w)' /\ Spots(w)' = Spots(w)
    BY <1>1, <2>1, <2>6 DEF SafeOK, Separate, QueuesApart, Spots
  <2>9. Counted(w)'
    BY <1>1, <2>1, <2>6 DEF SafeOK, Counted
  <2>10. Yields(w)'
    BY <1>1, <2>1, <2>3, <2>4, <2>5 DEF SafeOK, Yields
  <2> QED
    BY <2>7, <2>8, <2>9, <2>10 DEF SafeOK
<1>7. \A c \in Ids : st[c] # "NONE" => (MayBeLost(c)' <=> MayBeLost(c))
  BY <1>5 DEF MayBeLost, IsRealtime, Home
<1>8. LatencyHolderRuns' /\ HolderMade'
  <2>1. LatencyHolderRuns /\ HolderMade /\ latency \in Ids \union {None}
    BY <1>2 DEF Safe, SoundInv, TypeOK
  <2>2. CASE latency = None
    BY <1>1, <2>2 DEF LatencyHolderRuns, HolderMade
  <2>3. ASSUME NEW c \in Ids, latency = c, c # None PROVE LatencyHolderRuns' /\ HolderMade'
    <3>1. latency' = c /\ st[c] # "NONE" /\ st'[c] # "NONE"
      BY <1>1, <1>4, <2>1, <2>3 DEF HolderMade
    <3>2. \/ \E v \in Workers : hold'[v] = c /\ Point(v)' = "stats"
          \/ MayBeLost(c)'
      <4>1. \A v \in Workers : Point(v)' = Point(v)
        BY <1>1 DEF Point
      <4>2. \/ \E v \in Workers : hold[v] = c /\ Point(v) = "stats"
            \/ MayBeLost(c)
        BY <2>1, <2>3 DEF LatencyHolderRuns
      <4> QED
        BY <1>1, <1>7, <3>1, <4>1, <4>2
    <3>3. MayBeLost(c)' => MayBeLost(latency)'
      BY <3>1 DEF MayBeLost, IsRealtime, Home
    <3> QED
      BY <3>1, <3>2, <3>3 DEF LatencyHolderRuns, HolderMade
  <2> QED
    BY <2>1, <2>2, <2>3
<1>9. Found'
  <2>1. dropped \subseteq dropped'
    BY DEF Request, RequestNrt, RequestRt, SchedulerStep, Snapshot, Decide, Reject, Admit,
       Retry, Instantiate, InstantiateFails, NoteSchedulable, SpawnNrt, SpawnSchedulable,
       SpawnPreemptive, SetSlot, Signal, schedulerVars
  <2> SUFFICES ASSUME NEW c \in Ids, ~Gone(c)' PROVE Somewhere(c)' \/ MayBeLost(c)'
    BY DEF Found
  <2>2. st'[c] # "NONE" /\ c \notin completed /\ c \notin dropped /\ c \notin dropped'
    BY <1>1, <2>1 DEF Gone
  <2>3. CASE st[c] = "NONE"
    BY <1>6, <2>2, <2>3, SchedulerKeeps
  <2>4. CASE st[c] # "NONE"
    <3>1. Somewhere(c) \/ MayBeLost(c)
      BY <2>2, <2>4 DEF Safe, SoundInv, Found, Gone
    <3> QED
      BY <1>6, <1>7, <2>2, <2>4, <3>1, SchedulerKeeps
  <2> QED
    BY <2>3, <2>4
<1>10. FreedOut'
  <2>1. \A c \in completed : c \in Ids /\ st[c] # "NONE" /\ ~Somewhere(c)
    BY DEF Safe, SoundInv, FreedOut, AllInv, TypeInv, TypeOK, LifeInv, FreedDone
  <2> QED
    BY <1>1, <1>6, <2>1, SchedulerKeeps DEF FreedOut
<1> QED
  BY <1>3, <1>6, <1>8, <1>9, <1>10 DEF SoundInv, Safe

---------------------------------------------------------------------------
LEMMA SoundInit == StrikeInit => SoundInv
<1> SUFFICES ASSUME Init, struck = {} PROVE SoundInv
  BY DEF StrikeInit
<1>1. ASSUME NEW w \in Workers PROVE SafeOK(w) /\ Spots(w) = {}
  <2>1. /\ newq[w] = <<>> /\ suspq[w] = <<>> /\ rt[w] = {} /\ curr[w] = None /\ hold[w] = None
        /\ pc[w] = "boot" /\ len[w] = 0
    BY DEF Init
  <2>2. Queued(w) = {} /\ Hand(w) = None /\ ~Requeued(w) /\ Waiting(w) = 0
    BY <2>1, EmptyRange, FS_EmptySet DEF Queued, Hand, Requeued, Waiting, Point, HandlerPoints
  <2>3. Control(w) /\ Yields(w)
    BY <2>1 DEF Control, Yields, Point, HandlerPoints
  <2>4. Separate(w) /\ Spots(w) = {}
    BY <2>1, <2>2, EmptyRange DEF Separate, QueuesApart, Spots
  <2>5. Counted(w)
    BY <2>1, <2>2 DEF Counted, One
  <2> QED
    BY <2>3, <2>4, <2>5 DEF SafeOK
<1>2. Timed /\ Untimed /\ Found /\ FreedOut /\ HolderMade /\ LatencyHolderRuns
  <2>1. Untimed
    BY EmptyRange DEF Init, Untimed, IsRealtime
  <2> QED
    BY <2>1 DEF Init, Timed, Found, FreedOut, HolderMade, LatencyHolderRuns, Gone
<1>3. AtHome
  <2>1. \A w \in Workers : Reach(w) \subseteq {None}
    BY EmptyRange DEF Init, Reach, Owned
  <2> QED
    BY <2>1 DEF AtHome, IsRealtime
<1> QED
  BY <1>1, <1>2, <1>3 DEF SoundInv, Sound

LEMMA SoundStutter == ASSUME SoundInv, UNCHANGED strikeVars PROVE SoundInv'
<1> USE DEF vars, strikeVars, requestVars, schedulerVars, markVars, loopVars, queueVars, taskVars
<1>1. \A w \in Workers :
        /\ Queued(w)' = Queued(w) /\ (Requeued(w)' <=> Requeued(w)) /\ Hand(w)' = Hand(w)
        /\ Point(w)' = Point(w) /\ Waiting(w)' = Waiting(w) /\ Spots(w)' = Spots(w)
        /\ Reach(w)' = Reach(w)
  BY DEF Queued, Requeued, Hand, Point, Waiting, Spots, Reach, Owned
<1>2. Sound' = Sound /\ Sound \subseteq Workers
  BY DEF Sound
<1>3. \A w \in Sound : SafeOK(w)'
  <2> SUFFICES ASSUME NEW w \in Sound PROVE SafeOK(w)'
    OBVIOUS
  <2>1. SafeOK(w) /\ w \in Workers
    BY <1>2 DEF SoundInv
  <2> QED
    BY <1>1, <2>1 DEF SafeOK, Control, Separate, QueuesApart, Counted, Yields, IsRealtime
<1>4. \A c : Somewhere(c)' <=> Somewhere(c)
  BY <1>1, <1>2 DEF Somewhere
<1>5. \A c : MayBeLost(c)' <=> MayBeLost(c)
  BY DEF MayBeLost, IsRealtime, Home
<1>6. Found' /\ FreedOut'
  BY <1>4, <1>5 DEF SoundInv, Found, FreedOut, Gone
<1>7. Timed' /\ Untimed' /\ AtHome' /\ HolderMade'
  BY <1>1 DEF SoundInv, Timed, Untimed, AtHome, HolderMade, IsRealtime, Home
<1>8. LatencyHolderRuns'
  <2>1. MayBeLost(latency)' <=> MayBeLost(latency)
    BY DEF MayBeLost, IsRealtime, Home
  <2> QED
    BY <1>1, <2>1 DEF SoundInv, LatencyHolderRuns
<1> QED
  BY <1>2, <1>3, <1>6, <1>7, <1>8 DEF SoundInv

\* The inductive invariant: the coroutines of every worker not struck are each
\* in one place and counted, what exists is found in a sound place unless it
\* was a struck worker's to lose, what is freed is found in none, and a guest
\* runs there only if no real-time coroutine is waiting for it.
THEOREM SoundPlaced == StrikeSpec => [](AllInv /\ SoundInv)
<1>1. StrikeSpec => Spec
  <2>1. StrikeInit => Init
    BY DEF StrikeInit
  <2>2. [StrikeNext]_strikeVars => [Next]_vars
    BY DEF StrikeNext, strikeVars
  <2> QED
    BY <2>1, <2>2, PTL DEF StrikeSpec, Spec
<1>2. AllInv /\ SoundInv /\ [StrikeNext]_strikeVars => SoundInv'
  <2> SUFFICES ASSUME Safe, [StrikeNext]_strikeVars PROVE SoundInv'
    BY DEF Safe
  <2>1. TypeOK
    BY DEF Safe, AllInv, TypeInv
  <2>2. ASSUME NEW w \in Workers, WorkerStep(w),
               struck' = struck \union {v \in Workers : Strike(v)}
        PROVE  SoundInv'
    <3>1. {v \in Workers : Strike(v)} = IF Strike(w) THEN {w} ELSE {}
      BY <2>1, <2>2, StrikeMine
    <3> QED
      BY <2>2, <3>1, SoundWorker DEF Strikes
  <2>3. ASSUME Request \/ SchedulerStep, struck' = struck \union {v \in Workers : Strike(v)}
        PROVE  SoundInv'
    <3>1. {v \in Workers : Strike(v)} = {}
      BY <2>1, <2>3, StrikeNobody
    <3> QED
      BY <2>3, <3>1, SoundScheduler
  <2>4. CASE UNCHANGED strikeVars
    BY <2>4, SoundStutter DEF Safe
  <2> QED
    BY <2>2, <2>3, <2>4 DEF StrikeNext, Next
<1> QED
  BY <1>1, <1>2, SoundInit, Stages, PTL DEF StrikeSpec

---------------------------------------------------------------------------
(* What the invariant says of owners and counters *)

LEMMA PositionsOf ==
  ASSUME NEW q \in Seq(Ids), IsInjective(q), NEW c
  PROVE  /\ c \notin ToSet(q) => Positions(q, c) = {}
         /\ c \in ToSet(q) => \E i \in DOMAIN q : Positions(q, c) = {i}
<1>1. ASSUME c \in ToSet(q) PROVE \E i \in DOMAIN q : Positions(q, c) = {i}
  <2>1. PICK i \in DOMAIN q : q[i] = c
    BY <1>1 DEF ToSet
  <2>2. \A j \in DOMAIN q : q[j] = c => j = i
    BY <2>1 DEF IsInjective
  <2> QED
    BY <2>1, <2>2 DEF Positions
<1> QED
  BY <1>1 DEF Positions, ToSet

LEMMA OwnPlace ==
  ASSUME Safe, NEW w \in Sound, NEW c \in Ids
  PROVE  /\ c \notin Spots(w) => WorkerPlaces(w, c) = {}
         /\ c \in Spots(w) => \E p : WorkerPlaces(w, c) = {p}
<1> DEFINE New == {<<"new", w, i>> : i \in Positions(newq[w], c)}
           Susp == {<<"suspended", w, i>> : i \in Positions(suspq[w], c)}
<1>1. Separate(w) /\ newq[w] \in Seq(Ids) /\ suspq[w] \in Seq(Ids) /\ c # None
  BY DEF Sound, Safe, SoundInv, SafeOK, AllInv, TypeInv, TypeOK, None, Ids
<1>2. Held(w, c) <=> Hand(w) = c
  BY <1>1 DEF Held, Hand, Requeued
<1>3. /\ c \notin ToSet(newq[w]) => New = {}
      /\ c \in ToSet(newq[w]) => \E p : New = {p}
  <2>1. ASSUME c \in ToSet(newq[w]) PROVE \E p : New = {p}
    <3>1. PICK i : Positions(newq[w], c) = {i}
      BY <1>1, <2>1, PositionsOf DEF Separate, QueuesApart
    <3>2. New = {<<"new", w, i>>}
      BY <3>1
    <3> QED
      BY <3>2
  <2>2. ASSUME c \notin ToSet(newq[w]) PROVE New = {}
    BY <1>1, <2>2, PositionsOf DEF Separate, QueuesApart
  <2> QED
    BY <2>1, <2>2
<1>4. /\ c \notin ToSet(suspq[w]) => Susp = {}
      /\ c \in ToSet(suspq[w]) => \E p : Susp = {p}
  <2>1. ASSUME c \in ToSet(suspq[w]) PROVE \E p : Susp = {p}
    <3>1. PICK i : Positions(suspq[w], c) = {i}
      BY <1>1, <2>1, PositionsOf DEF Separate, QueuesApart
    <3>2. Susp = {<<"suspended", w, i>>}
      BY <3>1
    <3> QED
      BY <3>2
  <2>2. ASSUME c \notin ToSet(suspq[w]) PROVE Susp = {}
    BY <1>1, <2>2, PositionsOf DEF Separate, QueuesApart
  <2> QED
    BY <2>1, <2>2
<1>5. /\ WorkerPlaces(w, c) = If(curr[w] = c, <<"chosen", w, 0>>)
                           \union If(Hand(w) = c, <<"held", w, 0>>)
                           \union If(c \in rt[w], <<"real-time", w, 0>>) \union New \union Susp
      /\ \A b, p : If(b, p) = IF b THEN {p} ELSE {}
  BY <1>2 DEF WorkerPlaces, If
<1>6. /\ c \in Spots(w) <=> \/ c \in ToSet(newq[w]) \/ c \in ToSet(suspq[w]) \/ c \in rt[w]
                            \/ curr[w] = c \/ Hand(w) = c
      /\ c \in ToSet(newq[w]) => c \notin ToSet(suspq[w]) /\ c \notin rt[w]
      /\ c \in ToSet(suspq[w]) => c \notin rt[w]
      /\ c \in ToSet(newq[w]) \union ToSet(suspq[w]) \union rt[w] => curr[w] # c /\ Hand(w) # c
      /\ curr[w] = c => Hand(w) # c
  BY <1>1 DEF Separate, QueuesApart, Queued, Spots
<1> HIDE DEF New, Susp
<1>7. CASE c \notin Spots(w)
  BY <1>3, <1>4, <1>5, <1>6, <1>7
<1>8. CASE c \in ToSet(newq[w])
  BY <1>3, <1>4, <1>5, <1>6, <1>8
<1>9. CASE c \in ToSet(suspq[w])
  BY <1>3, <1>4, <1>5, <1>6, <1>9
<1>10. CASE c \in rt[w] \/ curr[w] = c \/ Hand(w) = c
  <2>1. New = {} /\ Susp = {}
    BY <1>3, <1>4, <1>6, <1>10
  <2>2. CASE c \in rt[w]
    <3>1. curr[w] # c /\ Hand(w) # c
      BY <1>6, <2>2
    <3>2. WorkerPlaces(w, c) = {<<"real-time", w, 0>>}
      BY <1>5, <2>1, <2>2, <3>1
    <3> QED
      BY <1>6, <2>2, <3>2
  <2>3. CASE curr[w] = c
    <3>1. c \notin rt[w] /\ Hand(w) # c
      BY <1>6, <2>3
    <3>2. WorkerPlaces(w, c) = {<<"chosen", w, 0>>}
      BY <1>5, <2>1, <2>3, <3>1
    <3> QED
      BY <1>6, <2>3, <3>2
  <2>4. CASE Hand(w) = c
    <3>1. c \notin rt[w] /\ curr[w] # c
      BY <1>6, <2>4
    <3>2. WorkerPlaces(w, c) = {<<"held", w, 0>>}
      BY <1>5, <2>1, <2>4, <3>1
    <3> QED
      BY <1>6, <2>4, <3>2
  <2> QED
    BY <1>10, <2>2, <2>3, <2>4
<1> QED
  BY <1>6, <1>7, <1>8, <1>9, <1>10

\* What one zone contributes to SoundPlaces(c).
ZonePlaces(c, k, w) ==
    CASE k = "hand" -> IF w = 0 THEN If(spc = "slot" /\ job = c, <<"scheduler", 0, 0>>) ELSE {}
      [] k = "global" -> IF w = 0 THEN {<<"global", 0, i>> : i \in Positions(gq, c)} ELSE {}
      [] k = "rtq" -> If(c \in rtq[w], <<"real-time global", w, 0>>)
      [] k = "slot" -> If(slot[w] = c, <<"slot", w, 0>>)
      [] k = "own" -> IF w \in Sound THEN WorkerPlaces(w, c) ELSE {}

LEMMA PlacesByZone ==
  ASSUME struck \subseteq Workers, NEW c, NEW p
  PROVE  p \in SoundPlaces(c) <=> \E k \in Kinds, w \in Workers : p \in ZonePlaces(c, k, w)
<1>1. Kinds = {"hand", "global", "rtq", "slot", "own"} /\ 0 \in Workers /\ Sound \subseteq Workers
  BY DEF Kinds, Workers, Sound
<1>2. /\ ZonePlaces(c, "hand", 0) = If(spc = "slot" /\ job = c, <<"scheduler", 0, 0>>)
      /\ ZonePlaces(c, "global", 0) = {<<"global", 0, i>> : i \in Positions(gq, c)}
      /\ \A w \in Workers \ {0} : ZonePlaces(c, "hand", w) = {} /\ ZonePlaces(c, "global", w) = {}
      /\ \A w \in Workers :
            /\ ZonePlaces(c, "rtq", w) = If(c \in rtq[w], <<"real-time global", w, 0>>)
            /\ ZonePlaces(c, "slot", w) = If(slot[w] = c, <<"slot", w, 0>>)
            /\ ZonePlaces(c, "own", w) = IF w \in Sound THEN WorkerPlaces(w, c) ELSE {}
  BY DEF ZonePlaces
<1>3. p \in SoundPlaces(c) <=>
        \/ p \in ZonePlaces(c, "hand", 0) \/ p \in ZonePlaces(c, "global", 0)
        \/ \E w \in Workers : \/ p \in ZonePlaces(c, "rtq", w) \/ p \in ZonePlaces(c, "slot", w)
                              \/ p \in ZonePlaces(c, "own", w)
  <2> DEFINE P(w) == If(c \in rtq[w], <<"real-time global", w, 0>>)
                     \union If(slot[w] = c, <<"slot", w, 0>>)
             U == UNION {P(w) : w \in Workers}
             V == UNION {WorkerPlaces(w, c) : w \in Sound}
  <2>1. p \in U <=> \E w \in Workers : \/ p \in If(c \in rtq[w], <<"real-time global", w, 0>>)
                                       \/ p \in If(slot[w] = c, <<"slot", w, 0>>)
    <3>1. \A w \in Workers : p \in P(w) <=> \/ p \in If(c \in rtq[w], <<"real-time global", w, 0>>)
                                            \/ p \in If(slot[w] = c, <<"slot", w, 0>>)
      OBVIOUS
    <3> HIDE DEF P
    <3>2. p \in U <=> \E w \in Workers : p \in P(w)
      OBVIOUS
    <3> QED
      BY <3>1, <3>2
  <2>2. p \in V <=> \E w \in Workers : p \in ZonePlaces(c, "own", w)
    <3>1. p \in V <=> \E w \in Sound : p \in WorkerPlaces(w, c)
      OBVIOUS
    <3> QED
      BY <1>1, <1>2, <3>1
  <2>3. SoundPlaces(c) = (ZonePlaces(c, "hand", 0) \union ZonePlaces(c, "global", 0) \union U) \union V
    BY <1>2 DEF SoundPlaces, SharedPlaces
  <2> HIDE DEF U, V
  <2> QED
    BY <1>2, <2>1, <2>2, <2>3
<1> QED
  BY <1>1, <1>2, <1>3

\* The zone a coroutine is in contributes one place, if it is a sound one; the
\* others none.
LEMMA ZonePlace ==
  ASSUME Safe, NEW c \in Ids, NEW k \in Kinds, NEW w \in Workers
  PROVE  IF Zone(c, k, w) /\ (k = "own" => w \in Sound /\ c \in Spots(w))
         THEN \E p : ZonePlaces(c, k, w) = {p}
         ELSE ZonePlaces(c, k, w) = {}
<1>1. gq \in Seq(Ids) /\ IsInjective(gq) /\ slot \in [Workers -> Ids \union {None}]
  BY DEF Safe, AllInv, TypeInv, TypeOK, OwnInv, QueuedOnce
<1>2. CASE k = "hand"
  BY <1>2 DEF ZonePlaces, Zone, If
<1>3. CASE k = "global"
  <2>1. ASSUME w = 0, c \in ToSet(gq) PROVE \E p : ZonePlaces(c, k, w) = {p}
    <3>1. PICK i : Positions(gq, c) = {i}
      BY <1>1, <2>1, PositionsOf
    <3>2. ZonePlaces(c, k, w) = {<<"global", 0, i>>}
      BY <1>3, <2>1, <3>1 DEF ZonePlaces
    <3> QED
      BY <3>2
  <2>2. ASSUME w # 0 \/ c \notin ToSet(gq) PROVE ZonePlaces(c, k, w) = {}
    <3>1. w = 0 => Positions(gq, c) = {}
      BY <1>1, <2>2, PositionsOf
    <3> QED
      BY <1>3, <3>1 DEF ZonePlaces
  <2> QED
    BY <1>3, <2>1, <2>2 DEF Zone
<1>4. CASE k = "rtq"
  BY <1>4 DEF ZonePlaces, Zone, If
<1>5. CASE k = "slot"
  BY <1>5 DEF ZonePlaces, Zone, If
<1>6. CASE k = "own"
  <2>1. c \in Spots(w) => Zone(c, k, w)
    BY <1>6, SpotsOwned DEF Zone
  <2>2. ZonePlaces(c, k, w) = IF w \in Sound THEN WorkerPlaces(w, c) ELSE {}
    BY <1>6 DEF ZonePlaces
  <2> QED
    BY <1>6, <2>1, <2>2, OwnPlace
<1> QED
  BY <1>2, <1>3, <1>4, <1>5, <1>6 DEF Kinds

\* A coroutine is somewhere exactly if it has a sound place.
LEMMA PlacedSomewhere ==
  ASSUME Safe, NEW c \in Ids PROVE Somewhere(c) <=> SoundPlaces(c) # {}
<1>1. Kinds = {"hand", "global", "rtq", "slot", "own"} /\ 0 \in Workers /\ Sound \subseteq Workers
      /\ struck \subseteq Workers
  BY DEF Kinds, Workers, Sound, Safe, SoundInv
<1>2. Somewhere(c) <=> \E k \in Kinds, w \in Workers :
                          Zone(c, k, w) /\ (k = "own" => w \in Sound /\ c \in Spots(w))
  BY <1>1, SpotsOwned DEF Somewhere, Zone
<1>3. \A k \in Kinds, w \in Workers :
        ZonePlaces(c, k, w) # {} <=> Zone(c, k, w) /\ (k = "own" => w \in Sound /\ c \in Spots(w))
  BY ZonePlace
<1>4. (\E p : p \in SoundPlaces(c)) <=> \E k \in Kinds, w \in Workers : ZonePlaces(c, k, w) # {}
  BY <1>1, PlacesByZone
<1> QED
  BY <1>2, <1>3, <1>4

LEMMA OnePlace ==
  ASSUME Safe, NEW c \in Ids, NEW p \in SoundPlaces(c) PROVE SoundPlaces(c) = {p}
<1>a. struck \subseteq Workers
  BY DEF Safe, SoundInv
<1>1. PICK k \in Kinds, w \in Workers : p \in ZonePlaces(c, k, w)
  BY <1>a, PlacesByZone
<1>2. Zone(c, k, w) /\ ZonePlaces(c, k, w) = {p}
  BY <1>1, ZonePlace
<1>3. \A l \in Kinds, v \in Workers : Zone(c, l, v) => l = k /\ v = w
  BY <1>2 DEF Safe, AllInv, OwnInv, Exclusive
<1>4. \A l \in Kinds, v \in Workers : (l # k \/ v # w) => ZonePlaces(c, l, v) = {}
  BY <1>3, ZonePlace
<1>5. \A q : q \in SoundPlaces(c) <=> q = p
  BY <1>a, <1>2, <1>4, PlacesByZone
<1> QED
  BY <1>5

LEMMA GoneNowhere == ASSUME Safe, NEW c \in Ids, Gone(c) PROVE ~Somewhere(c)
<1>1. c \notin completed => st[c] = "NONE" \/ c \in dropped
  BY DEF Gone
<1>2. Somewhere(c) => \E k \in Kinds, w \in Workers : Zone(c, k, w)
  BY SpotsOwned DEF Somewhere, Zone, Kinds, Workers, Sound
<1>3. Somewhere(c) => st[c] # "NONE" /\ c \notin dropped
  BY <1>2 DEF Safe, AllInv, OwnInv, Created, LifeInv, DroppedOut
<1> QED
  BY <1>1, <1>3 DEF Safe, SoundInv, FreedOut

LEMMA OneSoundFollows == ASSUME Safe PROVE OneSoundOwner
<1> SUFFICES ASSUME NEW c \in Ids
             PROVE  /\ Cardinality(SoundPlaces(c)) <= IF Gone(c) THEN 0 ELSE 1
                    /\ SoundPlaces(c) # {} => StruckPlaces(c) = {}
  BY DEF OneSoundOwner
<1>1. CASE SoundPlaces(c) = {}
  <2>1. Cardinality(SoundPlaces(c)) = 0
    BY <1>1, FS_EmptySet
  <2> QED
    BY <1>1, <2>1
<1>2. CASE SoundPlaces(c) # {}
  <2>1. ~Gone(c) /\ Somewhere(c)
    BY <1>2, PlacedSomewhere, GoneNowhere
  <2>2. PICK p : SoundPlaces(c) = {p}
    BY <1>2, OnePlace
  <2>3. Cardinality(SoundPlaces(c)) = 1
    BY <2>2, FS_Singleton
  <2>4. StruckPlaces(c) = {}
    <3>1. ASSUME NEW w \in struck, NEW q \in WorkerPlaces(w, c) PROVE FALSE
      <4>1. w \in Workers /\ w \notin Sound
        BY DEF Safe, SoundInv, Sound
      <4>2. newq[w] \in Seq(Ids) /\ suspq[w] \in Seq(Ids) /\ c # None
        BY <4>1 DEF Safe, AllInv, TypeInv, TypeOK, None, Ids
      <4>3. c \in Owned(w)
        BY <3>1, <4>2 DEF WorkerPlaces, If, Held, Positions, Owned, ToSet
      <4>4. /\ ~(spc = "slot" /\ job = c) /\ c \notin ToSet(gq)
            /\ \A v \in Workers : c \notin rtq[v] /\ slot[v] # c /\ (v # w => c \notin Owned(v))
        BY <4>1, <4>3, NowhereElse DEF Safe
      <4>5. \A v \in Sound : c \notin Spots(v)
        BY <4>1, <4>4, SpotsOwned DEF Sound
      <4> QED
        BY <2>1, <4>4, <4>5 DEF Somewhere
    <3> QED
      BY <3>1 DEF StruckPlaces
  <2> QED
    BY <2>1, <2>3, <2>4
<1> QED
  BY <1>1, <1>2

LEMMA SoundLenFollows == ASSUME Safe PROVE SoundLenExact
<1> SUFFICES ASSUME NEW w \in Sound
             PROVE  len[w] = Len(newq[w]) + Len(suspq[w]) + Cardinality(rt[w])
                             + Cardinality({c \in Ids : curr[w] = c \/ Held(w, c)})
  BY DEF SoundLenExact
<1> DEFINE H == {c \in Ids : curr[w] = c \/ Held(w, c)}
<1>1. /\ Separate(w) /\ Counted(w) /\ TypeOK /\ Waiting(w) \in Nat
  <2>1. w \in Workers /\ SafeOK(w) /\ TypeOK
    BY DEF Sound, Safe, SoundInv, AllInv, TypeInv
  <2> QED
    BY <2>1, WaitingNat DEF SafeOK
<1>2. None \notin Ids /\ curr[w] \in Ids \union {None} /\ hold[w] \in Ids \union {None}
  BY <1>1 DEF TypeOK, None, Ids, Sound
<1>3. H = {curr[w], Hand(w)} \ {None} /\ Hand(w) \in Ids \union {None}
  BY <1>2 DEF Held, Hand, Requeued
<1>4. Cardinality(H) = One(curr[w]) + One(Hand(w))
  <2> HIDE DEF H
  <2>1. CASE curr[w] = None /\ Hand(w) = None
    BY <1>3, <2>1, FS_EmptySet DEF One
  <2>2. CASE curr[w] # None /\ Hand(w) = None
    <3>1. H = {curr[w]}
      BY <1>3, <2>2
    <3>2. Cardinality(H) = 1
      BY <3>1, FS_Singleton
    <3> QED
      BY <2>2, <3>2 DEF One
  <2>3. CASE curr[w] = None /\ Hand(w) # None
    <3>1. H = {Hand(w)}
      BY <1>3, <2>3
    <3>2. Cardinality(H) = 1
      BY <3>1, FS_Singleton
    <3> QED
      BY <2>3, <3>2 DEF One
  <2>4. CASE curr[w] # None /\ Hand(w) # None
    <3>1. H = {curr[w]} \union {Hand(w)} /\ Hand(w) \notin {curr[w]}
      BY <1>1, <1>3, <2>4 DEF Separate
    <3>2. IsFiniteSet({curr[w]}) /\ Cardinality({curr[w]}) = 1
      BY FS_Singleton
    <3>3. Cardinality(H) = 1 + 1
      BY <3>1, <3>2, FS_AddElement
    <3> QED
      BY <2>4, <3>3 DEF One
  <2> QED
    BY <2>1, <2>2, <2>3, <2>4
<1> HIDE DEF H
<1>5. len[w] = Waiting(w) + Cardinality(H)
  <2>1. One(curr[w]) \in Nat /\ One(Hand(w)) \in Nat
    BY DEF One
  <2> QED
    BY <1>1, <1>4, <2>1 DEF Counted
<1> QED
  BY <1>5 DEF Waiting, H

\* Wherever signals strike, a coroutine has one owner at most among the shared
\* queues and the workers not struck, none of them once it is gone, and no
\* struck worker has what one of them has: what a strike duplicates or frees
\* too early stays with the worker struck.
THEOREM OwnedOnce == StrikeSpec => []OneSoundOwner
<1>1. AllInv /\ SoundInv => OneSoundOwner
  BY OneSoundFollows DEF Safe
<1> QED
  BY <1>1, SoundPlaced, PTL

\* Wherever signals strike, what is lost was a struck worker's to lose: a
\* real-time coroutine is lost only to the worker admission placed it on.
THEOREM LossConfined == StrikeSpec => []LostToStruck
<1>1. AllInv /\ SoundInv => LostToStruck
  <2> SUFFICES ASSUME Safe, NEW c \in Ids, SoundPlaces(c) = {} PROVE Gone(c) \/ MayBeLost(c)
    BY DEF Safe, LostToStruck
  <2> QED
    BY PlacedSomewhere DEF Safe, SoundInv, Found
<1> QED
  BY <1>1, SoundPlaced, PTL

\* Wherever signals strike, Worker.len of a worker not struck is the number of
\* coroutines it owns: the handler's `len > 1` and the loop's bound count right.
THEOREM LenCounts == StrikeSpec => []SoundLenExact
<1>1. AllInv /\ SoundInv => SoundLenExact
  BY SoundLenFollows DEF Safe
<1> QED
  BY <1>1, SoundPlaced, PTL

\* Wherever signals strike, no guest without a deadline runs on a worker not
\* struck while that worker has fetched a real-time coroutine that waits.
THEOREM GuestsYield == StrikeSpec => []SoundNrtYields
<1>1. AllInv /\ SoundInv => SoundNrtYields
  BY DEF SoundInv, SafeOK, Yields, SoundNrtYields
<1> QED
  BY <1>1, SoundPlaced, PTL

\* Wherever signals strike, the holder of the latency mutex is at its critical
\* section on a CPU, or was a struck worker's to lose.
THEOREM LatencyHolderStays == StrikeSpec => []LatencyHolderRuns
<1>1. AllInv /\ SoundInv => LatencyHolderRuns
  BY DEF SoundInv
<1> QED
  BY <1>1, SoundPlaced, PTL

=============================================================================
