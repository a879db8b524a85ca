---------------------------- MODULE StatusProofs ----------------------------
(***************************************************************************)
(* Queries about tasks that move from the boards to the cache, for any     *)
(* number of tasks, any number of workers and any capacity of the cache.   *)
(***************************************************************************)
EXTENDS Status, Sums, SequenceTheorems

USE StatusAssumption

Queries == [kind : {"byId", "status"}, id : Tasks \union {NoTask}, left : SUBSET Workers,
            seen : SUBSET Tasks, listed : SUBSET Tasks, busy : BOOLEAN, over : BOOLEAN,
            before : SUBSET Tasks, gone : SUBSET Tasks, stayed : SUBSET Tasks]
Ops == {"none", "update", "push", "pushed", "delete"}

Types ==
    /\ board \in [Workers -> SUBSET Tasks]
    /\ completed \in Seq(Tasks) /\ IsInjective(completed) /\ Len(completed) <= CompletedCap
    /\ doing \in [Writers -> [op : Ops, task : Tasks \union {NoTask}]]
    /\ noted \subseteq Deadlined /\ ended \subseteq Tasks
    /\ query \in Queries /\ since \in [Tasks -> SUBSET Tasks]

\* A worker writes about its own tasks; one it takes to the cache is on its
\* board and has not been done with before.
Sane ==
    /\ \A w \in Workers : \A c \in board[w] : Home[c] = w
    /\ \A t \in Writers : doing[t].op # "none" => doing[t].task \in Tasks
    /\ \A w \in Workers : doing[w].op # "none" => Home[doing[w].task] = w
    /\ \A w \in Workers : doing[w].op \in {"push", "pushed", "delete"} =>
          doing[w].task \in board[w] \ ended
    /\ doing[Scheduler].op \in {"none", "update"}
    /\ ~query.over /\ query.kind = "byId" => query.id \in Tasks

\* c is where the query is still going to look.
Ahead(c) == c \in Cached \/ (c \in board[Home[c]] /\ ~Leaving(c) /\ Home[c] \in query.left)

\* A query under way has found what it looks for, or will.
Searching ==
    ~query.over =>
        /\ query.kind = "byId" /\ ~query.busy /\ query.id \in query.before \ query.gone => Ahead(query.id)
        /\ query.kind = "status" =>
              /\ query.seen = {} => \A c \in query.before \ query.gone : Ahead(c)
              /\ \A c \in query.stayed : c \in query.seen \/ (c \in board[Home[c]] /\ Home[c] \in query.left)

\* Each history holds what stands before the task it belongs to.
Ordered(s, h) == \A i, j \in 1 .. Len(s) : j < i => s[j] \in h[s[i]]

\* The cache is in the order of use, as the histories have it.
Recency == (\A c \in Tasks : IsFiniteSet(since[c])) /\ Ordered(completed, since)

\* A task that has been pushed is in the cache, or was driven out of it.
PushedOnce(c) == c \in ended \/ Leaving(c)
Driven == \A c \in Tasks : PushedOnce(c) => c \in Cached \/ Cardinality(since[c]) >= CompletedCap

Answers == KnownFound /\ NothingVanishes /\ StayersListed
StatusInv == Types /\ Sane /\ Searching /\ Answers /\ Recency /\ Driven

---------------------------------------------------------------------------
(* The cache *)

LEMMA Kinds ==
  /\ Workers \subseteq Nat /\ Scheduler \notin Workers /\ Scheduler \in Writers /\ Workers \subseteq Writers
  /\ \A c \in Tasks : Home[c] \in Workers
  /\ NoTask \notin Tasks
BY DEF Workers, Scheduler, Writers

\* A sequence without its p-th element.
LEMMA CutSeq ==
  ASSUME NEW S, NEW s \in Seq(S), NEW p \in 1 .. Len(s)
  PROVE  /\ RemoveAt(s, p) \in Seq(S) /\ Len(RemoveAt(s, p)) = Len(s) - 1
         /\ \A i \in 1 .. Len(s) - 1 : RemoveAt(s, p)[i] = IF i < p THEN s[i] ELSE s[i + 1]
<1> DEFINE a == SubSeq(s, 1, p - 1)
           b == SubSeq(s, p + 1, Len(s))
<1>1. Len(s) \in Nat /\ p \in Nat /\ 1 <= p /\ p <= Len(s) /\ p - 1 \in Int /\ p + 1 \in Int
  BY LenProperties
<1>2. \A i \in 1 .. Len(s) : s[i] \in S
  BY ElementOfSeq
<1>3. a \in Seq(S) /\ Len(a) = p - 1 /\ \A i \in 1 .. p - 1 : a[i] = s[i]
  <2>1. \A i \in 1 .. p - 1 : s[i] \in S
    BY <1>1, <1>2
  <2>2. /\ a \in Seq(S) /\ Len(a) = IF 1 <= p - 1 THEN (p - 1) - 1 + 1 ELSE 0
        /\ \A i \in 1 .. (p - 1) - 1 + 1 : a[i] = s[1 + i - 1]
    BY <1>1, <2>1, SubSeqProperties
  <2> HIDE DEF a
  <2>3. Len(a) = p - 1
    BY <1>1, <2>2
  <2>4. \A i \in 1 .. p - 1 : i \in 1 .. (p - 1) - 1 + 1 /\ 1 + i - 1 = i
    BY <1>1
  <2> QED
    BY <2>2, <2>3, <2>4
<1>4. b \in Seq(S) /\ Len(b) = Len(s) - p /\ \A i \in 1 .. Len(s) - p : b[i] = s[p + i]
  <2>1. \A i \in p + 1 .. Len(s) : s[i] \in S
    BY <1>1, <1>2
  <2>2. /\ b \in Seq(S) /\ Len(b) = IF p + 1 <= Len(s) THEN Len(s) - (p + 1) + 1 ELSE 0
        /\ \A i \in 1 .. Len(s) - (p + 1) + 1 : b[i] = s[(p + 1) + i - 1]
    BY <1>1, <2>1, SubSeqProperties
  <2> HIDE DEF b
  <2>3. Len(b) = Len(s) - p
    BY <1>1, <2>2
  <2>4. \A i \in 1 .. Len(s) - p : i \in 1 .. Len(s) - (p + 1) + 1 /\ (p + 1) + i - 1 = p + i
    BY <1>1
  <2> QED
    BY <2>2, <2>3, <2>4
<1>5. RemoveAt(s, p) = a \o b
  BY DEF RemoveAt
<1> HIDE DEF a, b
<1>6. /\ a \o b \in Seq(S) /\ Len(a \o b) = Len(a) + Len(b)
      /\ \A i \in 1 .. Len(a) + Len(b) : (a \o b)[i] = IF i <= Len(a) THEN a[i] ELSE b[i - Len(a)]
  <2>1. a \in Seq(S) /\ b \in Seq(S)
    BY <1>3, <1>4
  <2> QED
    BY ONLY <2>1, ConcatProperties
<1>7. Len(a) + Len(b) = Len(s) - 1
  BY <1>1, <1>3, <1>4
<1>8. ASSUME NEW i \in 1 .. Len(s) - 1
      PROVE  (a \o b)[i] = IF i < p THEN s[i] ELSE s[i + 1]
  <2>1. (a \o b)[i] = IF i <= p - 1 THEN a[i] ELSE b[i - (p - 1)]
    BY <1>3, <1>6, <1>7
  <2>2. CASE i < p
    <3>1. i <= p - 1 /\ i \in 1 .. p - 1
      BY <1>1, <2>2
    <3>2. a[i] = s[i]
      BY <1>3, <3>1
    <3> QED
      BY <2>1, <2>2, <3>1, <3>2
  <2>3. CASE ~(i < p)
    <3>1. ~(i <= p - 1) /\ i - (p - 1) \in 1 .. Len(s) - p /\ p + (i - (p - 1)) = i + 1
      BY <1>1, <2>3
    <3>2. b[i - (p - 1)] = s[i + 1]
      BY <1>4, <3>1
    <3> QED
      BY <2>1, <2>3, <3>1, <3>2
  <2> QED
    BY <2>2, <2>3
<1> QED
  BY <1>5, <1>6, <1>7, <1>8

\* RemoveFirst takes c out of a sequence without repetitions and keeps the
\* order of the others: before some place the elements are where they were,
\* from there on they have moved up by one.
Moved(r, s, p) ==
  \A i \in 1 .. Len(r) : \/ i < p /\ i <= Len(s) /\ r[i] = s[i]
                         \/ i >= p /\ i + 1 <= Len(s) /\ r[i] = s[i + 1]

LEMMA Removed ==
  ASSUME NEW S, NEW s \in Seq(S), IsInjective(s), NEW c, NEW r, r = RemoveFirst(s, c)
  PROVE  /\ r \in Seq(S) /\ Len(r) <= Len(s) /\ (c \in Range(s) => Len(r) = Len(s) - 1)
         /\ \E p \in Nat : Moved(r, s, p)
         /\ Range(r) = Range(s) \ {c}
<1>1. DOMAIN s = 1 .. Len(s) /\ Len(s) \in Nat
  BY LenProperties
<1>2. CASE \A i \in 1 .. Len(s) : s[i] # c
  <2>1. r = s
    BY <1>2 DEF RemoveFirst
  <2>2. c \notin Range(s)
    BY <1>1, <1>2 DEF Range
  <2>3. Len(s) + 1 \in Nat /\ \A i \in 1 .. Len(s) : i < Len(s) + 1 /\ i <= Len(s)
    BY <1>1
  <2>4. Moved(s, s, Len(s) + 1)
    BY <2>3 DEF Moved
  <2>5. Len(s) <= Len(s)
    BY <1>1
  <2> QED
    BY <2>1, <2>2, <2>3, <2>4, <2>5
<1>3. CASE \E i \in 1 .. Len(s) : s[i] = c
  <2>1. PICK p \in 1 .. Len(s) : s[p] = c
    BY <1>3
  <2>2. {i \in 1 .. Len(s) : s[i] = c} = {p}
    BY <1>1, <2>1 DEF IsInjective
  <2>3. SelectInSeq(s, LAMBDA v : v = c) = p
    <3>1. SelectInSeq(s, LAMBDA v : v = c) = Min({p})
      BY <2>2 DEF SelectInSeq
    <3>2. p >= p /\ p <= p
      BY <2>1
    <3> QED
      BY <3>1, <3>2 DEF Min
  <2>4. r = RemoveAt(s, p)
    BY <1>3, <2>3 DEF RemoveFirst
  <2>5. /\ r \in Seq(S) /\ Len(r) = Len(s) - 1
        /\ \A i \in 1 .. Len(s) - 1 : r[i] = IF i < p THEN s[i] ELSE s[i + 1]
    BY <2>1, <2>4, CutSeq
  <2>6. Moved(r, s, p) /\ p \in Nat
    <3>1. p \in Nat
      BY <2>1
    <3>2. \A i \in 1 .. Len(s) - 1 : i <= Len(s) /\ i + 1 <= Len(s) /\ (i < p \/ i >= p)
      BY <1>1, <3>1
    <3>3. \A i \in 1 .. Len(s) - 1 : i < p => ~(i >= p)
      BY <1>1, <3>1
    <3>4. \A i \in 1 .. Len(s) - 1 : (i < p => r[i] = s[i]) /\ (~(i < p) => r[i] = s[i + 1])
      BY <2>5
    <3>5. \A i \in 1 .. Len(s) - 1 : i >= p => ~(i < p)
      BY <1>1, <3>1
    <3> QED
      BY <2>5, <3>1, <3>2, <3>4, <3>5 DEF Moved
  <2>7. DOMAIN r = 1 .. Len(s) - 1
    BY <2>5, LenProperties
  <2>8. Range(r) = Range(s) \ {c}
    <3>1. ASSUME NEW i \in 1 .. Len(s) - 1 PROVE r[i] \in Range(s) \ {c}
      <4>1. PICK k \in 1 .. Len(s) : k # p /\ r[i] = s[k]
        <5>1. CASE i < p
          <6>1. i \in 1 .. Len(s) /\ i # p
            BY <1>1, <2>1, <5>1
          <6> QED
            BY <2>5, <5>1, <6>1
        <5>2. CASE ~(i < p)
          <6>1. i + 1 \in 1 .. Len(s) /\ i + 1 # p
            BY <1>1, <2>1, <5>2
          <6> QED
            BY <2>5, <5>2, <6>1
        <5> QED
          BY <5>1, <5>2
      <4>2. s[k] # c
        BY <1>1, <2>1, <4>1 DEF IsInjective
      <4> QED
        BY <1>1, <4>1, <4>2 DEF Range
    <3>2. ASSUME NEW k \in 1 .. Len(s), s[k] # c PROVE s[k] \in Range(r)
      <4>1. k # p
        BY <2>1, <3>2
      <4>2. CASE k < p
        <5>1. k \in 1 .. Len(s) - 1
          BY <1>1, <2>1, <4>2
        <5>2. r[k] = s[k]
          BY <2>5, <4>2, <5>1
        <5> QED
          BY <2>7, <5>1, <5>2 DEF Range
      <4>3. CASE ~(k < p)
        <5>1. k - 1 \in 1 .. Len(s) - 1 /\ ~(k - 1 < p) /\ (k - 1) + 1 = k
          BY <1>1, <2>1, <4>1, <4>3
        <5>2. r[k - 1] = s[k]
          BY <2>5, <5>1
        <5> QED
          BY <2>7, <5>1, <5>2 DEF Range
      <4> QED
        BY <4>2, <4>3
    <3> QED
      BY <1>1, <2>7, <3>1, <3>2 DEF Range
  <2>9. Len(s) - 1 <= Len(s)
    BY <1>1
  <2> QED
    BY <2>5, <2>6, <2>8, <2>9
<1> QED
  BY <1>2, <1>3

\* Used puts c in front of the others, of which each has then seen c pass.
LEMMA UsedSeq ==
  ASSUME NEW s \in Seq(Tasks), IsInjective(s), NEW c \in Tasks, NEW h, NEW g, Ordered(s, h),
         \A d \in Range(s) : d # c => h[d] \subseteq g[d] /\ c \in g[d],
         NEW u, u = Used(s, c)
  PROVE  /\ u \in Seq(Tasks) /\ IsInjective(u) /\ (c \in Range(s) => Len(u) = Len(s))
         /\ Len(u) >= 1 /\ u[1] = c /\ Range(u) = Range(s) \union {c}
         /\ Ordered(u, g)
<1> DEFINE r == RemoveFirst(s, c)
<1>1. /\ r \in Seq(Tasks) /\ Len(r) <= Len(s) /\ (c \in Range(s) => Len(r) = Len(s) - 1)
      /\ \E p \in Nat : Moved(r, s, p)
      /\ Range(r) = Range(s) \ {c}
  BY Removed
<1>2. u = <<c>> \o r
  BY DEF Used
<1> HIDE DEF r
<1>3. PICK p \in Nat : Moved(r, s, p)
  BY <1>1
<1>4. r \in Seq(Tasks)
  BY <1>1
<1>5. Len(r) \in Nat /\ DOMAIN r = 1 .. Len(r) /\ Len(s) \in Nat /\ DOMAIN s = 1 .. Len(s)
  BY <1>4, LenProperties
<1>6. <<c>> \in Seq(Tasks) /\ Len(<<c>>) = 1 /\ <<c>>[1] = c
  OBVIOUS
<1>7. /\ u \in Seq(Tasks) /\ Len(u) = 1 + Len(r)
      /\ \A i \in 1 .. 1 + Len(r) : u[i] = IF i <= 1 THEN <<c>>[i] ELSE r[i - 1]
  <2> DEFINE f == <<c>>
  <2>1. f \in Seq(Tasks) /\ Len(f) = 1
    BY <1>6
  <2> HIDE DEF f
  <2>2. /\ f \o r \in Seq(Tasks) /\ Len(f \o r) = Len(f) + Len(r)
        /\ \A i \in 1 .. Len(f) + Len(r) : (f \o r)[i] = IF i <= Len(f) THEN f[i] ELSE r[i - Len(f)]
    BY ONLY <1>4, <2>1, ConcatProperties
  <2>3. u = f \o r
    BY <1>2 DEF f
  <2>4. /\ u \in Seq(Tasks) /\ Len(u) = 1 + Len(r)
        /\ \A i \in 1 .. 1 + Len(r) : u[i] = IF i <= 1 THEN f[i] ELSE r[i - 1]
    BY ONLY <2>1, <2>2, <2>3
  <2> QED
    BY <2>4 DEF f
<1>8. DOMAIN u = 1 .. Len(u) /\ Len(u) \in Nat /\ Len(u) >= 1
  BY <1>5, <1>7
<1>9. u[1] = c
  <2>1. 1 \in 1 .. 1 + Len(r) /\ 1 <= 1
    BY <1>5
  <2> QED
    BY <1>6, <1>7, <2>1
<1>10. ASSUME NEW i \in 1 .. Len(u), i # 1
       PROVE  i - 1 \in 1 .. Len(r) /\ u[i] = r[i - 1]
  <2>1. i - 1 \in 1 .. Len(r) /\ ~(i <= 1) /\ i \in 1 .. 1 + Len(r)
    BY <1>5, <1>7, <1>10
  <2> QED
    BY <1>7, <2>1
<1>11. \A k \in 1 .. Len(r) : r[k] \in Range(s) /\ r[k] # c
  <2>1. \A k \in 1 .. Len(r) : r[k] \in Range(r)
    BY <1>5 DEF Range
  <2> QED
    BY <1>1, <2>1
<1>12. ASSUME NEW i \in 1 .. Len(r), NEW j \in 1 .. Len(r), j < i
       PROVE  r[i] # r[j] /\ r[j] \in h[r[i]]
  <2>1. PICK k \in 1 .. Len(s), l \in 1 .. Len(s) : k < l /\ r[j] = s[k] /\ r[i] = s[l]
    <3>1. CASE i < p
      <4>1. j < p /\ ~(i >= p) /\ ~(j >= p)
        BY <1>5, <1>12, <3>1
      <4>2. r[i] = s[i] /\ i <= Len(s) /\ r[j] = s[j] /\ j <= Len(s)
        BY <3>1, <4>1, <1>3 DEF Moved
      <4>3. i \in 1 .. Len(s) /\ j \in 1 .. Len(s)
        BY <1>5, <4>2
      <4> QED
        BY <1>12, <4>2, <4>3
    <3>2. CASE i >= p /\ j < p
      <4>1. ~(i < p) /\ ~(j >= p)
        BY <1>5, <3>2
      <4>2. r[i] = s[i + 1] /\ i + 1 <= Len(s) /\ r[j] = s[j] /\ j <= Len(s)
        BY <3>2, <4>1, <1>3 DEF Moved
      <4>3. i + 1 \in 1 .. Len(s) /\ j \in 1 .. Len(s) /\ j < i + 1
        BY <1>5, <1>12, <4>2
      <4> QED
        BY <4>2, <4>3
    <3>3. CASE i >= p /\ j >= p
      <4>1. ~(i < p) /\ ~(j < p)
        BY <1>5, <3>3
      <4>2. r[i] = s[i + 1] /\ i + 1 <= Len(s) /\ r[j] = s[j + 1] /\ j + 1 <= Len(s)
        BY <3>3, <4>1, <1>3 DEF Moved
      <4>3. i + 1 \in 1 .. Len(s) /\ j + 1 \in 1 .. Len(s) /\ j + 1 < i + 1
        BY <1>5, <1>12, <4>2
      <4> QED
        BY <4>2, <4>3
    <3>4. (i < p \/ i >= p) /\ (j < p \/ j >= p) /\ (i < p => j < p)
      BY <1>5, <1>12
    <3> QED
      BY <3>1, <3>2, <3>3, <3>4
  <2>2. s[k] \in h[s[l]]
    BY <2>1 DEF Ordered
  <2>3. k # l
    BY <1>5, <2>1
  <2>4. s[k] # s[l]
    BY <1>5, <2>3 DEF IsInjective
  <2> QED
    BY <2>1, <2>2, <2>4
<1>13. ASSUME NEW i \in 1 .. Len(u), NEW j \in 1 .. Len(u), j < i
       PROVE  u[i] # u[j] /\ u[j] \in g[u[i]]
  <2>1. i # 1
    BY <1>8, <1>13
  <2>2. i - 1 \in 1 .. Len(r) /\ u[i] = r[i - 1]
    BY <1>10, <2>1
  <2>3. CASE j = 1
    BY <1>9, <1>11, <2>2, <2>3
  <2>4. CASE j # 1
    <3>1. j - 1 \in 1 .. Len(r) /\ u[j] = r[j - 1]
      BY <1>10, <2>4
    <3>2. j - 1 < i - 1
      BY <1>8, <1>13
    <3>3. u[i] # u[j] /\ u[j] \in h[u[i]]
      BY <1>12, <2>2, <3>1, <3>2
    <3> QED
      BY <1>11, <2>2, <3>3
  <2> QED
    BY <2>3, <2>4
<1>14. IsInjective(u)
  <2>1. \A i, j \in 1 .. Len(u) : i < j \/ j < i \/ i = j
    BY <1>8
  <2> QED
    BY <1>8, <1>13, <2>1 DEF IsInjective
<1>15. Range(u) = Range(s) \union {c}
  <2>1. ASSUME NEW i \in 1 .. Len(u) PROVE u[i] \in Range(s) \union {c}
    BY <1>9, <1>10, <1>11
  <2>2. c \in Range(u)
    <3>1. 1 \in 1 .. Len(u)
      BY <1>8
    <3> QED
      BY <1>8, <1>9, <3>1 DEF Range
  <2>3. ASSUME NEW k \in 1 .. Len(r) PROVE r[k] \in Range(u)
    <3>1. k + 1 \in 1 .. Len(u) /\ k + 1 # 1 /\ (k + 1) - 1 = k
      BY <1>5, <1>7
    <3>2. u[k + 1] = r[k]
      BY <1>10, <3>1
    <3> QED
      BY <1>8, <3>1, <3>2 DEF Range
  <2>4. Range(r) \subseteq Range(u)
    BY <1>5, <2>3 DEF Range
  <2>5. Range(u) \subseteq Range(s) \union {c}
    BY <1>8, <2>1 DEF Range
  <2> QED
    BY <1>1, <2>2, <2>4, <2>5
<1>16. c \in Range(s) => Len(u) = Len(s)
  <2>1. ASSUME c \in Range(s) PROVE Len(u) = Len(s)
    <3>1. Len(r) = Len(s) - 1
      BY <1>1, <2>1
    <3> QED
      BY <1>5, <1>7, <3>1
  <2> QED
    BY <2>1
<1>17. Ordered(u, g)
  BY <1>13 DEF Ordered
<1> QED
  BY <1>7, <1>8, <1>9, <1>14, <1>15, <1>16, <1>17

\* What the cache keeps of u, and what a task that it does not keep has seen pass.
LEMMA PutSeq ==
  ASSUME NEW u \in Seq(Tasks), IsInjective(u), Len(u) >= 1, NEW g, Ordered(u, g),
         \A d \in Range(u) : IsFiniteSet(g[d]),
         NEW q, q = SubSeq(u, 1, IF Len(u) > CompletedCap THEN CompletedCap ELSE Len(u))
  PROVE  /\ q \in Seq(Tasks) /\ IsInjective(q) /\ Len(q) <= CompletedCap
         /\ u[1] \in Range(q) /\ Range(q) \subseteq Range(u)
         /\ Ordered(q, g)
         /\ \A d \in Range(u) \ Range(q) : Cardinality(g[d]) >= CompletedCap
<1>0. DOMAIN u = 1 .. Len(u)
  BY LenProperties
<1>1. Len(u) \in Nat
  BY LenProperties
<1>2. CompletedCap \in Nat /\ CompletedCap >= 1
  OBVIOUS
<1>3. PICK n \in Nat : /\ 1 <= n /\ n <= Len(u) /\ n <= CompletedCap /\ (n = CompletedCap \/ n = Len(u))
                       /\ q = SubSeq(u, 1, n)
  BY <1>1, <1>2
<1>4. q = SubSeq(u, 1, n)
  BY <1>3
<1>5. q \in Seq(Tasks) /\ Len(q) = n /\ \A i \in 1 .. n : q[i] = u[i]
  <2>1. \A i \in 1 .. n : i \in 1 .. Len(u)
    BY <1>1, <1>3
  <2>2. \A i \in 1 .. Len(u) : u[i] \in Tasks
    BY ElementOfSeq
  <2>3. \A i \in 1 .. n : u[i] \in Tasks
    BY <2>1, <2>2
  <2>4. /\ SubSeq(u, 1, n) \in Seq(Tasks) /\ Len(SubSeq(u, 1, n)) = IF 1 <= n THEN n - 1 + 1 ELSE 0
        /\ \A i \in 1 .. n - 1 + 1 : SubSeq(u, 1, n)[i] = u[1 + i - 1]
    BY <1>3, <2>3, SubSeqProperties
  <2>5. n - 1 + 1 = n /\ \A i \in 1 .. n : 1 + i - 1 = i
    BY <1>3
  <2>6. q \in Seq(Tasks) /\ Len(q) = (IF 1 <= n THEN n - 1 + 1 ELSE 0) /\ \A i \in 1 .. n - 1 + 1 : q[i] = u[1 + i - 1]
    BY ONLY <1>4, <2>4
  <2>7. Len(q) = n
    BY <1>3, <2>5, <2>6
  <2> QED
    BY <2>5, <2>6, <2>7
<1>6. DOMAIN q = 1 .. n
  BY <1>5, LenProperties
<1>7. \A i \in 1 .. n : i \in 1 .. Len(u)
  BY <1>1, <1>3
<1>8. IsInjective(q)
  BY <1>0, <1>5, <1>6, <1>7 DEF IsInjective
<1>9. Range(q) \subseteq Range(u)
  BY <1>0, <1>5, <1>6, <1>7 DEF Range
<1>10. u[1] \in Range(q)
  <2>1. 1 \in 1 .. n
    BY <1>3
  <2>2. q[1] = u[1]
    BY <1>5, <2>1
  <2> QED
    BY <1>6, <2>1, <2>2 DEF Range
<1>11. Ordered(q, g)
  BY <1>5, <1>7 DEF Ordered
<1>12. ASSUME NEW d \in Range(u) \ Range(q) PROVE Cardinality(g[d]) >= CompletedCap
  <2>1. PICK k \in 1 .. Len(u) : d = u[k]
    BY <1>0 DEF Range
  <2>2. k \notin 1 .. n
    <3>1. ASSUME k \in 1 .. n PROVE FALSE
      <4>1. q[k] = d
        BY <1>5, <2>1, <3>1
      <4> QED
        BY <1>6, <1>12, <3>1, <4>1 DEF Range
    <3> QED
      BY <3>1
  <2>3. n < k /\ n = CompletedCap
    BY <1>1, <1>3, <2>2
  <2>4. \A i \in 1 .. n : u[i] \in g[d]
    <3>1. \A i \in 1 .. n : i < k
      BY <1>1, <1>3, <2>3
    <3> QED
      BY <1>7, <2>1, <3>1 DEF Ordered
  <2> DEFINE f == [i \in 1 .. n |-> u[i]]
  <2>5. f \in Injection(1 .. n, g[d])
    BY <1>0, <1>7, <2>4 DEF Injection, IsInjective
  <2>6. IsFiniteSet(g[d])
    BY <1>12
  <2>7. Cardinality(1 .. n) <= Cardinality(g[d])
    BY <2>5, <2>6, FS_Injection
  <2>8. Cardinality(1 .. n) = n
    <3>1. 1 \in Int /\ n \in Int
      BY <1>3
    <3>2. Cardinality(1 .. n) = IF 1 > n THEN 0 ELSE n - 1 + 1
      BY <3>1, FS_Interval
    <3> QED
      BY <1>3, <3>2
  <2>9. Cardinality(g[d]) \in Nat
    BY <2>6, FS_CardinalityType
  <2> QED
    BY <1>3, <2>3, <2>7, <2>8, <2>9
<1> QED
  BY <1>3, <1>5, <1>8, <1>9, <1>10, <1>11, <1>12

\* Histories grow by those that pass, and are finite.
LEMMA Touched ==
  ASSUME NEW c \in Tasks, since \in [Tasks -> SUBSET Tasks], completed \in Seq(Tasks), Recency, since' = Touch(c)
  PROVE  /\ since' \in [Tasks -> SUBSET Tasks]
         /\ \A d \in Tasks : IsFiniteSet(since'[d])
         /\ \A d \in Cached : d # c => since[d] \subseteq since'[d] /\ c \in since'[d]
         /\ \A d \in Tasks \ Cached : d # c => since'[d] = since[d]
         /\ Cached \subseteq Tasks
<1>1. Cached \subseteq Tasks
  <2>1. \A i \in 1 .. Len(completed) : completed[i] \in Tasks
    BY ElementOfSeq
  <2>2. DOMAIN completed = 1 .. Len(completed)
    BY LenProperties
  <2> QED
    BY <2>1, <2>2 DEF Cached, Range
<1>2. \A d \in Tasks : since'[d] = CASE d = c -> {}
                                     [] d # c /\ d \in Cached -> since[d] \union {c}
                                     [] OTHER -> since[d]
  BY DEF Touch
<1>3. /\ since'[c] = {}
      /\ \A d \in Tasks : d # c /\ d \in Cached => since'[d] = since[d] \union {c}
      /\ \A d \in Tasks : d # c /\ d \notin Cached => since'[d] = since[d]
  BY <1>2
<1>4. since' \in [Tasks -> SUBSET Tasks]
  <2>1. \A d \in Tasks : since'[d] \in SUBSET Tasks
    BY <1>3
  <2>2. since' = [d \in Tasks |-> since'[d]]
    BY DEF Touch
  <2> QED
    BY ONLY <2>1, <2>2
<1>5. \A d \in Tasks : IsFiniteSet(since'[d])
  <2> SUFFICES ASSUME NEW d \in Tasks PROVE IsFiniteSet(since'[d])
    OBVIOUS
  <2>1. IsFiniteSet(since[d])
    BY DEF Recency
  <2>2. IsFiniteSet(since[d] \union {c})
    BY <2>1, FS_AddElement
  <2>3. IsFiniteSet({})
    BY FS_EmptySet
  <2> QED
    BY <1>3, <2>1, <2>2, <2>3
<1> QED
  BY <1>1, <1>3, <1>4, <1>5

\* A push or a look-up keeps the cache in the order of use, and drops a task
\* only if enough others have passed it.
LEMMA CacheUsed ==
  ASSUME NEW c \in Tasks, since \in [Tasks -> SUBSET Tasks], Recency,
         completed \in Seq(Tasks), IsInjective(completed), Len(completed) <= CompletedCap,
         since' = Touch(c),
         \/ completed' = Put(c)
         \/ completed' = Used(completed, c) /\ c \in Cached
  PROVE  /\ completed' \in Seq(Tasks) /\ IsInjective(completed') /\ Len(completed') <= CompletedCap
         /\ Recency' /\ c \in Cached' /\ Cached' \subseteq Cached \union {c}
         /\ completed' = Used(completed, c) => Cached \subseteq Cached'
         /\ \A d \in Cached \ Cached' : Cardinality(since'[d]) >= CompletedCap
         /\ \A d \in Tasks \ (Cached \union {c}) : since'[d] = since[d]
<1> DEFINE u == Used(completed, c)
<1>1. /\ \A d \in Tasks : IsFiniteSet(since'[d])
      /\ \A d \in Cached : d # c => since[d] \subseteq since'[d] /\ c \in since'[d]
      /\ \A d \in Tasks \ Cached : d # c => since'[d] = since[d]
      /\ Cached \subseteq Tasks
  BY Touched
<1>2. Ordered(completed, since)
  BY DEF Recency
<1>3. /\ u \in Seq(Tasks) /\ IsInjective(u) /\ (c \in Range(completed) => Len(u) = Len(completed))
      /\ Len(u) >= 1 /\ u[1] = c /\ Range(u) = Range(completed) \union {c}
      /\ Ordered(u, since')
  <2>1. \A d \in Range(completed) : d # c => since[d] \subseteq since'[d] /\ c \in since'[d]
    BY <1>1 DEF Cached
  <2> QED
    BY <1>2, <2>1, UsedSeq
<1>4. \A d \in Tasks \ (Cached \union {c}) : since'[d] = since[d]
  BY <1>1
<1>5. CASE completed' = u /\ c \in Cached
  <2>1. Cached' = Cached
    BY <1>3, <1>5 DEF Cached
  <2>2. Recency'
    BY <1>1, <1>3, <1>5 DEF Recency
  <2>3. Len(completed') <= CompletedCap
    BY <1>3, <1>5 DEF Cached
  <2> QED
    BY <1>3, <1>4, <1>5, <2>1, <2>2, <2>3
<1>6. CASE completed' = Put(c)
  <2>1. completed' = SubSeq(u, 1, IF Len(u) > CompletedCap THEN CompletedCap ELSE Len(u))
    BY <1>6 DEF Put
  <2> HIDE DEF u
  <2>2. \A d \in Range(u) : IsFiniteSet(since'[d])
    BY <1>1, <1>3 DEF Cached
  <2>3. /\ completed' \in Seq(Tasks) /\ IsInjective(completed') /\ Len(completed') <= CompletedCap
        /\ u[1] \in Range(completed') /\ Range(completed') \subseteq Range(u)
        /\ Ordered(completed', since')
        /\ \A d \in Range(u) \ Range(completed') : Cardinality(since'[d]) >= CompletedCap
    BY <1>3, <2>1, <2>2, PutSeq
  <2>4. Cached' = Range(completed')
    BY DEF Cached
  <2>5. Recency'
    BY <1>1, <2>3 DEF Recency
  <2>6. c \in Cached' /\ Cached' \subseteq Cached \union {c}
    BY <1>3, <2>3, <2>4 DEF Cached
  <2>7. \A d \in Cached \ Cached' : Cardinality(since'[d]) >= CompletedCap
    BY <1>3, <2>3, <2>4 DEF Cached
  <2>8. completed' = u => Cached \subseteq Cached'
    BY <1>3, <2>4 DEF Cached
  <2> QED
    BY <1>4, <2>3, <2>5, <2>6, <2>7, <2>8 DEF u
<1> QED
  BY <1>5, <1>6

---------------------------------------------------------------------------
(* Types, and what a worker is about *)

Entries == [op : Ops, task : Tasks \union {NoTask}]

LEMMA EntryKinds ==
  ASSUME doing \in [Writers -> Entries]
  PROVE  /\ Idle \in Entries /\ Idle.op = "none"
         /\ \A t \in Writers : doing[t].op \in Ops /\ doing[t].task \in Tasks \union {NoTask}
         /\ \A t \in Writers, o \in Ops, c \in Tasks : [doing EXCEPT ![t] = [op |-> o, task |-> c]] \in [Writers -> Entries]
         /\ \A t \in Writers, o \in Ops : [doing EXCEPT ![t].op = o] \in [Writers -> Entries]
         /\ \A t \in Writers : [doing EXCEPT ![t] = Idle] \in [Writers -> Entries]
BY DEF Entries, Idle, Ops

\* The queries that a step of a thread and a step of the query make of one another.
LEMMA QueryKinds ==
  ASSUME query \in Queries
  PROVE  /\ query.kind \in {"byId", "status"} /\ query.id \in Tasks \union {NoTask}
         /\ query.left \subseteq Workers /\ query.seen \subseteq Tasks /\ query.listed \subseteq Tasks
         /\ query.busy \in BOOLEAN /\ query.over \in BOOLEAN
         /\ query.before \subseteq Tasks /\ query.gone \subseteq Tasks /\ query.stayed \subseteq Tasks
         /\ \A S \in SUBSET Tasks : [query EXCEPT !.gone = @ \union S] \in Queries
         /\ \A c : [query EXCEPT !.stayed = @ \ {c}] \in Queries
BY DEF Queries

LEMMA TypesInit == Init => Types /\ Sane
<1> SUFFICES ASSUME Init PROVE Types /\ Sane
  OBVIOUS
<1>1. completed \in Seq(Tasks) /\ IsInjective(completed) /\ Len(completed) <= CompletedCap
  <2>1. completed = <<>>
    BY DEF Init
  <2>2. <<>> \in Seq(Tasks) /\ Len(<<>>) = 0
    BY EmptySeq
  <2>3. DOMAIN <<>> = {}
    BY <2>2, LenProperties
  <2>4. IsInjective(<<>>)
    BY <2>3 DEF IsInjective
  <2> QED
    BY <2>1, <2>2, <2>4
<1>2. query \in Queries /\ query.over = TRUE
  BY DEF Init, Asked, Queries
<1>3. doing \in [Writers -> Entries] /\ \A t \in Writers : doing[t].op = "none"
  BY DEF Init, Idle, Entries, Ops
<1>4. Types
  BY <1>1, <1>2, <1>3 DEF Types, Init, Entries
<1>5. Sane
  BY <1>2, <1>3, Kinds DEF Sane, Init
<1> QED
  BY <1>4, <1>5

\* The steps of the writers that leave the cache alone.
LEMMA TypesWrite ==
  ASSUME Types, Sane,
         \/ \E w \in Workers : \/ \E c \in Tasks : UpdateLocks(w, c) \/ CompleteLocks(w, c)
                               \/ DeleteLocks(w) \/ DeleteStatus(w)
         \/ \E c \in Tasks : NoteLocks(c)
         \/ \E t \in Writers : UpdateStatus(t)
  PROVE  Types' /\ Sane'
<1>1. /\ board \in [Workers -> SUBSET Tasks] /\ doing \in [Writers -> Entries]
      /\ noted \subseteq Deadlined /\ ended \subseteq Tasks /\ query \in Queries
  BY DEF Types, Entries
<1>2. completed' = completed /\ since' = since
  BY DEF UpdateLocks, CompleteLocks, DeleteLocks, DeleteStatus, NoteLocks, UpdateStatus
<1>3. (/\ board' \in [Workers -> SUBSET Tasks] /\ doing' \in [Writers -> Entries]
       /\ noted' \subseteq Deadlined /\ ended' \subseteq Tasks /\ query' \in Queries) => Types'
  BY <1>2 DEF Types, Entries
<1>4. CASE \E w \in Workers : \E c \in Tasks : UpdateLocks(w, c)
  <2>1. PICK w \in Workers, c \in Tasks : UpdateLocks(w, c)
    BY <1>4
  <2>2. Types'
    <3>1. doing' \in [Writers -> Entries]
      BY <1>1, <2>1, EntryKinds, Kinds DEF UpdateLocks, Ops
    <3> QED
      BY <1>1, <1>3, <2>1, <3>1 DEF UpdateLocks
  <2>3. Sane'
    <3>1. /\ doing'[w].op = "update" /\ doing'[w].task = c /\ Home[c] = w
          /\ \A t \in Writers \ {w} : doing'[t] = doing[t]
          /\ board' = board /\ query' = query /\ ended' = ended
      BY <1>1, <2>1, Kinds DEF UpdateLocks
    <3> QED
      BY <3>1, Kinds DEF Sane
  <2> QED
    BY <2>2, <2>3
<1>5. CASE \E w \in Workers : \E c \in Tasks : CompleteLocks(w, c)
  <2>1. PICK w \in Workers, c \in Tasks : CompleteLocks(w, c)
    BY <1>5
  <2>2. Types'
    <3>1. doing' \in [Writers -> Entries]
      BY <1>1, <2>1, EntryKinds, Kinds DEF CompleteLocks, Ops
    <3> QED
      BY <1>1, <1>3, <2>1, <3>1 DEF CompleteLocks
  <2>3. Sane'
    <3>1. /\ doing'[w].op = "push" /\ doing'[w].task = c /\ c \in board[w] \ ended
          /\ \A t \in Writers \ {w} : doing'[t] = doing[t]
          /\ board' = board /\ query' = query /\ ended' = ended
      BY <1>1, <2>1, Kinds DEF CompleteLocks
    <3> QED
      BY <3>1, Kinds DEF Sane
  <2> QED
    BY <2>2, <2>3
<1>6. CASE \E w \in Workers : DeleteLocks(w)
  <2>1. PICK w \in Workers : DeleteLocks(w)
    BY <1>6
  <2>2. Types'
    <3>1. doing' \in [Writers -> Entries]
      BY <1>1, <2>1, EntryKinds, Kinds DEF DeleteLocks, Ops
    <3> QED
      BY <1>1, <1>3, <2>1, <3>1 DEF DeleteLocks
  <2>3. Sane'
    <3>1. /\ doing'[w].op = "delete" /\ doing'[w].task = doing[w].task /\ doing[w].op = "pushed"
          /\ \A t \in Writers \ {w} : doing'[t] = doing[t]
          /\ board' = board /\ query' = query /\ ended' = ended
      BY <1>1, <2>1, Kinds DEF DeleteLocks, Entries
    <3> QED
      BY <3>1, Kinds DEF Sane
  <2> QED
    BY <2>2, <2>3
<1>7. CASE \E w \in Workers : DeleteStatus(w)
  <2>1. PICK w \in Workers : DeleteStatus(w)
    BY <1>7
  <2>2. doing[w].op = "delete" /\ doing[w].task \in board[w] /\ doing[w].task \in Tasks
    BY <1>1, <2>1, Kinds DEF DeleteStatus, Sane
  <2>3. Types'
    <3>1. doing' \in [Writers -> Entries]
      BY <1>1, <2>1, EntryKinds, Kinds DEF DeleteStatus
    <3>2. board' \in [Workers -> SUBSET Tasks] /\ ended' \subseteq Tasks
      BY <1>1, <2>1, <2>2 DEF DeleteStatus
    <3>3. query' \in Queries
      BY <1>1, <2>1, QueryKinds DEF DeleteStatus
    <3> QED
      BY <1>1, <1>3, <2>1, <3>1, <3>2, <3>3 DEF DeleteStatus
  <2>4. Sane'
    <3>1. /\ doing'[w].op = "none"
          /\ \A t \in Writers \ {w} : doing'[t] = doing[t]
          /\ board'[w] = board[w] \ {doing[w].task} /\ ended' = ended \union {doing[w].task}
          /\ \A v \in Workers \ {w} : board'[v] = board[v]
      BY <1>1, <2>1, Kinds DEF DeleteStatus, Idle
    <3>2. query'.over = query.over /\ query'.kind = query.kind /\ query'.id = query.id
      BY <1>1, <2>1 DEF DeleteStatus, Queries
    <3>3. Home[doing[w].task] = w
      BY <2>2 DEF Sane
    <3>4. \A v \in Workers : doing'[v].op \in {"push", "pushed", "delete"} =>
             doing'[v].task \in board'[v] \ ended'
      BY <3>1, <3>3, Kinds DEF Sane
    <3>5. \A v \in Workers : \A c \in board'[v] : Home[c] = v
      BY <3>1 DEF Sane
    <3>6. \A t \in Writers : doing'[t].op # "none" => doing'[t] = doing[t]
      BY <3>1
    <3>7. \A t \in Writers : doing'[t].op # "none" => doing'[t].task \in Tasks
      BY <3>6 DEF Sane
    <3>8. \A v \in Workers : doing'[v].op # "none" => Home[doing'[v].task] = v
      BY <3>6, Kinds DEF Sane
    <3>9. doing'[Scheduler].op \in {"none", "update"}
      BY <3>1, Kinds DEF Sane
    <3> QED
      BY <3>2, <3>4, <3>5, <3>7, <3>8, <3>9 DEF Sane
  <2> QED
    BY <2>3, <2>4
<1>8. CASE \E c \in Tasks : NoteLocks(c)
  <2>1. PICK c \in Tasks : NoteLocks(c)
    BY <1>8
  <2>2. Types'
    <3>1. doing' \in [Writers -> Entries]
      BY <1>1, <2>1, EntryKinds, Kinds DEF NoteLocks, Ops
    <3> QED
      BY <1>1, <1>3, <2>1, <3>1 DEF NoteLocks
  <2>3. Sane'
    <3>1. /\ doing'[Scheduler].op = "update" /\ doing'[Scheduler].task = c
          /\ \A t \in Writers \ {Scheduler} : doing'[t] = doing[t]
          /\ board' = board /\ query' = query /\ ended' = ended
      BY <1>1, <2>1, Kinds DEF NoteLocks
    <3> QED
      BY <3>1, Kinds DEF Sane
  <2> QED
    BY <2>2, <2>3
<1>9. CASE \E t \in Writers : UpdateStatus(t)
  <2>1. PICK t \in Writers : UpdateStatus(t)
    BY <1>9
  <2>2. doing[t].op = "update" /\ doing[t].task \in Tasks /\ Home[doing[t].task] \in Workers
    BY <1>1, <2>1, Kinds DEF UpdateStatus, Sane
  <2>3. Types'
    <3>1. doing' \in [Writers -> Entries]
      BY <1>1, <2>1, EntryKinds DEF UpdateStatus
    <3>2. board' \in [Workers -> SUBSET Tasks]
      BY <1>1, <2>1, <2>2 DEF UpdateStatus
    <3> QED
      BY <1>1, <1>3, <2>1, <3>1, <3>2 DEF UpdateStatus
  <2>4. Sane'
    <3>1. /\ doing'[t].op = "none"
          /\ \A v \in Writers \ {t} : doing'[v] = doing[v]
          /\ board'[Home[doing[t].task]] = board[Home[doing[t].task]] \union {doing[t].task}
          /\ \A v \in Workers \ {Home[doing[t].task]} : board'[v] = board[v]
          /\ query' = query /\ ended' = ended
      BY <1>1, <2>1, <2>2 DEF UpdateStatus, Idle
    <3>2. \A v \in Workers : board[v] \subseteq board'[v]
      BY <3>1
    <3>3. \A v \in Workers : \A c \in board'[v] : Home[c] = v
      BY <3>1 DEF Sane
    <3>4. \A v \in Writers : doing'[v].op # "none" => doing'[v] = doing[v]
      BY <3>1
    <3> QED
      BY <3>1, <3>2, <3>3, <3>4, Kinds DEF Sane
  <2> QED
    BY <2>3, <2>4
<1> QED
  BY <1>4, <1>5, <1>6, <1>7, <1>8, <1>9

LEMMA TypesPush ==
  ASSUME Types, Sane, Recency, NEW w \in Workers, Push(w)
  PROVE  Types' /\ Sane' /\ Recency'
<1> DEFINE c == doing[w].task
<1>1. /\ board \in [Workers -> SUBSET Tasks] /\ doing \in [Writers -> Entries]
      /\ noted \subseteq Deadlined /\ ended \subseteq Tasks /\ query \in Queries
      /\ completed \in Seq(Tasks) /\ IsInjective(completed) /\ Len(completed) <= CompletedCap
      /\ since \in [Tasks -> SUBSET Tasks]
  BY DEF Types, Entries
<1>2. /\ doing[w].op = "push" /\ completed' = Put(c) /\ since' = Touch(c)
      /\ doing' = [doing EXCEPT ![w].op = "pushed"]
      /\ query' = [query EXCEPT !.gone = @ \union (Cached \ Range(Put(c)))]
      /\ board' = board /\ noted' = noted /\ ended' = ended
  BY DEF Push
<1>3. c \in Tasks
  BY <1>2, Kinds DEF Sane
<1> HIDE DEF c
<1>4. completed' \in Seq(Tasks) /\ IsInjective(completed') /\ Len(completed') <= CompletedCap /\ Recency'
  BY <1>1, <1>2, <1>3, CacheUsed
<1>5. since' \in [Tasks -> SUBSET Tasks] /\ Cached \subseteq Tasks
  BY <1>1, <1>2, <1>3, Touched
<1>6. query' \in Queries
  BY <1>1, <1>2, <1>5, QueryKinds
<1>7. doing' \in [Writers -> Entries]
  BY <1>1, <1>2, EntryKinds, Kinds DEF Ops
<1>8. Types'
  BY <1>1, <1>2, <1>4, <1>5, <1>6, <1>7 DEF Types, Entries
<1>9. Sane'
  <2>1. /\ doing'[w].op = "pushed" /\ doing'[w].task = doing[w].task /\ doing[w].op = "push"
        /\ \A t \in Writers \ {w} : doing'[t] = doing[t]
    BY <1>1, <1>2, Kinds DEF Entries
  <2>2. query'.over = query.over /\ query'.kind = query.kind /\ query'.id = query.id
    BY <1>1, <1>2 DEF Queries
  <2> QED
    BY <1>2, <2>1, <2>2, Kinds DEF Sane
<1> QED
  BY <1>4, <1>8, <1>9

\* The steps of a query.
LEMMA TypesAsk ==
  ASSUME Types, Sane, Ask
  PROVE  /\ Types' /\ Sane'
         /\ \E k \in {"byId", "status"}, c \in Tasks \union {NoTask} : query' = Asked(k, c)
<1>1. PICK k \in {"byId", "status"}, c \in Tasks \union {NoTask} :
        query' = Asked(k, c) /\ (k = "byId" => c \in Tasks)
  BY DEF Ask, AskById, AskStatus
<1>2. Asked(k, c) \in Queries /\ Asked(k, c).kind = k /\ Asked(k, c).id = c
  BY DEF Asked, Queries
<1>3. UNCHANGED <<board, completed, doing, noted, ended, since>>
  BY DEF Ask
<1>4. Types'
  BY <1>1, <1>2, <1>3 DEF Types
<1>5. Sane'
  BY <1>1, <1>2, <1>3 DEF Sane
<1> QED
  BY <1>1, <1>4, <1>5

LEMMA TypesLook ==
  ASSUME Types, Sane, \/ \E w \in Workers : LookAtBoard(w) \/ CopyBoard(w)
                      \/ Report
  PROVE  Types' /\ Sane'
<1>1. UNCHANGED <<board, completed, doing, noted, ended, since>>
  BY DEF LookAtBoard, CopyBoard, Report
<1>2. query \in Queries /\ board \in [Workers -> SUBSET Tasks] /\ Cached \subseteq Tasks
  <2>1. query \in Queries /\ board \in [Workers -> SUBSET Tasks]
    BY DEF Types
  <2>2. Cached \subseteq Tasks
    <3>1. completed \in Seq(Tasks)
      BY DEF Types
    <3>2. DOMAIN completed = 1 .. Len(completed)
      BY <3>1, LenProperties
    <3>3. \A i \in 1 .. Len(completed) : completed[i] \in Tasks
      BY <3>1, ElementOfSeq
    <3> QED
      BY <3>2, <3>3 DEF Cached, Range
  <2> QED
    BY <2>1, <2>2
<1>3. query' \in Queries /\ query'.kind = query.kind /\ query'.id = query.id /\ (query.over => query'.over)
  <2>1. ASSUME NEW w \in Workers, LookAtBoard(w)
        PROVE  query' \in Queries /\ query'.kind = query.kind /\ query'.id = query.id /\ (query.over => query'.over)
    <3>1. query.id \in Tasks
      BY <2>1 DEF LookAtBoard, Sane
    <3>2. BoardHeld(w) \in BOOLEAN
      BY DEF BoardHeld
    <3> QED
      BY <1>2, <2>1, <3>1, <3>2 DEF LookAtBoard, Queries
  <2>2. ASSUME NEW w \in Workers, CopyBoard(w)
        PROVE  query' \in Queries /\ query'.kind = query.kind /\ query'.id = query.id /\ (query.over => query'.over)
    BY <1>2, <2>2 DEF CopyBoard, Queries
  <2>3. ASSUME Report
        PROVE  query' \in Queries /\ query'.kind = query.kind /\ query'.id = query.id /\ (query.over => query'.over)
    <3>1. CompletedHeld \in BOOLEAN
      BY DEF CompletedHeld
    <3> QED
      BY <1>2, <2>3, <3>1 DEF Report, Queries
  <2> QED
    BY <2>1, <2>2, <2>3
<1>4. Types'
  BY <1>1, <1>3 DEF Types
<1>5. Sane'
  <2>1. ~query'.over /\ query'.kind = "byId" => query'.id \in Tasks
    BY <1>3 DEF Sane
  <2> QED
    BY <1>1, <2>1 DEF Sane
<1> QED
  BY <1>4, <1>5

LEMMA TypesCache ==
  ASSUME Types, Sane, Recency, LookInCache
  PROVE  /\ Types' /\ Sane' /\ Recency'
         /\ Cached' = Cached /\ \A d \in Tasks \ Cached : since'[d] = since[d]
<1>1. /\ query \in Queries /\ since \in [Tasks -> SUBSET Tasks]
      /\ completed \in Seq(Tasks) /\ IsInjective(completed) /\ Len(completed) <= CompletedCap
  BY DEF Types
<1>2. /\ UNCHANGED <<board, doing, noted, ended>> /\ query.id \in Tasks
      /\ query' = [query EXCEPT !.listed = IF ~CompletedHeld /\ query.id \in Cached THEN {query.id} ELSE {},
                                !.over = TRUE, !.busy = @ \/ CompletedHeld]
      /\ completed' = IF ~CompletedHeld /\ query.id \in Cached THEN Used(completed, query.id) ELSE completed
      /\ since' = IF ~CompletedHeld /\ query.id \in Cached THEN Touch(query.id) ELSE since
  BY DEF LookInCache, Sane
<1>3. query' \in Queries /\ query'.over
  <2>1. CompletedHeld \in BOOLEAN
    BY DEF CompletedHeld
  <2> QED
    BY <1>1, <1>2, <2>1 DEF Queries
<1>4. Sane'
  BY <1>2, <1>3 DEF Sane
<1>5. /\ completed' \in Seq(Tasks) /\ IsInjective(completed') /\ Len(completed') <= CompletedCap
      /\ since' \in [Tasks -> SUBSET Tasks] /\ Recency'
      /\ Cached' = Cached /\ \A d \in Tasks \ Cached : since'[d] = since[d]
  <2>1. CASE ~CompletedHeld /\ query.id \in Cached
    <3> DEFINE c == query.id
    <3>1. c \in Tasks /\ completed' = Used(completed, c) /\ since' = Touch(c) /\ c \in Cached
      BY <1>2, <2>1
    <3> HIDE DEF c
    <3>2. /\ completed' \in Seq(Tasks) /\ IsInjective(completed') /\ Len(completed') <= CompletedCap
          /\ Recency' /\ Cached' \subseteq Cached \union {c} /\ Cached \subseteq Cached'
          /\ \A d \in Tasks \ (Cached \union {c}) : since'[d] = since[d]
      BY <1>1, <3>1, CacheUsed
    <3>3. since' \in [Tasks -> SUBSET Tasks]
      BY <1>1, <3>1, Touched
    <3> QED
      BY <3>1, <3>2, <3>3
  <2>2. CASE ~(~CompletedHeld /\ query.id \in Cached)
    BY <1>1, <1>2, <2>2 DEF Recency, Cached
  <2> QED
    BY <2>1, <2>2
<1>6. Types'
  BY <1>2, <1>3, <1>5 DEF Types
<1> QED
  BY <1>4, <1>5, <1>6

---------------------------------------------------------------------------
(* What a query has found, or is still going to find *)

\* What is on its board, and not about to be deleted from it.
Staying(c) == c \in board[Home[c]] /\ ~Leaving(c)

\* A step of a thread that writes: what can be found stays where it can be
\* found, unless the cache drops it.
Kept ==
  /\ query'.kind = query.kind /\ query'.id = query.id /\ query'.left = query.left
  /\ query'.seen = query.seen /\ query'.listed = query.listed /\ query'.busy = query.busy
  /\ query'.over = query.over /\ query'.before = query.before
  /\ query.gone \subseteq query'.gone /\ query'.stayed \subseteq query.stayed
  /\ \A c \in Tasks : c \in Cached => c \in Cached' \/ c \in query'.gone
  /\ \A c \in Tasks : Staying(c) => c \in Cached' \/ Staying(c)'
  /\ \A c \in query'.stayed : c \in board[Home[c]] => c \in board'[Home[c]]

LEMMA AnswersKept ==
  ASSUME Types, Sane, Searching, Answers, Kept
  PROVE  Searching' /\ Answers'
<1>1. query.before \subseteq Tasks /\ (~query.over /\ query.kind = "byId" => query.id \in Tasks)
  BY DEF Types, Queries, Sane
<1>2. query'.before \ query'.gone \subseteq query.before \ query.gone
  BY DEF Kept
<1>3. ASSUME NEW c \in Tasks, c \notin query'.gone, Ahead(c) PROVE Ahead(c)'
  <2>1. c \in Cached \/ (Staying(c) /\ Home[c] \in query.left)
    BY <1>3 DEF Ahead, Staying
  <2>2. c \in Cached' \/ (Staying(c)' /\ Home[c] \in query'.left)
    BY <1>3, <2>1 DEF Kept
  <2> QED
    BY <2>2 DEF Ahead, Staying
<1>4. Searching'
  <2> SUFFICES ASSUME ~query'.over PROVE Searching'
    BY DEF Searching
  <2>1. ~query.over
    BY DEF Kept
  <2>2. query'.kind = "byId" /\ ~query'.busy /\ query'.id \in query'.before \ query'.gone => Ahead(query.id)'
    <3> SUFFICES ASSUME query'.kind = "byId" /\ ~query'.busy /\ query'.id \in query'.before \ query'.gone
                 PROVE  Ahead(query.id)'
      OBVIOUS
    <3>1. PICK c \in Tasks : c = query.id
      BY <1>1, <2>1 DEF Kept
    <3>2. Ahead(query.id)
      BY <1>2, <2>1 DEF Kept, Searching
    <3>3. Ahead(c)
      BY <3>1, <3>2
    <3>4. Ahead(c)'
      BY <1>3, <3>1, <3>3 DEF Kept
    <3>5. c = query'.id
      BY <3>1 DEF Kept
    <3> QED
      BY <3>4, <3>5 DEF Ahead, Leaving
  <2>3. query'.kind = "status" /\ query'.seen = {} => \A c \in query'.before \ query'.gone : Ahead(c)'
    <3> SUFFICES ASSUME query'.kind = "status", query'.seen = {}, NEW c \in query'.before \ query'.gone
                 PROVE  Ahead(c)'
      OBVIOUS
    <3>1. Ahead(c) /\ c \in Tasks
      BY <1>1, <1>2, <2>1 DEF Kept, Searching
    <3> QED
      BY <1>3, <3>1
  <2>4. query'.kind = "status" =>
           \A c \in query'.stayed : c \in query'.seen \/ (c \in board'[Home[c]] /\ Home[c] \in query'.left)
    BY <2>1 DEF Kept, Searching
  <2> QED
    BY <2>2, <2>3, <2>4 DEF Searching
<1>5. Answers'
  <2>1. KnownFound'
    BY <1>2 DEF Answers, KnownFound, Kept
  <2>2. NothingVanishes'
    BY <1>2 DEF Answers, NothingVanishes, Kept
  <2>3. StayersListed'
    BY DEF Answers, StayersListed, Kept
  <2> QED
    BY <2>1, <2>2, <2>3 DEF Answers
<1> QED
  BY <1>4, <1>5

\* A task that is pushed is in the cache from then on, or has been driven out.
DrivenKept ==
  /\ \A c \in Tasks : PushedOnce(c)' => PushedOnce(c) \/ c \in Cached'
  /\ \A c \in Tasks : c \in Cached => c \in Cached' \/ Cardinality(since'[c]) >= CompletedCap
  /\ \A c \in Tasks : c \notin Cached => c \in Cached' \/ since'[c] = since[c]

LEMMA DrivenStep == Driven /\ DrivenKept => Driven'
BY DEF Driven, DrivenKept

\* The steps that write a board.
LEMMA BoardsWritten ==
  ASSUME Types, Sane,
         \/ \E w \in Workers : \/ \E c \in Tasks : UpdateLocks(w, c) \/ CompleteLocks(w, c)
                               \/ DeleteLocks(w)
         \/ \E c \in Tasks : NoteLocks(c)
         \/ \E t \in Writers : UpdateStatus(t)
  PROVE  Kept /\ DrivenKept
<1>1. /\ board \in [Workers -> SUBSET Tasks] /\ doing \in [Writers -> Entries]
  BY DEF Types, Entries
<1>2. UNCHANGED <<completed, query, ended, since>>
  BY DEF UpdateLocks, CompleteLocks, DeleteLocks, NoteLocks, UpdateStatus
<1>3. \A w \in Workers : board[w] \subseteq board'[w]
  <2>1. ASSUME NEW t \in Writers, UpdateStatus(t) PROVE \A w \in Workers : board[w] \subseteq board'[w]
    BY <1>1, <2>1 DEF UpdateStatus
  <2> QED
    BY <2>1 DEF UpdateLocks, CompleteLocks, DeleteLocks, NoteLocks
<1>4. \A c \in Tasks : Leaving(c)' <=> Leaving(c)
  <2> SUFFICES \A w \in Workers : \/ doing'[w].op \in {"pushed", "delete"} /\ doing[w].op \in {"pushed", "delete"}
                                     /\ doing'[w].task = doing[w].task
                                  \/ doing'[w].op \notin {"pushed", "delete"} /\ doing[w].op \notin {"pushed", "delete"}
    BY DEF Leaving
  <2>1. ASSUME NEW w \in Workers, NEW c \in Tasks, UpdateLocks(w, c) \/ CompleteLocks(w, c)
        PROVE  doing'[w].op \notin {"pushed", "delete"} /\ doing[w].op \notin {"pushed", "delete"}
               /\ \A v \in Writers \ {w} : doing'[v] = doing[v]
    BY <1>1, <2>1, Kinds DEF UpdateLocks, CompleteLocks, Idle
  <2>2. ASSUME NEW w \in Workers, DeleteLocks(w)
        PROVE  doing'[w].op \in {"pushed", "delete"} /\ doing[w].op \in {"pushed", "delete"}
               /\ doing'[w].task = doing[w].task
               /\ \A v \in Writers \ {w} : doing'[v] = doing[v]
    BY <1>1, <2>2, Kinds DEF DeleteLocks, Entries
  <2>3. ASSUME NEW c \in Tasks, NoteLocks(c) PROVE \A v \in Workers : doing'[v] = doing[v]
    BY <1>1, <2>3, Kinds DEF NoteLocks
  <2>4. ASSUME NEW t \in Writers, UpdateStatus(t)
        PROVE  doing'[t].op \notin {"pushed", "delete"} /\ doing[t].op \notin {"pushed", "delete"}
               /\ \A v \in Writers \ {t} : doing'[v] = doing[v]
    BY <1>1, <2>4 DEF UpdateStatus, Idle
  <2> QED
    BY <2>1, <2>2, <2>3, <2>4, Kinds
<1>5. Cached' = Cached
  BY <1>2 DEF Cached
<1>6. query.stayed \subseteq Tasks
  BY DEF Types, Queries
<1>7. Kept
  BY <1>2, <1>3, <1>4, <1>5, <1>6, Kinds DEF Kept, Staying
<1>8. DrivenKept
  BY <1>2, <1>4, <1>5 DEF DrivenKept, PushedOnce
<1> QED
  BY <1>7, <1>8

LEMMA Deleted ==
  ASSUME Types, Sane, Driven, NEW w \in Workers, DeleteStatus(w)
  PROVE  Kept /\ DrivenKept
<1>1. /\ board \in [Workers -> SUBSET Tasks] /\ doing \in [Writers -> Entries] /\ query \in Queries
  BY DEF Types, Entries
<1>2. PICK c \in Tasks : c = doing[w].task /\ Home[c] = w /\ Leaving(c)
  BY <1>1, Kinds DEF DeleteStatus, Sane, Leaving
<1>3. /\ UNCHANGED <<completed, since>> /\ ended' = ended \union {c}
      /\ query' = [query EXCEPT !.stayed = @ \ {c}]
      /\ \A v \in Workers : board'[v] = IF v = w THEN board[v] \ {c} ELSE board[v]
      /\ \A v \in Workers : doing'[v] = IF v = w THEN Idle ELSE doing[v]
  BY <1>1, <1>2, Kinds DEF DeleteStatus
<1>4. \A d \in Tasks : Leaving(d)' => Leaving(d)
  BY <1>3 DEF Leaving, Idle
<1>5. Cached' = Cached
  BY <1>3 DEF Cached
<1>6. \A d \in Tasks : Staying(d) => Staying(d)'
  <2> SUFFICES ASSUME NEW d \in Tasks, Staying(d) PROVE Staying(d)'
    OBVIOUS
  <2>1. d # c
    BY <1>2 DEF Staying
  <2> QED
    BY <1>3, <1>4, <2>1, Kinds DEF Staying
<1>7. Kept
  <2>1. /\ query'.kind = query.kind /\ query'.id = query.id /\ query'.left = query.left
        /\ query'.seen = query.seen /\ query'.listed = query.listed /\ query'.busy = query.busy
        /\ query'.over = query.over /\ query'.before = query.before
        /\ query'.gone = query.gone /\ query'.stayed = query.stayed \ {c} /\ query.stayed \subseteq Tasks
    BY <1>1, <1>3 DEF Queries
  <2>2. \A d \in query'.stayed : d \in board[Home[d]] => d \in board'[Home[d]]
    BY <1>3, <2>1, Kinds
  <2> QED
    BY <1>5, <1>6, <2>1, <2>2 DEF Kept
<1>8. DrivenKept
  BY <1>2, <1>3, <1>4, <1>5 DEF DrivenKept, PushedOnce
<1> QED
  BY <1>7, <1>8

LEMMA Pushed ==
  ASSUME Types, Sane, Recency, NEW w \in Workers, Push(w)
  PROVE  Kept /\ DrivenKept
<1>1. /\ doing \in [Writers -> Entries] /\ query \in Queries
      /\ completed \in Seq(Tasks) /\ IsInjective(completed) /\ Len(completed) <= CompletedCap
      /\ since \in [Tasks -> SUBSET Tasks]
  BY DEF Types, Entries
<1>2. PICK c \in Tasks : c = doing[w].task
  BY Kinds DEF Push, Sane
<1>3. /\ completed' = Put(c) /\ since' = Touch(c) /\ UNCHANGED <<board, ended>>
      /\ query' = [query EXCEPT !.gone = @ \union (Cached \ Range(Put(c)))]
  BY <1>2 DEF Push
<1>4. /\ c \in Cached' /\ \A d \in Cached \ Cached' : Cardinality(since'[d]) >= CompletedCap
      /\ \A d \in Tasks \ (Cached \union {c}) : since'[d] = since[d]
  BY <1>1, <1>3, CacheUsed
<1>5. Cached' = Range(Put(c))
  BY <1>3 DEF Cached
<1>6. \A d \in Tasks : Leaving(d)' => Leaving(d) \/ d = c
  <2>1. doing'[w].task = c /\ \A v \in Workers \ {w} : doing'[v] = doing[v]
    BY <1>1, <1>2, Kinds DEF Push, Entries
  <2> QED
    BY <2>1 DEF Leaving
<1>7. Kept
  <2>1. /\ query'.kind = query.kind /\ query'.id = query.id /\ query'.left = query.left
        /\ query'.seen = query.seen /\ query'.listed = query.listed /\ query'.busy = query.busy
        /\ query'.over = query.over /\ query'.before = query.before
        /\ query'.gone = query.gone \union (Cached \ Cached') /\ query'.stayed = query.stayed
    BY <1>1, <1>3, <1>5 DEF Queries
  <2>2. \A d \in Tasks : Staying(d) => d \in Cached' \/ Staying(d)'
    BY <1>3, <1>4, <1>6 DEF Staying
  <2> QED
    BY <1>3, <2>1, <2>2 DEF Kept
<1>8. DrivenKept
  BY <1>3, <1>4, <1>6 DEF DrivenKept, PushedOnce
<1> QED
  BY <1>7, <1>8

\* A query begins.
LEMMA Begun ==
  ASSUME Types, Sane, NEW k \in {"byId", "status"}, NEW i \in Tasks \union {NoTask}, query' = Asked(k, i),
         UNCHANGED <<board, completed, doing, noted, ended, since>>
  PROVE  Searching' /\ Answers'
<1>1. /\ query'.kind = k /\ query'.id = i /\ query'.left = Workers /\ query'.seen = {} /\ ~query'.over
      /\ query'.before = {d \in Tasks : d \in Cached \/ (Running(d) /\ ~Leaving(d))}
      /\ query'.stayed = {d \in Tasks : Running(d)}
  BY DEF Asked
<1>2. \A c \in Tasks : Running(c) => c \in board[Home[c]] /\ Home[c] \in Workers
  BY DEF Running, Sane
<1>3. \A c \in query'.before : Ahead(c)'
  BY <1>1, <1>2 DEF Ahead, Cached, Leaving
<1>4. query'.id \in query'.before => Ahead(query.id)'
  BY <1>3 DEF Ahead, Leaving
<1>5. Searching'
  BY <1>1, <1>2, <1>3, <1>4 DEF Searching
<1>6. Answers'
  BY <1>1 DEF Answers, KnownFound, NothingVanishes, StayersListed
<1> QED
  BY <1>5, <1>6

\* get_status_by_id looks at a board.
LEMMA LookedAt ==
  ASSUME Types, Sane, Searching, NEW w \in Workers, LookAtBoard(w)
  PROVE  Searching' /\ Answers'
<1> DEFINE found == ~BoardHeld(w) /\ query.id \in board[w]
<1>1. query \in Queries /\ BoardHeld(w) \in BOOLEAN
  BY DEF Types, BoardHeld
<1>2. /\ UNCHANGED <<board, completed, doing>> /\ ~query.over /\ query.kind = "byId"
      /\ query'.kind = "byId" /\ query'.id = query.id /\ query'.left = query.left \ {w}
      /\ query'.seen = (IF found THEN {query.id} ELSE {}) /\ query'.over = found
      /\ query'.busy = (query.busy \/ BoardHeld(w))
      /\ query'.before = query.before /\ query'.gone = query.gone
  BY <1>1 DEF LookAtBoard, Queries
<1>3. ASSUME ~found, ~query'.busy, query.id \in query.before \ query.gone PROVE Ahead(query.id)'
  <2>1. ~query.busy /\ query.id \notin board[w]
    BY <1>2, <1>3
  <2>2. Ahead(query.id)
    BY <1>2, <1>3, <2>1 DEF Searching
  <2>3. query'.id = query.id
    BY <1>2
  <2> QED
    BY <1>2, <2>1, <2>2, <2>3 DEF Ahead, Cached, Leaving
<1>4. Searching'
  BY <1>2, <1>3 DEF Searching
<1>5. Answers'
  BY <1>2 DEF Answers, KnownFound, NothingVanishes, StayersListed
<1> QED
  BY <1>4, <1>5

\* ... and at the cache.
LEMMA LookedInCache ==
  ASSUME Types, Sane, Searching, LookInCache, Cached' = Cached
  PROVE  Searching' /\ Answers'
<1>1. query \in Queries /\ CompletedHeld \in BOOLEAN
  BY DEF Types, CompletedHeld
<1>2. /\ ~query.over /\ query.kind = "byId" /\ query.left = {}
      /\ query'.kind = "byId" /\ query'.id = query.id /\ query'.over
      /\ query'.listed = (IF ~CompletedHeld /\ query.id \in Cached THEN {query.id} ELSE {})
      /\ query'.busy = (query.busy \/ CompletedHeld)
      /\ query'.before = query.before /\ query'.gone = query.gone
  BY <1>1 DEF LookInCache, Queries
<1>3. ~query.busy /\ query.id \in query.before \ query.gone => query.id \in Cached
  BY <1>2 DEF Searching, Ahead
<1>4. Searching'
  BY <1>2 DEF Searching
<1>5. Answers'
  BY <1>2, <1>3 DEF Answers, KnownFound, NothingVanishes, StayersListed
<1> QED
  BY <1>4, <1>5

\* get_status copies a board.
LEMMA Copied ==
  ASSUME Types, Sane, Searching, NEW w \in Workers, CopyBoard(w)
  PROVE  Searching' /\ Answers'
<1>1. query \in Queries
  BY DEF Types
<1>2. /\ UNCHANGED <<board, completed, doing>> /\ ~query.over /\ query.kind = "status"
      /\ query'.kind = "status" /\ ~query'.over /\ query'.left = query.left \ {w}
      /\ query'.seen = query.seen \union board[w]
      /\ query'.before = query.before /\ query'.gone = query.gone /\ query'.stayed = query.stayed
  BY <1>1 DEF CopyBoard, Queries
<1>3. ASSUME query'.seen = {}, NEW c \in query.before \ query.gone PROVE Ahead(c)'
  <2>1. query.seen = {} /\ c \notin board[w]
    BY <1>2, <1>3
  <2>2. Ahead(c)
    BY <1>2, <2>1 DEF Searching
  <2> QED
    BY <1>2, <2>1, <2>2 DEF Ahead, Cached, Leaving
<1>4. \A c \in query.stayed : c \in query'.seen \/ (c \in board[Home[c]] /\ Home[c] \in query'.left)
  BY <1>2 DEF Searching
<1>5. Searching'
  BY <1>2, <1>3, <1>4 DEF Searching
<1>6. Answers'
  BY <1>2 DEF Answers, KnownFound, NothingVanishes, StayersListed
<1> QED
  BY <1>5, <1>6

\* Of the boards that are left one is the next.
LEMMA NextLeft ==
  ASSUME query.left \subseteq Workers, \A w \in Workers : ~NextBoard(w)
  PROVE  query.left = {}
<1> SUFFICES ASSUME query.left # {} PROVE FALSE
  OBVIOUS
<1> DEFINE f == [w \in query.left |-> NumWorkers - w]
<1>1. NumWorkers \in Nat /\ \A w \in query.left : w \in Nat /\ w <= NumWorkers
  BY DEF Workers
<1>2. IsFiniteSet(query.left)
  <2>1. IsFiniteSet(0 .. NumWorkers - 1)
    BY <1>1, FS_Interval
  <2> QED
    BY <2>1, FS_Subset DEF Workers
<1>3. \A w \in query.left : f[w] \in Nat
  BY <1>1
<1>4. PICK w \in query.left : \A v \in query.left : f[v] <= f[w]
  <2> HIDE DEF f
  <2> QED
    BY <1>2, <1>3, Greatest
<1>5. \A v \in query.left : w <= v
  <2> SUFFICES ASSUME NEW v \in query.left PROVE w <= v
    OBVIOUS
  <2>1. f[v] = NumWorkers - v /\ f[w] = NumWorkers - w /\ f[v] <= f[w]
    BY <1>4
  <2>2. v \in Nat /\ w \in Nat /\ NumWorkers \in Nat
    BY <1>1
  <2> HIDE DEF f
  <2> QED
    BY <2>1, <2>2
<1> QED
  BY <1>5 DEF NextBoard

\* /status reports.
LEMMA Reported ==
  ASSUME Types, Sane, Searching, Report
  PROVE  Searching' /\ Answers'
<1>1. query \in Queries /\ CompletedHeld \in BOOLEAN
  BY DEF Types, CompletedHeld
<1>2. query.left = {}
  BY <1>1, NextLeft DEF Report, Queries
<1>3. /\ ~query.over /\ query.kind = "status"
      /\ query'.kind = "status" /\ query'.over /\ query'.seen = query.seen
      /\ query'.listed = (IF query.seen = {} /\ ~CompletedHeld THEN Cached ELSE {})
      /\ query'.busy = (query.seen = {} /\ CompletedHeld)
      /\ query'.before = query.before /\ query'.gone = query.gone /\ query'.stayed = query.stayed
  BY <1>1 DEF Report, Queries
<1>4. query.seen = {} => query.before \ query.gone \subseteq Cached
  BY <1>2, <1>3 DEF Searching, Ahead
<1>5. query.stayed \subseteq query.seen
  BY <1>2, <1>3 DEF Searching
<1>6. Searching'
  BY <1>3 DEF Searching
<1>7. Answers'
  BY <1>3, <1>4, <1>5 DEF Answers, KnownFound, NothingVanishes, StayersListed
<1> QED
  BY <1>6, <1>7

---------------------------------------------------------------------------
(* The theorems *)

LEMMA StatusInit == Init => StatusInv
<1> SUFFICES ASSUME Init PROVE StatusInv
  OBVIOUS
<1>1. Types /\ Sane
  BY TypesInit
<1>2. query.over /\ query.kind = "byId" /\ query.id = NoTask /\ query.before \subseteq Tasks
  BY DEF Init, Asked
<1>3. Searching /\ Answers
  BY <1>2, Kinds DEF Searching, Answers, KnownFound, NothingVanishes, StayersListed
<1>4. Recency
  <2>1. IsFiniteSet({})
    BY FS_EmptySet
  <2>2. Len(completed) = 0
    BY EmptySeq DEF Init
  <2>3. 1 .. Len(completed) = {}
    BY <2>2
  <2> QED
    BY <2>1, <2>3 DEF Recency, Ordered, Init
<1>5. Driven
  BY Kinds DEF Driven, PushedOnce, Leaving, Init, Idle
<1> QED
  BY <1>1, <1>3, <1>4, <1>5 DEF StatusInv

LEMMA StatusStep == StatusInv /\ [Next]_vars => StatusInv'
<1> SUFFICES ASSUME StatusInv, [Next]_vars PROVE StatusInv'
  OBVIOUS
<1>1. Types /\ Sane /\ Searching /\ Answers /\ Recency /\ Driven
  BY DEF StatusInv
<1>2. CASE \/ \E w \in Workers : \/ \E c \in Tasks : UpdateLocks(w, c) \/ CompleteLocks(w, c)
                                 \/ DeleteLocks(w)
           \/ \E c \in Tasks : NoteLocks(c)
           \/ \E t \in Writers : UpdateStatus(t)
  <2>1. Types' /\ Sane'
    BY <1>1, <1>2, TypesWrite
  <2>2. Kept /\ DrivenKept
    BY <1>1, <1>2, BoardsWritten
  <2>3. completed' = completed /\ since' = since
    BY <1>2 DEF UpdateLocks, CompleteLocks, DeleteLocks, NoteLocks, UpdateStatus
  <2> QED
    BY <1>1, <2>1, <2>2, <2>3, AnswersKept, DrivenStep DEF StatusInv, Recency
<1>3. ASSUME NEW w \in Workers, DeleteStatus(w) PROVE StatusInv'
  <2>1. Types' /\ Sane'
    BY <1>1, <1>3, TypesWrite
  <2>2. Kept /\ DrivenKept
    BY <1>1, <1>3, Deleted
  <2>3. completed' = completed /\ since' = since
    BY <1>3 DEF DeleteStatus
  <2> QED
    BY <1>1, <2>1, <2>2, <2>3, AnswersKept, DrivenStep DEF StatusInv, Recency
<1>4. ASSUME NEW w \in Workers, Push(w) PROVE StatusInv'
  <2>1. Types' /\ Sane' /\ Recency'
    BY <1>1, <1>4, TypesPush
  <2>2. Kept /\ DrivenKept
    BY <1>1, <1>4, Pushed
  <2> QED
    BY <1>1, <2>1, <2>2, AnswersKept, DrivenStep DEF StatusInv
<1>5. CASE Ask
  <2>1. /\ Types' /\ Sane'
        /\ \E k \in {"byId", "status"}, c \in Tasks \union {NoTask} : query' = Asked(k, c)
    BY <1>1, <1>5, TypesAsk
  <2>2. UNCHANGED <<board, completed, doing, noted, ended, since>>
    BY <1>5 DEF Ask
  <2>3. Searching' /\ Answers'
    BY <1>1, <2>1, <2>2, Begun
  <2>4. Recency' /\ Driven'
    BY <1>1, <2>2 DEF Recency, Driven, PushedOnce, Leaving, Cached
  <2> QED
    BY <2>1, <2>3, <2>4 DEF StatusInv
<1>6. CASE (\E w \in Workers : LookAtBoard(w) \/ CopyBoard(w)) \/ Report
  <2>1. Types' /\ Sane'
    BY <1>1, <1>6, TypesLook
  <2>2. Searching' /\ Answers'
    BY <1>1, <1>6, LookedAt, Copied, Reported
  <2>3. UNCHANGED <<board, completed, doing, noted, ended, since>>
    BY <1>6 DEF LookAtBoard, CopyBoard, Report
  <2>4. Recency' /\ Driven'
    BY <1>1, <2>3 DEF Recency, Driven, PushedOnce, Leaving, Cached
  <2> QED
    BY <2>1, <2>2, <2>4 DEF StatusInv
<1>7. CASE LookInCache
  <2>1. /\ Types' /\ Sane' /\ Recency'
        /\ Cached' = Cached /\ \A d \in Tasks \ Cached : since'[d] = since[d]
    BY <1>1, <1>7, TypesCache
  <2>2. Searching' /\ Answers'
    BY <1>1, <1>7, <2>1, LookedInCache
  <2>3. Driven'
    <3>1. \A c \in Tasks : PushedOnce(c)' => PushedOnce(c)
      BY <1>7 DEF LookInCache, PushedOnce, Leaving
    <3> QED
      BY <1>1, <2>1, <3>1 DEF Driven
  <2> QED
    BY <2>1, <2>2, <2>3 DEF StatusInv
<1>8. CASE UNCHANGED vars
  <2>1. UNCHANGED <<board, completed, doing, noted, ended, query, since>>
    BY <1>8 DEF vars
  <2>2. Types' /\ Sane'
    BY <1>1, <2>1 DEF Types, Sane
  <2>3. Searching' /\ Answers'
    BY <1>1, <2>1 DEF Searching, Ahead, Leaving, Cached, Answers, KnownFound, NothingVanishes, StayersListed
  <2>4. Recency' /\ Driven'
    BY <1>1, <2>1 DEF Recency, Driven, PushedOnce, Leaving, Cached
  <2> QED
    BY <2>2, <2>3, <2>4 DEF StatusInv
<1> QED
  BY <1>2, <1>3, <1>4, <1>5, <1>6, <1>7, <1>8 DEF Next

\* The inductive invariant holds in every state: the orders in which threads lock a board and the
\* cache never let a task slip between the looks of a query.
THEOREM Queried == Spec => []StatusInv
BY StatusInit, StatusStep, PTL DEF Spec

\* Every variable has its type, no task is twice in the cache, and the cache
\* keeps to its capacity, whatever is pushed and looked up in what order.
THEOREM StatusTypes == Spec => []StatusTypeOK
<1>1. StatusInv => StatusTypeOK
  <2> SUFFICES ASSUME StatusInv PROVE StatusTypeOK
    OBVIOUS
  <2>1. Types
    BY DEF StatusInv
  <2>2. \A t \in Writers : /\ doing[t].op \in {"none", "update", "push", "pushed", "delete"}
                           /\ doing[t].task \in Tasks \union {NoTask}
    BY <2>1 DEF Types, Ops
  <2>3. /\ query.left \subseteq Workers /\ query.over \in BOOLEAN /\ query.busy \in BOOLEAN
        /\ \A S \in {query.seen, query.listed, query.before, query.gone, query.stayed} : S \subseteq Tasks
    BY <2>1 DEF Types, Queries
  <2> QED
    BY <2>1, <2>2, <2>3 DEF StatusTypeOK, Types
<1> QED
  BY <1>1, Queried, PTL

\* get_status_by_id finds a task that was known when the query began, although
\* the task may move to the cache while the query passes over the boards.
THEOREM FoundById == Spec => []KnownFound
<1>1. StatusInv => KnownFound
  BY DEF StatusInv, Answers
<1> QED
  BY <1>1, Queried, PTL

\* A /status that finds every board empty lists all that ran or had completed
\* when it began: the cache is read after the boards, and pushed to before.
THEOREM NoneVanishes == Spec => []NothingVanishes
<1>1. StatusInv => NothingVanishes
  BY DEF StatusInv, Answers
<1> QED
  BY <1>1, Queried, PTL

\* A task that is on its board for the whole of a /status query is reported.
THEOREM AllStayersListed == Spec => []StayersListed
<1>1. StatusInv => StayersListed
  BY DEF StatusInv, Answers
<1> QED
  BY <1>1, Queried, PTL

\* The cache drops a completed task only after as many others as it holds have
\* completed or been looked up: the entries stand in the order of their use.
THEOREM LruKeepsRecent == Spec => []RecentKept
<1>1. StatusInv => RecentKept
  BY DEF StatusInv, Types, Driven, PushedOnce, RecentKept
<1> QED
  BY <1>1, Queried, PTL
=============================================================================
