------------------------------- MODULE Strikes -------------------------------
(***************************************************************************)
(* HyperSched with signals at any point, and a history of the workers      *)
(* whose handlers did at an unsafe point what is safe only in guest code   *)
(* and at the head of an idle loop: how far the harm reaches.              *)
(***************************************************************************)
EXTENDS HyperSched

VARIABLE struck     \* history: the workers with a Strike behind them

strikeVars == <<vars, struck>>

\* A handler on w, away from the safe points, takes the coroutine of the slot
\* (preemptive), or finds a second coroutine and chooses (set_curr).  One that
\* finds neither returns, and is no strike.
Strike(w) ==
    \/ pc[w] \notin SafePoints /\ (UrgInLoop(w) \/ UrgPreempts(w))
    \/ ret[w] \notin SafePoints /\ (AlrmInLoop(w) \/ AlrmSwitches(w))

StrikeInit == Init /\ struck = {}
StrikeNext == Next /\ struck' = struck \union {w \in Workers : Strike(w)}
StrikeSpec == StrikeInit /\ [][StrikeNext]_strikeVars

Sound == Workers \ struck

\* Places(c), apart: those the threads share, and those of one worker.
SharedPlaces(c) ==
    If(spc = "slot" /\ job = c, <<"scheduler", 0, 0>>)
    \union {<<"global", 0, i>> : i \in Positions(gq, c)}
    \union UNION {
        If(c \in rtq[w], <<"real-time global", w, 0>>)
        \union If(slot[w] = c, <<"slot", w, 0>>)
      : w \in Workers}
WorkerPlaces(w, c) ==
    If(curr[w] = c, <<"chosen", w, 0>>)
    \union If(Held(w, c), <<"held", w, 0>>)
    \union If(c \in rt[w], <<"real-time", w, 0>>)
    \union {<<"new", w, i>> : i \in Positions(newq[w], c)}
    \union {<<"suspended", w, i>> : i \in Positions(suspq[w], c)}
SoundPlaces(c) == SharedPlaces(c) \union UNION {WorkerPlaces(w, c) : w \in Sound}
StruckPlaces(c) == UNION {WorkerPlaces(w, c) : w \in struck}

\* Not made yet, freed, or dropped by set_slots.
Gone(c) == st[c] = "NONE" \/ c \in completed \union dropped

\* Whoever is struck, a coroutine has one owner at most among the shared
\* queues and the sound workers, which no struck worker has as well, and none
\* once it is gone: what a strike duplicates or frees too early stays on the
\* worker struck.
OneSoundOwner ==
    \A c \in Ids :
        /\ Cardinality(SoundPlaces(c)) <= IF Gone(c) THEN 0 ELSE 1
        /\ SoundPlaces(c) # {} => StruckPlaces(c) = {}

\* c was a struck worker's to lose: its own worker's, the one that admission
\* reckoned with, if it is real-time.
MayBeLost(c) == IF IsRealtime(c) THEN Home(c) \in struck ELSE struck # {}

\* A coroutine no sound place has is gone, or may be lost to a struck worker.
LostToStruck ==
    \A c \in Ids : SoundPlaces(c) = {} => Gone(c) \/ MayBeLost(c)

\* The mutex of the latency statistics is held by a coroutine at its critical
\* section, on a CPU, unless a strike took the holder off it there: then every
\* coroutine that ends after it waits for good.
LatencyHolderRuns ==
    latency # None =>
        \/ \E w \in Workers : hold[w] = latency /\ Point(w) = "stats"
        \/ MayBeLost(latency)

\* Worker.len of a sound worker counts the coroutines it owns: the handler's
\* `len > 1` and the loop's `len < capacity / 2` mean what they say.
SoundLenExact ==
    \A w \in Sound :
        len[w] = Len(newq[w]) + Len(suspq[w]) + Cardinality(rt[w])
                 + Cardinality({c \in Ids : curr[w] = c \/ Held(w, c)})

\* While guest code without a deadline runs on a sound worker, no real-time
\* coroutine the worker has fetched is waiting (set_curr, signal_handler).
SoundNrtYields ==
    \A w \in Sound :
        pc[w] = "body" /\ ~IsRealtime(hold[w]) => rt[w] = {}
=============================================================================
