----------------------------- MODULE FuncResult -----------------------------
(***************************************************************************)
(* The rendezvous between a /call handler, which awaits a ResultFuture on  *)
(* the HTTP executor, and whoever answers the call: the coroutine that ran *)
(* the guest, or the global scheduler thread when it could not spawn one   *)
(* (src/result.rs; its callers in src/runwasm.rs and src/axum/server.rs).  *)
(*                                                                         *)
(* completed, result and waker are three mutexes; a step is what a thread  *)
(* does between two of them.                                               *)
(***************************************************************************)
EXTENDS Naturals

CONSTANTS Calls,      \* the calls in flight
          NoResult    \* the None of `result`

Answers == {"value", "error"}

ASSUME CallsAssumption == NoResult \notin Answers

VARIABLES
    completed,  \* the flag, per call
    result,     \* the answer stored, NoResult before
    waker,      \* is a waker stored?
    locked,     \* does the answering thread hold the `completed` mutex?
    fpc,        \* the future: where poll is, or how it ended
    woken,      \* the executor owes the future a poll
    apc,        \* the answering thread
    answer,     \* what it answers
    rounds      \* set_result, set_completed pairs it still has to do

answerVars == <<apc, answer, rounds>>
vars == <<completed, result, waker, locked, fpc, woken, answerVars>>

Init ==
    /\ completed = [c \in Calls |-> FALSE]
    /\ result = [c \in Calls |-> NoResult]
    /\ waker = [c \in Calls |-> FALSE]
    /\ locked = [c \in Calls |-> FALSE]
    /\ fpc = [c \in Calls |-> "parked"]
    /\ woken = [c \in Calls |-> TRUE]
    /\ apc = [c \in Calls |-> "working"]
    /\ answer = [c \in Calls |-> "value"]
    /\ rounds = [c \in Calls |-> 0]

---------------------------------------------------------------------------
(* The future *)

\* The executor polls a future it was woken for, or for a reason of its own:
\* the handler shares its task with the connection's input and output.
Poll(c) ==
    /\ fpc[c] = "parked"
    /\ fpc' = [fpc EXCEPT ![c] = "check"]
    /\ woken' = [woken EXCEPT ![c] = FALSE]
    /\ UNCHANGED <<completed, result, waker, locked, answerVars>>

\* The client goes away and the handler is dropped at its await.
Disconnect(c) ==
    /\ fpc[c] = "parked"
    /\ fpc' = [fpc EXCEPT ![c] = "dropped"]
    /\ UNCHANGED <<completed, result, waker, locked, woken, answerVars>>

\* poll: the flag, read under its mutex, which is released at once ...
Check(c) ==
    /\ fpc[c] = "check" /\ ~locked[c]
    /\ fpc' = [fpc EXCEPT ![c] = IF completed[c] THEN "ready" ELSE "register"]
    /\ UNCHANGED <<completed, result, waker, locked, woken, answerVars>>

\* ... then the waker is stored and the future waits.
Register(c) ==
    /\ fpc[c] = "register"
    /\ waker' = [waker EXCEPT ![c] = TRUE]
    /\ fpc' = [fpc EXCEPT ![c] = "parked"]
    /\ UNCHANGED <<completed, result, locked, woken, answerVars>>

\* Poll::Ready: the clone of result is unwrapped.
Deliver(c) ==
    /\ fpc[c] = "ready"
    /\ fpc' = [fpc EXCEPT ![c] = IF result[c] = NoResult THEN "panicked" ELSE "delivered"]
    /\ UNCHANGED <<completed, result, waker, locked, woken, answerVars>>

---------------------------------------------------------------------------
(* The answer *)

\* Mutant of Answered: the flag goes up without a result.
AnsweredFlagOnly(c, a) ==
    /\ apc[c] = "working"
    /\ apc' = [apc EXCEPT ![c] = "complete"]
    /\ answer' = [answer EXCEPT ![c] = a]
    /\ rounds' = [rounds EXCEPT ![c] = 1]
    /\ UNCHANGED <<completed, result, waker, locked, fpc, woken>>

\* One answer: the coroutine's, whose guest function returned or trapped, or
\* spawn_scheduler's for an error call_func gave without answering.
Answered(c, a) ==
    /\ apc[c] = "working"
    /\ apc' = [apc EXCEPT ![c] = "result"]
    /\ answer' = [answer EXCEPT ![c] = a]
    /\ rounds' = [rounds EXCEPT ![c] = 1]
    /\ UNCHANGED <<completed, result, waker, locked, fpc, woken>>

\* UNSCHEDULABLE, or micro_process fails: call_func answers, and
\* spawn_scheduler answers once more.
CallRejected(c) ==
    /\ apc[c] = "working"
    /\ apc' = [apc EXCEPT ![c] = "result"]
    /\ answer' = [answer EXCEPT ![c] = "error"]
    /\ rounds' = [rounds EXCEPT ![c] = 2]
    /\ UNCHANGED <<completed, result, waker, locked, fpc, woken>>

\* Nobody answers: the request queue was full, set_slots dropped the
\* coroutine, or the closure panicked under catch_unwind.
NoAnswer(c) ==
    /\ apc[c] = "working"
    /\ apc' = [apc EXCEPT ![c] = "gone"]
    /\ UNCHANGED <<completed, result, waker, locked, fpc, woken, answer, rounds>>

\* set_result
SetResult(c) ==
    /\ apc[c] = "result"
    /\ result' = [result EXCEPT ![c] = answer[c]]
    /\ apc' = [apc EXCEPT ![c] = "complete"]
    /\ UNCHANGED <<completed, waker, locked, fpc, woken, answer, rounds>>

\* set_completed: the flag, whose mutex stays locked ...
SetCompleted(c) ==
    /\ apc[c] = "complete"
    /\ completed' = [completed EXCEPT ![c] = TRUE]
    /\ locked' = [locked EXCEPT ![c] = TRUE]
    /\ apc' = [apc EXCEPT ![c] = "wake"]
    /\ UNCHANGED <<result, waker, fpc, woken, answer, rounds>>

\* Mutant of Wake: the waker is dropped.
WakeForgets(c) ==
    /\ apc[c] = "wake"
    /\ waker' = [waker EXCEPT ![c] = FALSE]
    /\ locked' = [locked EXCEPT ![c] = FALSE]
    /\ rounds' = [rounds EXCEPT ![c] = @ - 1]
    /\ apc' = [apc EXCEPT ![c] = IF rounds[c] > 1 THEN "result" ELSE "gone"]
    /\ UNCHANGED <<completed, result, fpc, woken, answer>>

\* ... while the waker is taken and woken.
Wake(c) ==
    /\ apc[c] = "wake"
    /\ woken' = [woken EXCEPT ![c] = @ \/ waker[c]]
    /\ waker' = [waker EXCEPT ![c] = FALSE]
    /\ locked' = [locked EXCEPT ![c] = FALSE]
    /\ rounds' = [rounds EXCEPT ![c] = @ - 1]
    /\ apc' = [apc EXCEPT ![c] = IF rounds[c] > 1 THEN "result" ELSE "gone"]
    /\ UNCHANGED <<completed, result, fpc, answer>>

---------------------------------------------------------------------------
Finish(c) == \/ \E a \in Answers : Answered(c, a)
             \/ CallRejected(c) \/ NoAnswer(c)
Answering(c) == SetResult(c) \/ SetCompleted(c) \/ Wake(c)
Polling(c) == Check(c) \/ Register(c) \/ Deliver(c)
Executor(c) == woken[c] /\ Poll(c)

Next == \E c \in Calls :
            Finish(c) \/ Answering(c) \/ Polling(c) \/ Poll(c) \/ Disconnect(c)

Spec == Init /\ [][Next]_vars

\* Every thread goes on, and the executor polls what was woken.  Nothing
\* obliges it to poll a future that was not.
FairSpec ==
    Spec /\ \A c \in Calls :
        /\ WF_vars(Finish(c)) /\ WF_vars(Answering(c))
        /\ WF_vars(Polling(c)) /\ WF_vars(Executor(c))

---------------------------------------------------------------------------
TypeOK ==
    /\ completed \in [Calls -> BOOLEAN]
    /\ result \in [Calls -> Answers \union {NoResult}]
    /\ waker \in [Calls -> BOOLEAN]
    /\ locked \in [Calls -> BOOLEAN]
    /\ fpc \in [Calls -> {"parked", "check", "register", "ready", "delivered",
                          "panicked", "dropped"}]
    /\ woken \in [Calls -> BOOLEAN]
    /\ apc \in [Calls -> {"working", "result", "complete", "wake", "gone"}]
    /\ answer \in [Calls -> Answers]
    /\ rounds \in [Calls -> 0 .. 2]

\* A ready future finds the answer: the unwrap in poll never panics, and what
\* it returns is what the answering thread said (set_result, set_completed).
ReadyHasResult ==
    \A c \in Calls :
        /\ fpc[c] # "panicked"
        /\ fpc[c] \in {"ready", "delivered"} => result[c] = answer[c]

\* A future that stored its waker before the answer is woken by it: the handler
\* returns, unless its client has gone.
WaitersServed ==
    \A c \in Calls :
        fpc[c] = "parked" /\ waker[c] /\ apc[c] \in {"result", "complete"} ~>
            fpc[c] \in {"delivered", "dropped"}

\* Once the result is complete the handler gets it.
CallsServed ==
    \A c \in Calls : completed[c] ~> fpc[c] \in {"delivered", "dropped"}
=============================================================================
