------------------------------- MODULE Spawner -------------------------------
(***************************************************************************)
(* spawner.c: main creates threads one by one and paces itself with one    *)
(* semaphore that every thread posts and that main waits for after each    *)
(* creation and once more at the end.  Nobody is joined.                   *)
(***************************************************************************)
EXTENDS Integers, FiniteSets

CONSTANT NO_OF_THREADS

Threads == 1 .. NO_OF_THREADS

VARIABLES s,     \* the semaphore
          pc,    \* where each thread is
          i,     \* main's loop counter
          main   \* where main is

vars == <<s, pc, i, main>>

Init ==
    /\ s = 1
    /\ pc = [t \in Threads |-> "none"]
    /\ i = 0
    /\ main = "create"

(* foo *)
Post(t) ==
    /\ pc[t] = "running"
    /\ pc' = [pc EXCEPT ![t] = "done"]
    /\ s' = s + 1
    /\ UNCHANGED <<i, main>>

Create ==
    /\ main = "create"
    /\ pc' = [pc EXCEPT ![i + 1] = "running"]
    /\ main' = "pace"
    /\ UNCHANGED <<s, i>>

(* The wait of the loop, and its increment and test. *)
Pace ==
    /\ main = "pace" /\ s > 0
    /\ s' = s - 1
    /\ i' = i + 1
    /\ main' = IF i + 1 < NO_OF_THREADS THEN "create" ELSE "last"
    /\ UNCHANGED pc

(* "DONE", and the process ends with whatever threads it has left. *)
LastWait ==
    /\ main = "last" /\ s > 0
    /\ s' = s - 1
    /\ main' = "done"
    /\ UNCHANGED <<pc, i>>

Terminated == main = "done" /\ UNCHANGED vars

Main == Create \/ Pace \/ LastWait

Thread(t) == main # "done" /\ Post(t)

Next == Main \/ (\E t \in Threads : Thread(t)) \/ Terminated

Fairness == WF_vars(Main) /\ \A t \in Threads : WF_vars(Thread(t))

Spec == Init /\ [][Next]_vars /\ Fairness
-----------------------------------------------------------------------------
(* Properties *)

(* The semaphore starts with one post to spare, so that main is one thread  *)
(* ahead: no more than two threads run at a time, and the wait after the    *)
(* loop makes up for it: when main says DONE, no thread is cut off.         *)
ThreadsPaced ==
    LET running == Cardinality({t \in Threads : pc[t] = "running"})
    IN  /\ running <= 2
        /\ main = "done" => running = 0
=============================================================================
