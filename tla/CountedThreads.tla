--------------------------- MODULE CountedThreads ---------------------------
(***************************************************************************)
(* spawner_plus_counter.c: threads that each increment one shared counter  *)
(* NO_OF_LOOPS times under its mutex and post a semaphore, and main, which *)
(* waits for it and prints the counter.                                    *)
(*                                                                         *)
(* main means to wait for all the threads: it initializes the semaphore    *)
(* with -23.  sem_init takes an unsigned value and refuses this one, so    *)
(* that the semaphore keeps the 0 a global starts with.                    *)
(***************************************************************************)
EXTENDS Integers, FiniteSets

CONSTANTS NO_OF_THREADS, NO_OF_LOOPS

Threads == 1 .. NO_OF_THREADS

VARIABLES s,
          value, lock,  \* counter_t, the mutex as a semaphore
          pc, loops,    \* where each thread is, the increments it has made
          rc,           \* the value in a thread's, or main's, register
          main

vars == <<s, value, lock, pc, loops, rc, main>>

(* main creates all the threads before it does anything else; one that is   *)
(* not created yet is one that has not taken its first step.                *)
Init ==
    /\ s = 0
    /\ value = 0 /\ lock = 1
    /\ pc = [t \in Threads |-> "lock"]
    /\ loops = [t \in Threads |-> 0]
    /\ rc = [t \in Threads \union {0} |-> 0]
    /\ main = "wait"

Goto(t, here, there) ==
    /\ pc[t] = here
    /\ pc' = [pc EXCEPT ![t] = there]

-----------------------------------------------------------------------------
(* foo, and increment *)

(* Slip: no lock in increment. *)
LockCounterMissing(t) ==
    /\ Goto(t, "lock", "load")
    /\ UNCHANGED <<s, value, lock, loops, rc, main>>

LockCounter(t) ==
    /\ lock > 0
    /\ Goto(t, "lock", "load")
    /\ lock' = lock - 1
    /\ UNCHANGED <<s, value, loops, rc, main>>

(* value++ is a load and a store. *)
Load(t) ==
    /\ Goto(t, "load", "store")
    /\ rc' = [rc EXCEPT ![t] = value]
    /\ UNCHANGED <<s, value, lock, loops, main>>

Store(t) ==
    /\ Goto(t, "store", "unlock")
    /\ value' = rc[t] + 1
    /\ UNCHANGED <<s, lock, loops, rc, main>>

UnlockCounter(t) ==
    /\ Goto(t, "unlock", IF loops[t] + 1 < NO_OF_LOOPS THEN "lock" ELSE "post")
    /\ lock' = lock + 1
    /\ loops' = [loops EXCEPT ![t] = @ + 1]
    /\ UNCHANGED <<s, value, rc, main>>

Post(t) ==
    /\ Goto(t, "post", "done")
    /\ s' = s + 1
    /\ UNCHANGED <<value, lock, loops, rc, main>>

Thread(t) ==
    /\ main # "done"
    /\ LockCounter(t) \/ Load(t) \/ Store(t) \/ UnlockCounter(t) \/ Post(t)

-----------------------------------------------------------------------------
(* main, and get *)

Wait ==
    /\ main = "wait" /\ s > 0
    /\ s' = s - 1
    /\ main' = "get"
    /\ UNCHANGED <<value, lock, pc, loops, rc>>

(* One step: whoever holds the lock while it reads changes nothing. *)
Get ==
    /\ main = "get" /\ lock > 0
    /\ rc' = [rc EXCEPT ![0] = value]
    /\ main' = "done"
    /\ UNCHANGED <<s, value, lock, pc, loops>>

Terminated == main = "done" /\ UNCHANGED vars

Main == Wait \/ Get

Next == (\E t \in Threads : Thread(t)) \/ Main \/ Terminated

(* A thread that the mutex keeps out needs no strong fairness: the others    *)
(* increment only so often.                                                 *)
Fairness == (\A t \in Threads : WF_vars(Thread(t))) /\ WF_vars(Main)

Spec == Init /\ [][Next]_vars /\ Fairness
-----------------------------------------------------------------------------
(* Properties *)

(* One wait for all the threads: what main prints is at least what the one  *)
(* thread it has waited for counted, and never more than all of them do,    *)
(* however many of the others are cut off in the middle of an increment.    *)
PrintsWhatItAwaited ==
    main = "done" =>
        NO_OF_LOOPS <= rc[0] /\ rc[0] <= NO_OF_THREADS * NO_OF_LOOPS
=============================================================================
