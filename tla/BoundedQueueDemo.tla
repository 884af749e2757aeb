-------------------------- MODULE BoundedQueueDemo --------------------------
(***************************************************************************)
(* bounded_queue.c, and bounded_queue.h with the same program in it:       *)
(* clients that come back later when the queue is full, cashiers that poll *)
(* it until a counter says that everybody has been served, and main, which *)
(* joins them all and cleans up.  The queue is the one lineup_queue.h was  *)
(* made from, over plain client numbers.                                   *)
(***************************************************************************)
EXTENDS SemQueue, Sequences, FiniteSets

CONSTANTS Clients, Cashiers,
          Nobody,   \* what the buffer holds before anything is written
          MAX       \* slots of the buffer

Threads == Clients \union Cashiers

DemoAssumption ==
    /\ IsFiniteSet(Threads)
    /\ Clients \intersect Cashiers = {}
    /\ Nobody \notin Clients
    /\ MAX \in Nat \ {0}

VARIABLES b, no_served,  \* the shared queue and the locked counter
          pc,
          temp,          \* whom a cashier has taken from the queue
          announced,     \* who "served" was printed for, how often (history)
          main

vars == <<b, no_served, pc, temp, announced, main>>

Init ==
    /\ b = NewQueue(MAX, Nobody)
    /\ no_served = 0
    /\ pc = [t \in Threads |-> IF t \in Clients THEN "trypush" ELSE "check"]
    /\ temp = [k \in Cashiers |-> Nobody]
    /\ announced = [c \in Clients |-> 0]
    /\ main = "join"

Goto(t, here, there) ==
    /\ pc[t] = here
    /\ pc' = [pc EXCEPT ![t] = there]

-----------------------------------------------------------------------------
(* client_enter_queue over bounded_queue_trypush *)

CountsUnchanged == UNCHANGED <<no_served, temp, announced, main>>

(* FAILED: sleep and try again. *)
TryPush(c) ==
    /\ Goto(c, "trypush", IF b.empty > 0 THEN "push_lock" ELSE "sleep")
    /\ b' = IF b.empty > 0 THEN ReserveSlot(b) ELSE b
    /\ CountsUnchanged

WakeUp(c) == Goto(c, "sleep", "trypush") /\ UNCHANGED b /\ CountsUnchanged

PushLock(c) ==
    /\ b.lock > 0
    /\ Goto(c, "push_lock", "push_put")
    /\ b' = Lock(b)
    /\ CountsUnchanged

PushPut(c) ==
    /\ Goto(c, "push_put", "push_post")
    /\ b' = PutItem(b, c, MAX)
    /\ CountsUnchanged

PushPost(c) ==
    /\ Goto(c, "push_post", "done")
    /\ b' = PostFull(b)
    /\ CountsUnchanged

Client(c) == TryPush(c) \/ WakeUp(c) \/ PushLock(c) \/ PushPut(c) \/ PushPost(c)

-----------------------------------------------------------------------------
(* cashier_serve_client over bounded_queue_trypop *)

(* Slip: a cashier leaves when the last client is about to be served. *)
CheckServedEarly(k) ==
    /\ Goto(k, "check", IF no_served < Cardinality(Clients) - 1 THEN "trypop" ELSE "done")
    /\ UNCHANGED <<b, no_served, temp, announced, main>>

(* while (counter_get_c(&no_served) != CLIENTS) *)
CheckServed(k) ==
    /\ Goto(k, "check", IF no_served # Cardinality(Clients) THEN "trypop" ELSE "done")
    /\ UNCHANGED <<b, no_served, temp, announced, main>>

TryPop(k) ==
    /\ Goto(k, "trypop", IF b.full > 0 THEN "pop_lock" ELSE "check")
    /\ b' = IF b.full > 0 THEN ReserveItem(b) ELSE b
    /\ CountsUnchanged

PopLock(k) ==
    /\ b.lock > 0
    /\ Goto(k, "pop_lock", "pop_take")
    /\ b' = Lock(b)
    /\ CountsUnchanged

PopTake(k) ==
    /\ Goto(k, "pop_take", "pop_post")
    /\ temp' = [temp EXCEPT ![k] = ReadSlot(b)]
    /\ b' = TakeItem(b, MAX)
    /\ UNCHANGED <<no_served, announced, main>>

PopPost(k) ==
    /\ Goto(k, "pop_post", "increment")
    /\ b' = PostEmpty(b)
    /\ CountsUnchanged

(* One locked counter_increment: Statistics splits it. *)
CountServed(k) ==
    /\ Goto(k, "increment", "print")
    /\ no_served' = no_served + 1
    /\ UNCHANGED <<b, temp, announced, main>>

PrintServed(k) ==
    /\ Goto(k, "print", "check")
    /\ announced' = [announced EXCEPT ![temp[k]] = @ + 1]
    /\ temp' = [temp EXCEPT ![k] = Nobody]
    /\ UNCHANGED <<b, no_served, main>>

Cashier(k) ==
    \/ CheckServed(k) \/ TryPop(k) \/ PopLock(k) \/ PopTake(k) \/ PopPost(k)
    \/ CountServed(k) \/ PrintServed(k)

(* Both joins, then bounded_queue_cleanup and counter_cleanup. *)
Main ==
    /\ main = "join"
    /\ \A t \in Threads : pc[t] = "done"
    /\ main' = "done"
    /\ UNCHANGED <<b, no_served, pc, temp, announced>>

Terminated == main = "done" /\ UNCHANGED vars

Next ==
    \/ \E c \in Clients : Client(c)
    \/ \E k \in Cashiers : Cashier(k)
    \/ Main \/ Terminated

Fairness ==
    /\ \A c \in Clients : WF_vars(Client(c))
    /\ \A k \in Cashiers : WF_vars(Cashier(k))
    /\ WF_vars(Main)

Spec == Init /\ [][Next]_vars /\ Fairness
-----------------------------------------------------------------------------
(* Properties *)

(* A cashier leaves its loop only when every client has been taken out of   *)
(* the queue, and then every client has been or is being announced, each    *)
(* once.                                                                    *)
NobodyLeftBehind ==
    (\E k \in Cashiers : pc[k] = "done") =>
        \A c \in Clients :
            announced[c] + Cardinality({k \in Cashiers : temp[k] = c}) = 1

(* However often a client is turned away, it is served in the end; the      *)
(* counter reaches exactly the number the cashiers wait for; main returns.  *)
AllServed == main = "done" /\ \A c \in Clients : announced[c] = 1
=============================================================================
