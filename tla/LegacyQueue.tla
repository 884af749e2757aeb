----------------------------- MODULE LegacyQueue -----------------------------
(***************************************************************************)
(* sem_queue.c, where the bounded queue began: producers that number what  *)
(* they put into a ring with a shared counter, consumers that print what   *)
(* they take from it and never return, so that main, which joins them all, *)
(* does not return either.                                                 *)
(***************************************************************************)
EXTENDS SemQueue, FiniteSets, Functions

CONSTANTS PRODUCERS, CONSUMERS, LOOPS, MAX

Producers == 1 .. PRODUCERS
Consumers == PRODUCERS + 1 .. PRODUCERS + CONSUMERS
Values    == 1 .. PRODUCERS * LOOPS

VARIABLES q,        \* buffer, fill, use and the three semaphores
          c,        \* the counter
          end,      \* set when the producers are joined, read by nobody
          pc, i,    \* where each thread is, a producer's loop counter
          temp,     \* each thread's local, 0 when it is of no interest
          printed   \* how often each value was printed (history)

vars == <<q, c, end, pc, i, temp, printed>>

Init ==
    /\ q = NewQueue(MAX, 0)
    /\ c = 0
    /\ end = 0
    /\ pc = [t \in Producers \union Consumers |->
                IF t \in Producers THEN "increment" ELSE "wait_full"]
    /\ i = [p \in Producers |-> 0]
    /\ temp = [t \in Producers \union Consumers |-> 0]
    /\ printed = [v \in Values |-> 0]

Goto(t, here, there) ==
    /\ pc[t] = here
    /\ pc' = [pc EXCEPT ![t] = there]

QueueUnchanged == UNCHANGED <<c, end, i, temp, printed>>

-----------------------------------------------------------------------------
(* producer.  increment and get_c hold the counter's lock from end to end;  *)
(* between the two calls another producer may count.                        *)

IncrementCounter(p) ==
    /\ Goto(p, "increment", "get")
    /\ c' = c + 1
    /\ UNCHANGED <<q, end, i, temp, printed>>

GetCounter(p) ==
    /\ Goto(p, "get", "wait_empty")
    /\ temp' = [temp EXCEPT ![p] = c]
    /\ UNCHANGED <<q, c, end, i, printed>>

WaitEmpty(p) ==
    /\ q.empty > 0
    /\ Goto(p, "wait_empty", "insert_lock")
    /\ q' = ReserveSlot(q)
    /\ QueueUnchanged

InsertLock(p) ==
    /\ q.lock > 0
    /\ Goto(p, "insert_lock", "insert")
    /\ q' = Lock(q)
    /\ QueueUnchanged

Insert(p) ==
    /\ Goto(p, "insert", "post_full")
    /\ q' = PutItem(q, temp[p], MAX)
    /\ temp' = [temp EXCEPT ![p] = 0]
    /\ UNCHANGED <<c, end, i, printed>>

Inserted(p) ==
    /\ Goto(p, "post_full", IF i[p] + 1 < LOOPS THEN "increment" ELSE "done")
    /\ i' = [i EXCEPT ![p] = @ + 1]
    /\ q' = PostFull(q)
    /\ UNCHANGED <<c, end, temp, printed>>

Producer(p) ==
    \/ IncrementCounter(p) \/ GetCounter(p) \/ WaitEmpty(p)
    \/ InsertLock(p) \/ Insert(p) \/ Inserted(p)

-----------------------------------------------------------------------------
(* consumer *)

WaitFull(k) ==
    /\ q.full > 0
    /\ Goto(k, "wait_full", "get_lock")
    /\ q' = ReserveItem(q)
    /\ QueueUnchanged

GetLock(k) ==
    /\ q.lock > 0
    /\ Goto(k, "get_lock", "take")
    /\ q' = Lock(q)
    /\ QueueUnchanged

Take(k) ==
    /\ Goto(k, "take", "post_empty")
    /\ temp' = [temp EXCEPT ![k] = ReadSlot(q)]
    /\ q' = TakeItem(q, MAX)
    /\ UNCHANGED <<c, end, i, printed>>

Taken(k) ==
    /\ Goto(k, "post_empty", "print")
    /\ q' = PostEmpty(q)
    /\ QueueUnchanged

PrintValue(k) ==
    /\ Goto(k, "print", "wait_full")
    /\ printed' = [printed EXCEPT ![temp[k]] = @ + 1]
    /\ temp' = [temp EXCEPT ![k] = 0]
    /\ UNCHANGED <<q, c, end, i>>

Consumer(k) == WaitFull(k) \/ GetLock(k) \/ Take(k) \/ Taken(k) \/ PrintValue(k)

-----------------------------------------------------------------------------
ProducersDone == \A p \in Producers : pc[p] = "done"

(* main has joined the producers; the second loop of joins is for ever. *)
SetEnd ==
    /\ end = 0 /\ ProducersDone
    /\ end' = 1
    /\ UNCHANGED <<q, c, pc, i, temp, printed>>

(* Where the program hangs: every consumer waits for one more value. *)
AtRest == end = 1 /\ q.full = 0 /\ \A k \in Consumers : pc[k] = "wait_full"

Hang == AtRest /\ UNCHANGED vars

Next ==
    \/ \E p \in Producers : Producer(p)
    \/ \E k \in Consumers : Consumer(k)
    \/ SetEnd \/ Hang

Fairness ==
    /\ \A p \in Producers : WF_vars(Producer(p))
    /\ \A k \in Consumers : WF_vars(Consumer(k))
    /\ WF_vars(SetEnd)

Spec == Init /\ [][Next]_vars /\ Fairness
-----------------------------------------------------------------------------
(* Properties *)

(* The values that have been written to the buffer and not read.            *)
Stored ==
    Items(q, q.full
             + Cardinality({p \in Producers : pc[p] = "post_full"})
             + Cardinality({k \in Consumers : pc[k] \in {"get_lock", "take"}}), MAX)

(* Where the values up to k are: in a thread's hands, stored or printed.    *)
UpTo(k) ==
    Cardinality({t \in DOMAIN temp : temp[t] \in 1 .. k})
    + Cardinality({j \in DOMAIN Stored : Stored[j] \in 1 .. k})
    + FoldFunctionOnSet(+, 0, printed, 1 .. k)

(* The numbers need not be distinct: two producers can both count before    *)
(* either looks.  But a producer sees its own increment, and no value is    *)
(* delivered twice: of the values up to k there are never more than k.      *)
NumbersNotReused == \A k \in Values : UpTo(k) <= k

(* Every value is printed, as often as it was produced, and the program     *)
(* comes to rest where it hangs.                                            *)
AllPrinted == UpTo(PRODUCERS * LOOPS) = PRODUCERS * LOOPS
=============================================================================
