---------------------------- MODULE LineupQueue -----------------------------
(***************************************************************************)
(* The bounded queue under concurrent callers, one action per statement    *)
(* of lineup_queue_push, lineup_queue_trypush, lineup_queue_pop and        *)
(* lineup_queue_trypop.  Any process of Pushers may be inside a push and   *)
(* any process of Poppers inside a pop at the same time: clients and       *)
(* cashiers on the lineup queue, cashiers and the server on the server     *)
(* queue.                                                                  *)
(***************************************************************************)
EXTENDS SemQueue, Sequences, FiniteSets

CONSTANTS Pushers,     \* processes that push
          Poppers,     \* processes that pop
          Orders,      \* the orders that are queued
          NoOrder,
          LINEUP_MAX   \* slots of the ring

Procs == Pushers \union Poppers

ASSUME QueueAssumption ==
    /\ IsFiniteSet(Pushers) /\ IsFiniteSet(Poppers)
    /\ Pushers \intersect Poppers = {}
    /\ NoOrder \notin Orders
    /\ LINEUP_MAX \in Nat \ {0}

VARIABLES lq,    \* the queue in shared memory
          pc,    \* where each process is in its operation
          item   \* client_order of a push, *client_order_p of a pop

vars == <<lq, pc, item>>

Init ==
    /\ lq = NewQueue(LINEUP_MAX, NoOrder)
    /\ pc = [p \in Procs |-> "idle"]
    /\ item = [p \in Procs |-> NoOrder]

Goto(p, here, there) ==
    /\ pc[p] = here
    /\ pc' = [pc EXCEPT ![p] = there]

SetItem(p, o) == item' = [item EXCEPT ![p] = o]

At(places) == {p \in Procs : pc[p] \in places}

-----------------------------------------------------------------------------
(* Bookkeeping over the program counters, used by properties and by the    *)
(* environment: no statement of the code reads it.                         *)

Writing == At({"put_lock", "put_write", "put_advance"})    \* slot reserved
Posting == At({"put_unlock", "put_post"})                  \* full not posted
Taking  == At({"take_lock", "take_read", "take_advance"})  \* item reserved
Leaving == At({"take_unlock", "take_post"})                \* empty not posted
Inside  == At({"put_write", "put_advance", "put_unlock",
               "take_read", "take_advance", "take_unlock"})

(* Orders between the write index and the read index. *)
Count == lq.full + Cardinality(Posting) + Cardinality(Taking)

Contents == Items(lq, Count, LINEUP_MAX)

(* An order is on its way through the queue at most once: a client lines   *)
(* up once per visit and its order is moved, never copied.                 *)
Fresh(o) ==
    /\ \A p \in Procs : item[p] # o
    /\ \A i \in 1 .. Count : Contents[i] # o

-----------------------------------------------------------------------------
(* lineup_queue_push, lineup_queue_trypush *)

CallPush(p, o, op) ==
    /\ Fresh(o)
    /\ Goto(p, "idle", op)
    /\ SetItem(p, o)
    /\ UNCHANGED lq

(* Slip: sem_wait is interrupted by a signal and its result is not looked  *)
(* at, so the push goes on without a slot.                                  *)
PushWaitEmptyInterrupted(p) ==
    /\ \E op \in {"push", "trypush"} : Goto(p, op, "put_lock")
    /\ lq' = IF lq.empty > 0 THEN ReserveSlot(lq) ELSE lq
    /\ UNCHANGED item

PushWaitEmpty(p) ==
    /\ lq.empty > 0
    /\ \E op \in {"push", "trypush"} : Goto(p, op, "put_lock")
    /\ lq' = ReserveSlot(lq)
    /\ UNCHANGED item

(* sem_trywait fails, EAGAIN: the call returns FAILED. *)
TryPushFail(p) ==
    /\ lq.empty = 0
    /\ Goto(p, "trypush", "idle")
    /\ SetItem(p, NoOrder)
    /\ UNCHANGED lq

(* Slip: no sem_wait on the lock. *)
PutLockMissing(p) ==
    /\ Goto(p, "put_lock", "put_write")
    /\ UNCHANGED <<lq, item>>

PutLock(p) ==
    /\ lq.lock > 0
    /\ Goto(p, "put_lock", "put_write")
    /\ lq' = Lock(lq)
    /\ UNCHANGED item

PutWrite(p) ==
    /\ Goto(p, "put_write", "put_advance")
    /\ lq' = WriteSlot(lq, item[p])
    /\ UNCHANGED item

PutAdvance(p) ==
    /\ Goto(p, "put_advance", "put_unlock")
    /\ lq' = AdvanceFill(lq, LINEUP_MAX)
    /\ UNCHANGED item

PutUnlock(p) ==
    /\ Goto(p, "put_unlock", "put_post")
    /\ lq' = Unlock(lq)
    /\ UNCHANGED item

PutPost(p) ==
    /\ Goto(p, "put_post", "idle")
    /\ lq' = PostFull(lq)
    /\ SetItem(p, NoOrder)

-----------------------------------------------------------------------------
(* lineup_queue_pop, lineup_queue_trypop *)

CallPop(p, op) ==
    /\ Goto(p, "idle", op)
    /\ UNCHANGED <<lq, item>>

PopWaitFull(p) ==
    /\ lq.full > 0
    /\ \E op \in {"pop", "trypop"} : Goto(p, op, "take_lock")
    /\ lq' = ReserveItem(lq)
    /\ UNCHANGED item

TryPopFail(p) ==
    /\ lq.full = 0
    /\ Goto(p, "trypop", "idle")
    /\ UNCHANGED <<lq, item>>

TakeLock(p) ==
    /\ lq.lock > 0
    /\ Goto(p, "take_lock", "take_read")
    /\ lq' = Lock(lq)
    /\ UNCHANGED item

TakeRead(p) ==
    /\ Goto(p, "take_read", "take_advance")
    /\ SetItem(p, ReadSlot(lq))
    /\ UNCHANGED lq

TakeAdvance(p) ==
    /\ Goto(p, "take_advance", "take_unlock")
    /\ lq' = AdvanceUse(lq, LINEUP_MAX)
    /\ UNCHANGED item

TakeUnlock(p) ==
    /\ Goto(p, "take_unlock", "take_post")
    /\ lq' = Unlock(lq)
    /\ UNCHANGED item

(* Slip: no sem_post on empty. *)
TakePostMissing(p) ==
    /\ Goto(p, "take_post", "idle")
    /\ SetItem(p, NoOrder)
    /\ UNCHANGED lq

TakePost(p) ==
    /\ Goto(p, "take_post", "idle")
    /\ lq' = PostEmpty(lq)
    /\ SetItem(p, NoOrder)

-----------------------------------------------------------------------------
Call ==
    \/ \E p \in Pushers, o \in Orders, op \in {"push", "trypush"} :
          CallPush(p, o, op)
    \/ \E p \in Poppers, op \in {"pop", "trypop"} : CallPop(p, op)

(* The next statement of a process that is inside an operation. *)
Step(p) ==
    \/ PushWaitEmpty(p) \/ TryPushFail(p) \/ PutLock(p) \/ PutWrite(p)
    \/ PutAdvance(p) \/ PutUnlock(p) \/ PutPost(p)
    \/ PopWaitFull(p) \/ TryPopFail(p) \/ TakeLock(p) \/ TakeRead(p)
    \/ TakeAdvance(p) \/ TakeUnlock(p) \/ TakePost(p)

Next == Call \/ \E p \in Procs : Step(p)

Spec == Init /\ [][Next]_vars
-----------------------------------------------------------------------------
(* Properties *)

TypeOK ==
    /\ lq \in QueueType(LINEUP_MAX, Orders \union {NoOrder})
    /\ item \in [Procs -> Orders \union {NoOrder}]
    /\ \A p \in Pushers : pc[p] \in
          {"idle", "push", "trypush", "put_lock", "put_write", "put_advance",
           "put_unlock", "put_post"}
    /\ \A p \in Poppers : pc[p] \in
          {"idle", "pop", "trypop", "take_lock", "take_read", "take_advance",
           "take_unlock", "take_post"}
    /\ DOMAIN pc = Procs

(* The one lock keeps all pushers and poppers apart: two processes are      *)
(* never between sem_wait(lock) and sem_post(lock), and the lock is free    *)
(* exactly when nobody is.                                                  *)
MutualExclusion ==
    /\ \A p, r \in Inside : p = r
    /\ lq.lock = 0 <=> Inside # {}

(* The two counting semaphores never drift: the slots announced free, kept  *)
(* for a push, holding an order and about to be given back by a pop are all *)
(* the slots of the ring.                                                   *)
SlotsConserved ==
    lq.empty + Cardinality(Writing) + Count + Cardinality(Leaving) = LINEUP_MAX

(* The write index stays as far ahead of the read index as there are        *)
(* orders between them, across the wrap-around of either index.             *)
RingConsistent == lq.fill = (lq.use + Count) % LINEUP_MAX

(* A push never writes the slot of an order that no pop has read, however   *)
(* many pushes are between their sem_wait(empty) and the lock.              *)
NothingOverwritten ==
    [][\A p \in Procs : PutWrite(p) =>
          \A n \in 0 .. Count - 1 : (lq.use + n) % LINEUP_MAX # lq.fill]_vars

(* The queue implements the FIFO queue: an order enters the sequence when   *)
(* fill moves past it and leaves when use does.                             *)
AbstractPhase(p) ==
    CASE pc[p] \in {"put_lock", "put_write", "put_advance"}    -> "inserting"
      [] pc[p] \in {"put_unlock", "put_post"}                  -> "inserted"
      [] pc[p] \in {"take_lock", "take_read", "take_advance"}  -> "removing"
      [] pc[p] \in {"take_unlock", "take_post"}                -> "removed"
      [] OTHER                                                 -> pc[p]

Fifo == INSTANCE FifoQueue WITH
    Capacity <- LINEUP_MAX,
    contents <- Contents,
    phase    <- [p \in Procs |-> AbstractPhase(p)],
    held     <- [p \in Procs |-> IF pc[p] = "take_advance" THEN NoOrder
                                                          ELSE item[p]]

(* Every behaviour of the ring and its semaphores is one of the FIFO queue: *)
(* orders leave in the order they were written, none is lost or duplicated, *)
(* and a try call is refused only when the operations in flight explain it. *)
ImplementsFifo == Fifo!Spec

(* lineup_queue_trypop: "return 0 if pop successful, -1 if nothing to pop". *)
(* Read literally: when it fails, no order whose push has returned is in    *)
(* the queue.                                                               *)
FailedPopFoundNothing ==
    [][\A s \in Poppers : TryPopFail(s) =>
          \A i \in 1 .. Count : \E p \in Posting : item[p] = Contents[i]]_vars
=============================================================================
