------------------------------ MODULE SemQueue ------------------------------
(***************************************************************************)
(* The bounded queue every other structure of the restaurant is built on:  *)
(* a ring buffer guarded by three POSIX semaphores.  lineup_queue_t and    *)
(* token_queue_t are the same code over two item types; both were made     *)
(* from bounded_queue.h, which has it over plain ints.                     *)
(*                                                                         *)
(* The queue is a value, and each operator below is the effect of one      *)
(* statement of push, trypush, pop or trypop.  A semaphore is a natural    *)
(* number: sem_wait waits for a positive value and takes one, sem_post     *)
(* adds one.  The lock is a semaphore used as a mutex.                     *)
(***************************************************************************)
EXTENDS Integers

(* The slots hold whatever the shared segment held before: "blank". *)
NewQueue(size, blank) ==
    [ buffer |-> [i \in 0 .. size - 1 |-> blank],
      fill   |-> 0,
      use    |-> 0,
      empty  |-> size,
      full   |-> 0,
      lock   |-> 1 ]

QueueType(size, items) ==
    [ buffer : [0 .. size - 1 -> items],
      fill   : 0 .. size - 1,
      use    : 0 .. size - 1,
      empty  : 0 .. size,
      full   : 0 .. size,
      lock   : {0, 1} ]

-----------------------------------------------------------------------------
(* The semaphores "empty" (slots to write) and "full" (items to read). *)

ReserveSlot(q) == [q EXCEPT !.empty = @ - 1]     \* sem_wait(empty)
ReserveItem(q) == [q EXCEPT !.full = @ - 1]      \* sem_wait(full)
PostFull(q)    == [q EXCEPT !.full = @ + 1]      \* sem_post(full)
PostEmpty(q)   == [q EXCEPT !.empty = @ + 1]     \* sem_post(empty)

Lock(q)   == [q EXCEPT !.lock = @ - 1]           \* sem_wait(lock)
Unlock(q) == [q EXCEPT !.lock = @ + 1]           \* sem_post(lock)

-----------------------------------------------------------------------------
(* The two critical sections. *)

NextSlot(i, size) == (i + 1) % size

(* Slips: fill is not wrapped; use is not moved. *)
AdvanceFillUnwrapped(q, size) == [q EXCEPT !.fill = @ + 1]
AdvanceUseMissing(q, size)    == q

WriteSlot(q, o)       == [q EXCEPT !.buffer[q.fill] = o]
AdvanceFill(q, size)  == [q EXCEPT !.fill = NextSlot(@, size)]
ReadSlot(q)           == q.buffer[q.use]
AdvanceUse(q, size)   == [q EXCEPT !.use = NextSlot(@, size)]

(* A whole critical section, the lock released at its end. *)
PutItem(q, o, size)   == Unlock(AdvanceFill(WriteSlot(q, o), size))
TakeItem(q, size)      == Unlock(AdvanceUse(q, size))

(* The n items from the read index on, oldest first. *)
Items(q, n, size) == [i \in 1 .. n |-> q.buffer[(q.use + i - 1) % size]]
=============================================================================
