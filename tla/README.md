# Specification and verification of the semaphore restaurant

This directory holds TLA+ models of the restaurant simulation in `src/`, the
TLC configurations that check them on small instances, and proofs that TLAPS
checks for every instance.  The models are written from the C code; where a
comment of the code says something else than the code does, the difference is
a run that fails on purpose (section 6).

Run from this directory: `tlc -config LineupQueue.cfg MCLineupQueue.tla`, and
`tlapm LineupQueueProofs.tla` (or any other `*Proofs.tla`, and `Sums.tla`).

## 1. The system

The restaurant is a set of processes over one System V shared memory segment.

| Component | State it keeps | Operations | Interacts by |
|---|---|---|---|
| Bounded queue (`lineup_queue.h`), twice: lineup queue, server queue | ring `buffer`, `fill`, `use`; semaphores `empty`, `full`, `lock` | `push`, `trypush`, `pop`, `trypop` | called by clients, cashiers, the server |
| Token queue (`token_queue.h`) | the same over token numbers | `push`, `pop` (`trypush`, `trypop` unused) | called by the token system |
| Token system (`main_token_system.h`) | token queue, one semaphore per token, `ct_assns`, `sig_senders` | `init`, `get`, `wait_for_signal`, `give_signal`, `return` (`tryget` unused) | clients wait, staff signal |
| Client (`client.c`) | its order and token | one visit | token system, lineup queue, statistics |
| Cashier (`cashier.c`) | the order it works on | service loop, registration, SIGUSR1 handler | lineup queue, signals, purchases, server queue |
| Server (`server.c`) | one detached `serve_order` thread per order | pop loop, threads, registration, handler | server queue, signals |
| Staff registry (`staff_id` in `shared_mem.h`, `register_r`, `cleanup_exit`) | array of pids, no lock | register, clear | staff write, test driver reads |
| Statistics (`stats_clients.h`, `stats_purchases.h`, `counter.h`) | locked counters | record, sum | clients, cashiers write; test driver reads |
| Test driver (`test.c`) | child pids | launch, reap, signal, report | everybody |
| Lifecycle (`shared_mem.h`, `init.c`, `cleanup.c`) | the segment, its key, `sm_id` in it | create, fill, attach, detach, destroy, remove | everybody; the user who types the commands |
| Menu (`menu.h`) | constant table | lookups | client, server, report |

Under `src/DS` are the stand-alone programs the restaurant was built from.  They
share no state with it or with each other:

| Component | State it keeps | Operations |
|---|---|---|
| Linked two-lock queue (`fifo.c`, `fifo.h`) | list of heap nodes with a dummy, `head`, `tail`, a lock each | `queue_push`, `queue_pop`, `queue_cleanup` |
| First token system (`token.c`) | the same queue over tokens, `tokens_available`, `sem_arr`, `ct_assns` | `get`, `wait_for_signal`, `give_signal`, `return` (`tryget` unused) |
| Bounded queue demo (`bounded_queue.c`, `bounded_queue.h`) | the ring, a counter of clients served | retrying clients, polling cashiers |
| Thread spawners (`spawner.c`, `spawner_plus_counter.c`, and the counter of `counter.c`, `counter.h`) | one semaphore, one counter under a mutex | threads that post, a main that waits |
| Legacy queue (`legacy/sem_queue.c`) | the ring in globals, a counter, `end` | producers, consumers |

What is hard in it:

* every queue call is five or six separate statements, and calls of many
  processes interleave anywhere between two of them;
* a token's semaphore carries three signals per visit from two kinds of staff,
  and is reused for the next client without being reinitialised;
* the client that leaves, the cashier that records and the thread that serves
  run ahead of each other; nobody waits for the staff before the report;
* staff end on a signal at any statement, in particular inside a queue;
* the staff array has no lock at all;
* nothing keeps `init`, the test driver, `cleanup` and a second `init` in
  order, or apart from staff that nobody waits for;
* the linked queue has a lock per end, so that a pop frees a node while a push
  holds the same node as tail;
* the mains of the spawners count posts instead of joining their threads.

What makes each part correct: the queue is a FIFO queue that loses and
duplicates nothing; a token has one holder and its semaphore counts exactly
that holder's pending signals; every client leaves, served or turned away for
a reason; closing finds the segment as it was at opening and the books exact;
every staff process is known to the driver and told to close; whoever is
attached works in one initialized segment, and none is left behind.  In the
demos: the linked queue is a FIFO queue whose nodes are handled safely, a token
serves one client at a time, and a main that counts posts instead of joining
knows of its threads exactly what those posts say.

## 2. The modules

| Module | What it is |
|---|---|
| `SemQueue` | the queue as a value, and the effect of each statement on it |
| `LineupQueue` | the queue under concurrent callers, one action per statement |
| `FifoQueue` | what the queue promises (abstract) |
| `Restaurant` | clients, cashiers, servers, threads, test driver over token system, both queues and the statistics |
| `Dining` | what a visit promises (abstract) |
| `Statistics` | the locked counters, the clients' time stamps and records, the report |
| `StaffRegistry` | registration, SIGUSR1, the driver's kill loop |
| `Lifecycle` | the segment from the first `init` to the last `cleanup`, with all the programs that attach it |
| `TwoLockQueue` | push, pop and cleanup of the linked queue on an explicit heap |
| `LinkedFifo` | `TwoLockQueue` with callers of its own (`fifo.c`) |
| `FirstTokenSystem` | `token.c`: clients and main on `TwoLockQueue` |
| `BoundedQueueDemo` | `bounded_queue.c`: clients, cashiers and main on `SemQueue` |
| `Spawner`, `CountedThreads` | `spawner.c`, `spawner_plus_counter.c` |
| `LegacyQueue` | `legacy/sem_queue.c` on `SemQueue` |
| `Demos` | one of these six programs per behaviour, for TLC |
| `SemQueueProofs` | lemmas on the ring: wrap-around, distances, the sequence of what is in it |
| `LineupQueueProofs` | proofs about `LineupQueue`, and that it implements `FifoQueue` |
| `RestaurantProofs` | proofs about `Restaurant`, and that it implements `Dining` |
| `StatisticsProofs` | proofs about `Statistics` |
| `StaffRegistryProofs`, `LifecycleProofs` | proofs about `StaffRegistry` and `Lifecycle` |
| `DemosProofs` | proofs about the six programs of `Demos`, and that `fifo.c` implements `FifoQueue` |
| `Sums` | sums over finite sets, and how they change with their terms |
| `MCLineupQueue`, `MCRestaurant`, `MCStatistics`, `MCStaffRegistry`, `MCLifecycle` | the symmetry sets for TLC |

**State and code.**  Semaphores are natural numbers: `sem_wait` is a guard
`> 0` and a decrement, `sem_trywait` an extra action for the value 0,
`sem_post` an increment.  A semaphore wakes any waiter.  `pc[p]` names the
statement a process is about to execute; names such as `put_lock` or
`restore_signal` follow the order of the statements.

`LineupQueue` splits `push`/`trypush` into `sem_wait(empty)`, `sem_wait(lock)`,
the write, the index update, `sem_post(lock)`, `sem_post(full)`; and
`pop`/`trypop` likewise.  `push` and `trypush` share the actions after the
first statement because the code does.

`Restaurant` takes the body of a critical section (write and index update,
then unlock) as one step: `MutualExclusion` in `LineupQueue` says nobody else
is inside meanwhile, and nothing outside reads the ring.  Everything else is
again one action per statement visible to others: `mt_token_wait_for_signal`
is a wait and a separate read of `sig_senders`; `mt_token_give_signal` a write
of `sig_senders` and a separate post; `mt_token_return` clears the assignment
before it pushes the token.  A server thread is a record in `threads`; the
sleeps are where any other process may run.  A check that in the code returns
-1 (`ct_assns[index]` is not the caller) is an IF in the action; it is never
taken in a reachable state, which `OrdersAwaited` and `TokensConserved` imply.

`Statistics` splits a counter call into `sem_wait`, the load, the store and
`sem_post`; `todo[p]` holds the calls that `stats_clients_record`,
`stats_purchase_record` or the report still has to make.  Time stamps are kept
as `time(0)` gives them and go through `TmSec` where the code subtracts them.

`StaffRegistry` splits `register_r` into the test of a slot, the write, and
the assignment of `staff_index`; the driver's loop into the test and the
`kill`, which reads the slot again.  Who is hired and how they start, all at
once as `test.c` starts them or in turn as by hand, is chosen in `Init` (from
`Starts`), so that one instance covers too few slots and enough of them.

`Lifecycle` knows a segment by its id; `key` is the segment that `shmget` finds,
`exists` those the system still keeps.  A segment removed by `shmctl` loses its
key at once and goes with the last process that has it attached.
`shared_memory_init` fills seven parts one by one and `cleanup` destroys five of
them; what happens inside a visit, a registration or the kill loop is one step
here and taken apart in the modules above, and a staff member may miss the
array, as `StaffRegistry` shows.  `Init` chooses the user: an impatient one
starts the next command when the last has returned, a patient one also waits
for the staff to be gone.  Both may open again without a cleanup.  A process
that is forked late is one that has not taken its first step.

`TwoLockQueue` models `malloc` as the choice of a node that is not allocated and
`free` as giving it back; reading a node that was freed is what
`NoUseAfterFree` excludes.  One action stands for each statement another thread
can see.  The copies of pop differ in one point, the constant `FREES_EMPTY`:
`token.c` frees `tmp` also when the queue was empty.  A program that uses the
queue says with `AfterPush` and `AfterPop` where its threads go on.
`BoundedQueueDemo` and `LegacyQueue` use the operators of `SemQueue`, with the
critical section as one step as in `Restaurant`.  In `CountedThreads` the
semaphore starts at 0: `sem_init` refuses the -23 of `spawner_plus_counter.c:65`
(as the unsigned value it is converted to), and the global keeps its zeros.

A few definitions are marked *Slip*: they are wrong variants of the action
that follows (a missing wait, a missing post, an off-by-one), kept to show
that each property fails when the code is wrong in that way.  No specification
uses them.

## 3. The runs

All bounds are constants of the configurations; no state constraint is used,
and every instance is explored completely.

| Run | Instance | Shows |
|---|---|---|
| `LineupQueue.cfg` | 3 pushers, 2 poppers, 4 orders, ring of 2 | `TypeOK`, `MutualExclusion`, `SlotsConserved`, `RingConsistent`, `NothingOverwritten`, and `ImplementsFifo`: refinement of `FifoQueue` |
| `Restaurant.cfg` | 3 clients, 2 cashiers, 1 server, 2 tokens, 2 places | `TypeOK`, `TokensConserved`, `OrdersAwaited`, `SignalsBalanced`, `RoomForEveryToken`, `ReturnNeverWaits` |
| `Closing.cfg` | 2 clients, 2 cashiers, 2 dishes, 2 tokens, 1 place | `SignalsBalanced` with clients turned away, `CleanAtClosing`, `ReportExact`, `StaffLeaveIdle`, and `ImplementsDining`: refinement of `Dining` |
| `Visit.cfg` | 3 clients, 1 cashier, 1 server, 2 tokens, 1 place in line and with the server, fair | `ShopCloses`: every client gets a token, is served or turned away and leaves, then the staff end |
| `Statistics.cfg` | 2 clients, 1 cashier, minutes of 2 seconds, clock up to 2 | `NoLostUpdate`, `LosesWholeMinutes`, `ReportFinal` |
| `Staff.cfg` | up to 3 cashiers and 1 server, 3 slots, at once or in turn, fair | `TypeOK`; with enough slots `NobodyRefused`, `NoGroupSignal`; in turn `OrderlyStaffRegistered`, `RefusedOnlyWhenFull`; for any number and any start `RegistryCleared`; `OrderlyStaffClose`: all exit if they start in turn with a slot each, and however they start those that the driver's loop would find |
| `Lifecycle.cfg` | 2 openings with or without a cleanup between them, 2 clients and 2 staff each, a patient and an impatient user | `TypeOK`, `OneLiveRestaurant`, `OnlyOwnRemoved`, `NothingLeft` |
| `Demos.cfg` | `fifo.c`: 3 callers, 2 values, 3 nodes; `token.c`: 3 clients, 2 tokens; `bounded_queue.c`: 3 clients, 2 cashiers, ring of 2; spawners: 3 threads, 2 loops; `sem_queue.c`: 3 producers, 2 consumers, ring of 2; fair | `HeapSafe`, `NeverEmptyHanded`, `OneClientPerToken`, `NobodyLeftBehind`, `MainHasWaited`, `NumbersNotReused`, `ImplementsFifo` (the linked queue refines `FifoQueue`), `EveryProgramEnds` |

Why these bounds are enough for the interesting cases: a ring of 2 wraps after
two orders, is full and empty, and has both indices on either side of the
wrap; three pushers compete for two slots.  Three clients on two tokens reuse
a token while another visit is in progress, two cashiers overtake each other,
and one place for two tokens makes a client be turned away.  `Visit` has both at
once: two clients hold the tokens while the third waits for one, the second may
find the line full, and a cashier that has taken the second order waits for room
until the server has taken the first.  `Statistics` has two
bounds that the code does not have: `LastSecond` stops the clock, and a cashier
records one purchase (`Sell`), where `cashier.c` goes on as long as there are
orders, so that with one cashier an item's counter has one writer beside the
reading driver; with several, in the proofs, they compete.  With
minutes of two seconds a stay lasts up to two seconds and crosses a minute.  The shipped
constants are 10 tokens, 10 places, 10 clients: with tokens <= places, as in
`Restaurant.cfg`, no client is ever turned away and no cashier ever waits for
the server (`RoomForEveryToken`), so the code for the full line is dead in the
shipped configuration; the other runs cover it.  Two openings are enough for a
second `init` on a segment that is in use, was destroyed or is gone, and for
staff of the first opening to arrive in the second.  Three nodes for two values
and the dummy make every freed node come back; three callers leave one to
overtake a push and a pop that are both between two statements.

Symmetry is used for processes of one kind, orders and dishes, only in runs
without liveness properties.  In `Visit.cfg` the clients, who order the same
dish there, come for their tokens in a fixed order instead (`InTurn` in
`MCRestaurant`): until a client has taken its first step it differs from the
others by its name only, so every behaviour is one of these under another
naming.  Deadlock checking is on in every passing run but `Lifecycle`,
where a patient user really may wait for ever, for a staff member that is not
in the array and is never told to close.
`Closed` in `Restaurant`, `AtRest` in `StaffRegistry` and `Statistics`, and a
main that has returned (in `sem_queue.c`: the hang) in the demos are the only
ends; in `StaffRegistry` it includes a server that found no slot, because then
no client is served and the driver waits forever.

## 4. Fairness

`FairSpec` in each module assumes only that a process that can take its next
step keeps being scheduled (weak fairness of each process, of the threads, of
each staff process's handler once it was signalled, and of the driver, which is
one process and one formula).  `Visit.cfg` checks it in the form
`FairSpecInTurn`, with the same fairness.  Nothing is assumed about which waiter a
semaphore wakes; POSIX promises no order.  `ShopCloses` holds nevertheless,
because each client visits once: the competitors of a waiter run out.  The same
is true of the clients in `token.c`, of the increments in
`spawner_plus_counter.c` and of the values in `sem_queue.c`.  In
`bounded_queue.c` a client polls the queue and a cashier polls the counter; that
neither does so for ever needs no more than weak fairness either, since a client
that finds the queue full leaves it to cashiers that must empty it.  `Demos`
takes weak fairness of each thread, `WF_vars(StepOf(t) /\ Next)`, and asks nothing
of the callers of `fifo.c`'s queue, who stand for any program.

## 5. What is proved

Every invariant and action property of the passing runs, and each of the three
refinements, is a theorem for every value of the constants.  Each proof has the
same shape: an inductive invariant, a conjunction of named parts; one lemma per
action and part that says the action keeps it; and a theorem that combines them.

The assumptions are those the modules state about their constants, which TLC
evaluates on every run: sets of processes are finite and kinds of processes
are disjoint, sizes are positive, and a value that stands for "none" is none of
the values.  Two need a word.  `StatisticsAssumption` asks that menu items are
not named like the four counters of the clients, and `LifecycleAssumption` that
no client and no staff member is named like a command: one function holds both.

### The bounded queue

`LineupQueueProofs`, with the lemmas of `SemQueueProofs`, for any finite sets
of pushers and poppers, any orders, and any `LINEUP_MAX > 0`:

| Theorem | Statement |
|---|---|
| `TypeCorrect` | `Spec => []TypeOK` |
| `QueueExclusive` | `Spec => []MutualExclusion` |
| `QueueConservesSlots` | `Spec => []SlotsConserved` |
| `QueueRingConsistent` | `Spec => []RingConsistent` |
| `QueueNeverOverwrites` | `Spec => NothingOverwritten` |
| `QueueIsFifo` | `Spec => ImplementsFifo` |

`TypeOK` says that `empty` and `full` stay within `0 .. LINEUP_MAX`.  That is
not inductive: `sem_post` does not look at the value.  It follows from
`SlotsConserved`: the process that is about to post is itself counted among
the operations in flight.  `SlotsConserved` needs the guards of the waits,
`RingConsistent` needs the types of the indices, and releasing the lock keeps
it in `{0, 1}` only by `MutualExclusion`.  The inductive invariant `Inv` is
therefore the conjunction of all four, each preserved by one lemma with a step
per action.  How a step changes the number of processes at a place is stated
once (`GotoCount`, `Moves`); the wrap-around is linear arithmetic after
`WrapOnce` in `SemQueueProofs`, because an index is never more than one turn
past the end.  `NothingOverwritten` follows from `Inv`: the writer has kept a
slot, so fewer than `LINEUP_MAX` orders are in the ring, and slots at
different distances from the read index differ (`SlotsDistinct`).

The refinement needs one more invariant, `QueueCarries`: between the write
or read of a slot and the move of the index, that slot holds the order of
the process with the lock.  With it each step is an abstract step or a stutter;
that a failed try call has operations in flight to blame is
`SlotsConserved` again.

### The restaurant

`RestaurantProofs`, for any finite sets of clients, cashiers and servers, any
menu, and any numbers of tokens and places above 0:

| Theorem | Statement |
|---|---|
| `RestaurantTyped` | `Spec => []TypeOK` |
| `NoTokenLostOrShared` | `Spec => []TokensConserved` |
| `OrdersFindTheirClients` | `Spec => []OrdersAwaited` |
| `SignalsDoNotLeak` | `Spec => []SignalsBalanced` |
| `RoomForAll`, `ReturnIsFree` | `Spec => []RoomForEveryToken`, `Spec => []ReturnNeverWaits` |
| `KilledWhenIdle` | `Spec => StaffLeaveIdle` |
| `ShopLeftClean` | `Spec => []CleanAtClosing` |
| `ReportIsExact` | `Clients # {} /\ Spec => []ReportExact` |
| `RestaurantDines` | `Spec => ImplementsDining` |

The hypothesis of `ReportIsExact` is what the property itself says: with no
client at all the average waiting time would be a quotient by 0.

A token is safe because of where its order is, an order because of which queue
or hand holds it, and a queue because of its books, so none of these is
inductive alone.  `Inv` joins them: the places and hands of the processes; the
books of the three rings, where what is stored is stored once; who owns and is
assigned which token (`Owned`, `Assigned`); that every order on its way is in one
place and its client waits (`Awaited`, `OneCopy`); and `Balanced`, which counts
the signals a token still owes its client by where the order is.  `Balanced` is
the heart: that `sem_arr[t]` counts exactly the pending signals is a statement
about the client, the cashier that recorded, and the thread that served, in
any order they run.  `RoomForEveryToken` is counting: every order in line or with
the server holds a token of its own.  `ReportInvariant` counts, for each
statistics counter, the clients that are past the statement that increments it.
For `Dining` the abstract phases are functions of `pc`, and the guards of its
actions follow from `Inv`.

### The statistics

`StatisticsProofs`, on `Sums`, for any clients, cashiers and menu items, minutes
of any length and any last second:

| Theorem | Statement |
|---|---|
| `NoUpdateIsLost` | `Spec => []NoLostUpdate` |
| `OnlyMinutesAreLost` | `Spec => []LosesWholeMinutes` |
| `ReportIsFinal` | `Spec => []ReportFinal` |

`NoLostUpdate` says that a counter is the sum of all that was stored.  It is
inductive only together with `Locked` (one process at a time is past `sem_wait`)
and `Current` (the value a process has loaded is still there when it stores).
What a process has still to do is the end of the list of calls it was given
(`LastOnes`), so that a process that has left has made them all.  For the times,
each stay is the real time less a minute per full minute on the clock, for
every pair of readings of the clock; the sum over clients does the rest.

`Sums` states how a fold over a finite set changes when one term does, when
two functions agree, and when terms move from one sum to another.  The induction
theorems of the library take an operator as a parameter and are of no use here;
`Sums` uses instead the induction over sets of numbers and over sets of subsets,
where the property is a set to be a member of, and the same device shows
in `DemosProofs` that the table of the nodes of a list is what it should be.

### The staff array and the segment

`StaffRegistryProofs`, for any staff, any array and any way to start:

| Theorem | Statement |
|---|---|
| `RegistryTyped` | `Spec => []TypeOK` |
| `EnoughSlotsNobodyRefused` | `Spec => []NobodyRefused` |
| `DriverSparesItsGroup` | `Spec => []NoGroupSignal` |
| `RefusalMeansFull` | `Spec => []RefusedOnlyWhenFull` |
| `OrderlyStaffFindable` | `Spec => []OrderlyStaffRegistered` |
| `ClosingClearsRegistry` | `Spec => []RegistryCleared` |

That a scan without a lock finds a slot when there are enough is a pigeonhole
argument, but not over the slots as they are: processes overwrite and clear each
other's.  The invariant is `PassedTaken`: to each slot a scan has walked past
belongs another process that stopped there, a different one for each slot.  A
scan that ran off the end would have walked past more slots than there are
others.  Started in turn, only one process looks at a time (`InTurn`), and
therefore whoever claims a slot keeps it (`OwnSlots`), but for slot 0 once a
process has been refused (`TurnedDownStays`).  For `RegistryCleared` the
invariant follows each entry of the array to a process that is still about to
free it or that was interrupted before it remembered it (`ForgottenSlot`).

`LifecycleProofs`, for any number of openings, clients and staff:

| Theorem | Statement |
|---|---|
| `LifecycleTyped` | `Spec => []TypeOK` |
| `ReliedShareOneRestaurant` | `Spec => []OneLiveRestaurant` |
| `CleanupRemovesItsOwn` | `Spec => []OnlyOwnRemoved` |
| `CleanupLeavesNothing` | `Spec => []NothingLeft` |

The invariant says in which order the commands run (`InOrder`), that the one
under way works on the segment of the key and that this one is filled
(`OnTheKey`, `Filled`), that the id stored in it is its own once `init` is
done, and that a segment without the key exists only while somebody is
attached (`KeptBySomebody`).

### The programs under DS

`DemosProofs`, for any numbers of threads, loops, values, nodes, tokens and slots:

| Theorem | Program | Statement |
|---|---|---|
| `NodesHandledSafely` | `fifo.c` | `Spec => []HeapSafe` |
| `LinkedQueueIsFifo` | `fifo.c` | `Spec => ImplementsFifo` |
| `PopsFindAToken` | `token.c` | `Spec => []NeverEmptyHanded` |
| `OneClientAtATime` | `token.c` | `Spec => []OneClientPerToken` |
| `EveryClientServed` | `bounded_queue.c` | `Spec => []NobodyLeftBehind` |
| `MainWaits` | the spawners | `Spec => []MainHasWaited` |
| `NumbersOnce` | `legacy/sem_queue.c` | `Spec => []NumbersNotReused` |

* *The linked queue.*  `HeapInv` names the list as a sequence of nodes that
  begins at `head`: each node points to the next, each is allocated and occurs
  once, and any other allocated node is in the hands of one thread.  `tail` is
  the last node, but while a push has linked its node and not yet moved `tail`
  it is one behind, and by then pop may have freed it: the invariant says that
  nobody reads through it in that state.  `Chain` ties the sequence
  to the recursive `Walk` that the properties are stated with.
* *The refinement* adds that every value is in one place (`Apart`): to be
  pushed, in the list, or printed.  The abstract queue has room for as many
  values as there are, and that it always has room is a pigeonhole over
  distinct values, since the code has no limit to appeal to.
* *The first token system.*  `tokens_available`, and the pops it has admitted,
  and the pushes it does not know of yet, add up to the length of the list: a
  pop therefore never meets an empty one, and `free` of the dummy never happens.
  A token is in the list, with one thread or with one client; its semaphore and
  the clients on their way out add up to 1.
* *The bounded queue demo.*  A client is in one place (its thread, the ring or a
  cashier), and `no_served` counts the clients announced; a cashier that leaves
  has read the number of all.
* *The spawners.*  The semaphore counts the threads that have posted and were not
  waited for.
* *The legacy queue.*  Two producers may read the same number, but of the numbers
  up to k there are never more than k about: N(k) <= k while k is below the
  counter, and from there on N(k) and the producers about to read a number
  are no more than the counter.

### Only model-checked

`ShopCloses`, `OrderlyStaffClose` and `EveryProgramEnds`, the liveness of the
runs: the prover does not handle liveness under fairness, nor `ENABLED`.  The
four properties of section 6 are false, and TLC shows how.

## 6. Where code and comments disagree

| Run | Comment | What the code does |
|---|---|---|
| `TrypopAnswer.cfg` | `lineup_queue.h:92` "-1 if nothing to pop" | fails although a completed push is in the queue, behind one that has not posted |
| `SignalSender.cfg` | `main_token_system.h:102` "returns sig sender id who sent signal" | returns the last sender written, which may be of a later signal |
| `MinuteWrap.cfg` | `client.c:24-25` a client "times the total amount of time they spent inside" | subtracts `tm_sec`: a stay across a full minute is recorded a minute short, possibly negative |
| `StaffRace.cfg` | `shared_mem.h:44-45` "the process ids of all the staff members" | two processes started together overwrite each other |

Related to the last one: a process that finds no slot in the staff array ends
through `cleanup_exit` with a `staff_index` that was never set, and so clears
slot 0, whoever is in it (`cashier.c:118`, `server.c:110`).  `StaffRegistry`
does the same; `OrderlyStaffRegistered` says that no other slot is lost in this
way, and `RefusedOnlyWhenFull` when it can happen at all.  A process that SIGUSR1
interrupts between the two statements of `register_r` that write its slot and
remember the index also clears slot 0 and leaves its own pid behind;
`RegistryCleared` says that nothing else leaves one.

A consequence of all three is that a staff process which the array does not
hold is never sent SIGUSR1 and runs on after closing.  `OrderlyStaffClose` says
who does end.  Such a process also keeps its segment in being after `cleanup`:
`NothingLeft` says that nobody else does.

Nothing in the repository tells the user to wait for the staff.  The staff of a
user who does not (the impatient one of `Lifecycle`) can have their semaphores
destroyed by `cleanup` or initialised again by `init` while they use them;
`OneLiveRestaurant` therefore speaks of the clients and of a patient user's staff.

## 7. Not modelled

* `menu.h`: constant data and pure lookups.  The revenue is a floating-point sum
  of counters the report has read, the average a quotient of two of them.
* `fork`, `exec`, `malloc` and `pthread_create` failures: the code does not
  handle them beyond a message or an assertion.
* Operations nobody calls: `mt_token_tryget` (in `main_token_system.h` and in
  `token.c`), `token_queue_trypush`, `token_queue_trypop`, `counter_decrement`,
  and `bounded_queue_push` and `bounded_queue_pop` of the bounded queue demo,
  whose statements are those of the lineup queue.
* A process killed by anything but the driver's SIGUSR1: nothing recovers.
* In `Lifecycle`: a registration that fails, after which the process detaches and
  exits (`StaffRegistry` has it; staff leave the segment by `CloseShop` alone);
  failures of `shmget` and `shmat` in `init`; a second `test` or `cleanup`
  after one `init`.
* The in-turn start of `StaffRegistry` is staff started by hand, one by one;
  `test.c` starts them all at once.  Both are checked.
* Two users who type commands at the same time.
* `DS/legacy/main.c`: a parent that forks a child which is not in the
  repository; `DS/legacy/eof.h`, an end flag under a mutex that
  nobody includes and that does not compile (a field without its semicolon);
  `wrappers.h`, error checks that end the process; the sequential `main` of
  `counter.c`.
* `DS/legacy/sem_queue.c` includes a `counter.h` with both `init_counter` and
  `get_c`, which no header of the repository has, so that it does not compile as
  it stands.  `LegacyQueue` takes the two from how the program uses them.

## 8. Plan

1. *Done*: the restaurant (`LineupQueue`, `Restaurant`, `StaffRegistry`,
   `Statistics`, `Lifecycle`), the programs under `DS` (`TwoLockQueue` and the
   modules on it, `BoundedQueueDemo`, `Spawner`, `CountedThreads`,
   `LegacyQueue`), and the abstract specifications `FifoQueue` and `Dining`.
2. *Done*: the proofs of section 5, which cover every safety property and
   every refinement that a passing run checks.
3. Left: a step of `Restaurant` that is one critical section of a ring stands on
   `MutualExclusion` by an argument in words (section 2); as a theorem it would
   be that `LineupQueue` implements a queue whose critical sections are one
   step.  The proofs of `RestaurantProofs` and `DemosProofs` can be shortened
   where programs share an argument.
