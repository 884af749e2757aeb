----------------------------- MODULE Restaurant -----------------------------
(***************************************************************************)
(* The restaurant: client, cashier and server processes and the test       *)
(* driver, over one shared memory segment.  The state is that segment      *)
(* (token system, lineup queue, server queue, statistics) and the local    *)
(* state of each process.                                                  *)
(*                                                                         *)
(* One action is one statement that another process can see.  The body of  *)
(* a queue's critical section is a single step: LineupQueue, where it is   *)
(* split, shows that processes are never inside together.  Staff are       *)
(* registered and at the top of their loops in the initial state; how they *)
(* register is the subject of StaffRegistry.                               *)
(***************************************************************************)
EXTENDS SemQueue, Sequences, FiniteSets

CONSTANTS Clients, Cashiers, Servers,  \* processes
          MenuItems,
          Nobody,                      \* no process id (-1, 0)
          NoOrder,
          NO_OF_TOKENS, LINEUP_MAX

Staff  == Cashiers \union Servers
Procs  == Clients \union Staff
Tokens == 0 .. NO_OF_TOKENS - 1

ASSUME RestaurantAssumption ==
    /\ IsFiniteSet(Clients) /\ IsFiniteSet(Cashiers) /\ IsFiniteSet(Servers)
    /\ Clients \intersect Staff = {} /\ Cashiers \intersect Servers = {}
    /\ Nobody \notin Procs
    /\ NO_OF_TOKENS \in Nat \ {0}
    /\ LINEUP_MAX \in Nat \ {0}

(* order_t.  token_id is not set before the client has a token. *)
OrderType ==
    [item : MenuItems, token : Tokens \union {Nobody}, client : Clients]

ASSUME OrderAssumption == NoOrder \notin OrderType

VARIABLES
    tq, sem_arr, ct_assns, sig_senders,      \* main_token_system_t
    lq, sq,                                  \* lineup and server queue
    st_p, total_served, total_entered,       \* statistics
    pc,         \* where each process is
    order,      \* the order a process holds in a local variable
    staff_id,   \* what a client's last wait for a signal returned
    is_served,
    threads,    \* the serve_order threads of the servers
    tester,     \* where the test driver is
    signalled   \* staff that SIGUSR1 was sent to

tokenVars == <<tq, sem_arr, ct_assns, sig_senders>>
statVars  == <<st_p, total_served, total_entered>>
testVars  == <<tester, signalled>>
localVars == <<order, staff_id, is_served>>
vars == <<tokenVars, lq, sq, statVars, pc, localVars, threads, testVars>>

(* mt_token_system_init pushes every token once: the ring is full. *)
AllTokensQueued ==
    [NewQueue(NO_OF_TOKENS, 0) EXCEPT
        !.buffer = [i \in Tokens |-> i], !.empty = 0, !.full = NO_OF_TOKENS]

Init ==
    /\ tq = AllTokensQueued
    /\ sem_arr = [t \in Tokens |-> 1]
    /\ ct_assns = [t \in Tokens |-> Nobody]
    /\ sig_senders = [t \in Tokens |-> Nobody]
    /\ lq = NewQueue(LINEUP_MAX, NoOrder)
    /\ sq = NewQueue(LINEUP_MAX, NoOrder)
    /\ st_p = [i \in MenuItems |-> 0]
    /\ total_served = 0
    /\ total_entered = 0
    /\ pc = [p \in Procs |-> CASE p \in Clients  -> "get_wait"
                               [] p \in Cashiers -> "trypop"
                               [] p \in Servers  -> "pop_wait"]
    /\ \E choice \in [Clients -> MenuItems] :
          order = [p \in Procs |->
                     IF p \in Clients
                     THEN [item |-> choice[p], token |-> Nobody, client |-> p]
                     ELSE NoOrder]
    /\ staff_id = [c \in Clients |-> Nobody]
    /\ is_served = [c \in Clients |-> FALSE]
    /\ threads = {}
    /\ tester = "reap"
    /\ signalled = {}

Goto(p, here, there) ==
    /\ pc[p] = here
    /\ pc' = [pc EXCEPT ![p] = there]

Hold(p, o) == order' = [order EXCEPT ![p] = o]

-----------------------------------------------------------------------------
(* The token system, as its callers use it. *)

(* The check and the sem_wait of mt_token_wait_for_signal. *)
WaitForSignal(c, here, there) ==
    LET t    == order[c].token
        mine == ct_assns[t] = c
    IN  /\ Goto(c, here, there)
        /\ mine => sem_arr[t] > 0
        /\ sem_arr' = [sem_arr EXCEPT ![t] = IF mine THEN @ - 1 ELSE @]
        /\ UNCHANGED <<tq, ct_assns, sig_senders, lq, sq, statVars, localVars,
                       threads, testVars>>

(* Its return, after the semaphore let the caller through. *)
ReadSender(c, here, there) ==
    LET t == order[c].token
    IN  /\ Goto(c, here, there)
        /\ staff_id' = [staff_id EXCEPT ![c] =
                          IF ct_assns[t] = c THEN sig_senders[t] ELSE Nobody]
        /\ UNCHANGED <<tokenVars, lq, sq, statVars, order, is_served, threads,
                       testVars>>

(* The two statements of mt_token_give_signal. *)
SetSender(t, sender) == sig_senders' = [sig_senders EXCEPT ![t] = sender]
PostSignal(t)        == sem_arr' = [sem_arr EXCEPT ![t] = @ + 1]

(* Both as steps of a process. *)
GiveSender(p, here, there) ==
    /\ Goto(p, here, there)
    /\ SetSender(order[p].token, p)
    /\ UNCHANGED <<tq, sem_arr, ct_assns, lq, sq, statVars, localVars, threads,
                   testVars>>

GiveSignal(p, here, there) ==
    /\ Goto(p, here, there)
    /\ PostSignal(order[p].token)
    /\ UNCHANGED <<tq, ct_assns, sig_senders, lq, sq, statVars, localVars,
                   threads, testVars>>

-----------------------------------------------------------------------------
(* Client: a token first (mt_token_get over token_queue_pop). *)

UsesTokenQueue ==
    UNCHANGED <<sem_arr, ct_assns, sig_senders, lq, sq, statVars, staff_id,
                is_served, threads, testVars>>

(* Slip: the caller does not wait for a token to be there. *)
GetTokenWaitSkipped(c) ==
    /\ Goto(c, "get_wait", "get_lock")
    /\ tq' = ReserveItem(tq)
    /\ UsesTokenQueue /\ UNCHANGED order

GetTokenWait(c) ==
    /\ tq.full > 0
    /\ Goto(c, "get_wait", "get_lock")
    /\ tq' = ReserveItem(tq)
    /\ UsesTokenQueue /\ UNCHANGED order

GetTokenLock(c) ==
    /\ tq.lock > 0
    /\ Goto(c, "get_lock", "get_take")
    /\ tq' = Lock(tq)
    /\ UsesTokenQueue /\ UNCHANGED order

(* Slip: the read index is not moved, so the next client reads the slot again. *)
GetTokenTakeAgain(c) ==
    /\ Goto(c, "get_take", "get_post")
    /\ Hold(c, [order[c] EXCEPT !.token = ReadSlot(tq)])
    /\ tq' = Unlock(tq)
    /\ UsesTokenQueue

GetTokenTake(c) ==
    /\ Goto(c, "get_take", "get_post")
    /\ Hold(c, [order[c] EXCEPT !.token = ReadSlot(tq)])
    /\ tq' = TakeItem(tq, NO_OF_TOKENS)
    /\ UsesTokenQueue

(* Slip: no sem_post on empty. *)
GetTokenPostMissing(c) ==
    /\ Goto(c, "get_post", "assign")
    /\ UsesTokenQueue /\ UNCHANGED <<tq, order>>

GetTokenPost(c) ==
    /\ Goto(c, "get_post", "assign")
    /\ tq' = PostEmpty(tq)
    /\ UsesTokenQueue /\ UNCHANGED order

AssignToken(c) ==
    /\ Goto(c, "assign", "enter")
    /\ ct_assns' = [ct_assns EXCEPT ![order[c].token] = c]
    /\ UNCHANGED <<tq, sem_arr, sig_senders, lq, sq, statVars, localVars,
                   threads, testVars>>

(* The semaphore of a free token is 1: the first wait passes at once. *)
Enter(c) == WaitForSignal(c, "enter", "trypush")

-----------------------------------------------------------------------------
(* Client: line up, or find the line full and leave. *)

UsesLineupQueue ==
    UNCHANGED <<tokenVars, sq, statVars, staff_id, threads, testVars>>

LineUp(c) ==
    /\ lq.empty > 0
    /\ Goto(c, "trypush", "push_lock")
    /\ lq' = ReserveSlot(lq)
    /\ UsesLineupQueue /\ UNCHANGED <<order, is_served>>

(* Slips: a client leaves although there is a place; one that is turned    *)
(* away does not restore its token's semaphore.                            *)
TurnAwayTooSoon(c) ==
    /\ lq.empty <= 1
    /\ Goto(c, "trypush", "restore_sender")
    /\ UsesLineupQueue /\ UNCHANGED <<lq, order, is_served>>

TurnAwayUnrestored(c) ==
    /\ lq.empty = 0
    /\ Goto(c, "trypush", "return")
    /\ UsesLineupQueue /\ UNCHANGED <<lq, order, is_served>>

TurnAway(c) ==
    /\ lq.empty = 0
    /\ Goto(c, "trypush", "restore_sender")
    /\ UsesLineupQueue /\ UNCHANGED <<lq, order, is_served>>

LineUpLock(c) ==
    /\ lq.lock > 0
    /\ Goto(c, "push_lock", "push_put")
    /\ lq' = Lock(lq)
    /\ UsesLineupQueue /\ UNCHANGED <<order, is_served>>

LineUpPut(c) ==
    /\ Goto(c, "push_put", "push_post")
    /\ lq' = PutItem(lq, order[c], LINEUP_MAX)
    /\ UsesLineupQueue /\ UNCHANGED <<order, is_served>>

LineUpPost(c) ==
    /\ Goto(c, "push_post", "wait_received")
    /\ lq' = PostFull(lq)
    /\ is_served' = [is_served EXCEPT ![c] = TRUE]
    /\ UsesLineupQueue /\ UNCHANGED order

-----------------------------------------------------------------------------
(* Client: one signal when the order is received, one when it is           *)
(* processed, one when it is served.                                       *)

WaitReceived(c)  == WaitForSignal(c, "wait_received", "read_received")
ReadReceived(c)  == ReadSender(c, "read_received", "wait_processed")
WaitProcessed(c) == WaitForSignal(c, "wait_processed", "read_processed")
ReadProcessed(c) == ReadSender(c, "read_processed", "wait_served")
(* Slip: the client leaves without waiting for its food. *)
WaitServedSkipped(c) ==
    /\ Goto(c, "wait_served", "read_served")
    /\ UNCHANGED <<tokenVars, lq, sq, statVars, localVars, threads, testVars>>

WaitServed(c)    == WaitForSignal(c, "wait_served", "read_served")
ReadServed(c)    == ReadSender(c, "read_served", "restore_sender")

-----------------------------------------------------------------------------
(* Client: restore the semaphore, give the token back, be counted. *)

RestoreSender(c) == GiveSender(c, "restore_sender", "restore_signal")
(* Slip: only the sender is restored, not the semaphore. *)
RestoreSignalMissing(c) ==
    /\ Goto(c, "restore_signal", "return")
    /\ UNCHANGED <<tokenVars, lq, sq, statVars, localVars, threads, testVars>>

RestoreSignal(c) == GiveSignal(c, "restore_signal", "return")

(* Slip: the assignment is not cleared. *)
ReturnTokenAssigned(c) ==
    /\ pc[c] = "return"
    /\ pc' = [pc EXCEPT ![c] = "return_wait"]
    /\ UNCHANGED <<tokenVars, lq, sq, statVars, localVars, threads, testVars>>

ReturnToken(c) ==
    LET t    == order[c].token
        mine == ct_assns[t] = c
    IN  /\ pc[c] = "return"
        /\ pc' = [pc EXCEPT ![c] = IF mine THEN "return_wait" ELSE "record_served"]
        /\ ct_assns' = [ct_assns EXCEPT ![t] = IF mine THEN Nobody ELSE @]
        /\ UNCHANGED <<tq, sem_arr, sig_senders, lq, sq, statVars, localVars,
                       threads, testVars>>

ReturnTokenWait(c) ==
    /\ tq.empty > 0
    /\ Goto(c, "return_wait", "return_lock")
    /\ tq' = ReserveSlot(tq)
    /\ UsesTokenQueue /\ UNCHANGED order

ReturnTokenLock(c) ==
    /\ tq.lock > 0
    /\ Goto(c, "return_lock", "return_put")
    /\ tq' = Lock(tq)
    /\ UsesTokenQueue /\ UNCHANGED order

ReturnTokenPut(c) ==
    /\ Goto(c, "return_put", "return_post")
    /\ tq' = PutItem(tq, order[c].token, NO_OF_TOKENS)
    /\ UsesTokenQueue /\ UNCHANGED order

ReturnTokenPost(c) ==
    /\ Goto(c, "return_post", "record_served")
    /\ tq' = PostFull(tq)
    /\ UsesTokenQueue /\ UNCHANGED order

(* Slip: a client that was turned away is counted as served. *)
RecordServedAlways(c) ==
    /\ Goto(c, "record_served", "record_entered")
    /\ total_served' = total_served + 1
    /\ UNCHANGED <<tokenVars, lq, sq, st_p, total_entered, localVars, threads,
                   testVars>>

(* stats_clients_record: one locked counter after the other. *)
RecordServed(c) ==
    /\ Goto(c, "record_served", "record_entered")
    /\ total_served' = total_served + (IF is_served[c] THEN 1 ELSE 0)
    /\ UNCHANGED <<tokenVars, lq, sq, st_p, total_entered, localVars, threads,
                   testVars>>

RecordEntered(c) ==
    /\ Goto(c, "record_entered", "done")
    /\ total_entered' = total_entered + 1
    /\ UNCHANGED <<tokenVars, lq, sq, st_p, total_served, localVars, threads,
                   testVars>>

Client(c) ==
    \/ GetTokenWait(c) \/ GetTokenLock(c) \/ GetTokenTake(c) \/ GetTokenPost(c)
    \/ AssignToken(c) \/ Enter(c)
    \/ LineUp(c) \/ TurnAway(c) \/ LineUpLock(c) \/ LineUpPut(c) \/ LineUpPost(c)
    \/ WaitReceived(c) \/ ReadReceived(c)
    \/ WaitProcessed(c) \/ ReadProcessed(c)
    \/ WaitServed(c) \/ ReadServed(c)
    \/ RestoreSender(c) \/ RestoreSignal(c)
    \/ ReturnToken(c) \/ ReturnTokenWait(c) \/ ReturnTokenLock(c)
    \/ ReturnTokenPut(c) \/ ReturnTokenPost(c)
    \/ RecordServed(c) \/ RecordEntered(c)

-----------------------------------------------------------------------------
(* Cashier: take the next order, or have a break. *)

CashierUsesQueue ==
    UNCHANGED <<tokenVars, statVars, staff_id, is_served, threads, testVars>>

TakeOrder(k) ==
    /\ lq.full > 0
    /\ Goto(k, "trypop", "pop_lock")
    /\ lq' = ReserveItem(lq)
    /\ CashierUsesQueue /\ UNCHANGED <<sq, order>>

TakeBreak(k) ==
    /\ lq.full = 0
    /\ Goto(k, "trypop", "break")
    /\ CashierUsesQueue /\ UNCHANGED <<lq, sq, order>>

EndBreak(k) ==
    /\ Goto(k, "break", "trypop")
    /\ CashierUsesQueue /\ UNCHANGED <<lq, sq, order>>

TakeOrderLock(k) ==
    /\ lq.lock > 0
    /\ Goto(k, "pop_lock", "pop_take")
    /\ lq' = Lock(lq)
    /\ CashierUsesQueue /\ UNCHANGED <<sq, order>>

TakeOrderTake(k) ==
    /\ Goto(k, "pop_take", "pop_post")
    /\ Hold(k, ReadSlot(lq))
    /\ lq' = TakeItem(lq, LINEUP_MAX)
    /\ CashierUsesQueue /\ UNCHANGED sq

(* Slip: no sem_post on empty, the place in line is lost. *)
TakeOrderPostMissing(k) ==
    /\ Goto(k, "pop_post", "received_sender")
    /\ CashierUsesQueue /\ UNCHANGED <<lq, sq, order>>

TakeOrderPost(k) ==
    /\ Goto(k, "pop_post", "received_sender")
    /\ lq' = PostEmpty(lq)
    /\ CashierUsesQueue /\ UNCHANGED <<sq, order>>

ReceivedSender(k)  == GiveSender(k, "received_sender", "received_signal")
ReceivedSignal(k)  == GiveSignal(k, "received_signal", "processed_sender")
ProcessedSender(k) == GiveSender(k, "processed_sender", "processed_signal")
ProcessedSignal(k) == GiveSignal(k, "processed_signal", "purchase")

(* stats_purchase_record *)
RecordPurchase(k) ==
    /\ Goto(k, "purchase", "pass_wait")
    /\ st_p' = [st_p EXCEPT ![order[k].item] = @ + 1]
    /\ UNCHANGED <<tokenVars, lq, sq, total_served, total_entered, localVars,
                   threads, testVars>>

(* Pass the order to the server; wait if the server queue is full. *)
PassOrderWait(k) ==
    /\ sq.empty > 0
    /\ Goto(k, "pass_wait", "pass_lock")
    /\ sq' = ReserveSlot(sq)
    /\ CashierUsesQueue /\ UNCHANGED <<lq, order>>

PassOrderLock(k) ==
    /\ sq.lock > 0
    /\ Goto(k, "pass_lock", "pass_put")
    /\ sq' = Lock(sq)
    /\ CashierUsesQueue /\ UNCHANGED <<lq, order>>

(* The queue has a copy: the cashier's local one is dead from here on. *)
PassOrderPut(k) ==
    /\ Goto(k, "pass_put", "pass_post")
    /\ sq' = PutItem(sq, order[k], LINEUP_MAX)
    /\ Hold(k, NoOrder)
    /\ CashierUsesQueue /\ UNCHANGED lq

PassOrderPost(k) ==
    /\ Goto(k, "pass_post", "trypop")
    /\ sq' = PostFull(sq)
    /\ CashierUsesQueue /\ UNCHANGED <<lq, order>>

Cashier(k) ==
    \/ TakeOrder(k) \/ TakeBreak(k) \/ EndBreak(k)
    \/ TakeOrderLock(k) \/ TakeOrderTake(k) \/ TakeOrderPost(k)
    \/ ReceivedSender(k) \/ ReceivedSignal(k)
    \/ ProcessedSender(k) \/ ProcessedSignal(k)
    \/ RecordPurchase(k)
    \/ PassOrderWait(k) \/ PassOrderLock(k) \/ PassOrderPut(k) \/ PassOrderPost(k)

-----------------------------------------------------------------------------
(* Server: take each order off the queue and start a thread for it. *)

ServerUsesQueue ==
    UNCHANGED <<tokenVars, lq, statVars, staff_id, is_served, testVars>>

ServerPopWait(s) ==
    /\ sq.full > 0
    /\ Goto(s, "pop_wait", "pop_lock")
    /\ sq' = ReserveItem(sq)
    /\ ServerUsesQueue /\ UNCHANGED <<order, threads>>

ServerPopLock(s) ==
    /\ sq.lock > 0
    /\ Goto(s, "pop_lock", "pop_take")
    /\ sq' = Lock(sq)
    /\ ServerUsesQueue /\ UNCHANGED <<order, threads>>

ServerPopTake(s) ==
    /\ Goto(s, "pop_take", "pop_post")
    /\ Hold(s, ReadSlot(sq))
    /\ sq' = TakeItem(sq, LINEUP_MAX)
    /\ ServerUsesQueue /\ UNCHANGED threads

ServerPopPost(s) ==
    /\ Goto(s, "pop_post", "spawn")
    /\ sq' = PostEmpty(sq)
    /\ ServerUsesQueue /\ UNCHANGED <<order, threads>>

(* pthread_create: the order, a heap block of its own, goes to the thread. *)
Spawn(s) ==
    /\ Goto(s, "spawn", "pop_wait")
    /\ threads' = threads \union
                    {[server |-> s, order |-> order[s], at |-> "served_sender"]}
    /\ Hold(s, NoOrder)
    /\ ServerUsesQueue /\ UNCHANGED sq

Server(s) ==
    ServerPopWait(s) \/ ServerPopLock(s) \/ ServerPopTake(s) \/ ServerPopPost(s)
    \/ Spawn(s)

(* serve_order, after its two sleeps. *)
ServedSender(th) ==
    /\ th.at = "served_sender"
    /\ SetSender(th.order.token, th.server)
    /\ threads' = (threads \ {th}) \union {[th EXCEPT !.at = "served_signal"]}
    /\ UNCHANGED <<tq, sem_arr, ct_assns, lq, sq, statVars, pc, localVars,
                   testVars>>

(* Slip: the sender is set but the semaphore not posted. *)
ServedSignalMissing(th) ==
    /\ th.at = "served_signal"
    /\ threads' = threads \ {th}
    /\ UNCHANGED <<tokenVars, lq, sq, statVars, pc, localVars, testVars>>

ServedSignal(th) ==
    /\ th.at = "served_signal"
    /\ PostSignal(th.order.token)
    /\ threads' = threads \ {th}
    /\ UNCHANGED <<tq, ct_assns, sig_senders, lq, sq, statVars, pc, localVars,
                   testVars>>

ServeOrder(th) == ServedSender(th) \/ ServedSignal(th)

-----------------------------------------------------------------------------
(* The test driver waits for every client to exit, then sends SIGUSR1 to   *)
(* every registered staff process.  A handler runs at any later moment and *)
(* ends the process, a server with all its threads.                        *)

Reap ==
    /\ tester = "reap"
    /\ \A c \in Clients : pc[c] = "done"
    /\ tester' = "kill"
    /\ UNCHANGED <<tokenVars, lq, sq, statVars, pc, localVars, threads, signalled>>

(* Slip: the driver does not wait for the clients. *)
KillEarly(s) ==
    /\ s \notin signalled
    /\ signalled' = signalled \union {s}
    /\ UNCHANGED <<tokenVars, lq, sq, statVars, pc, localVars, threads, tester>>

Kill(s) ==
    /\ tester = "kill"
    /\ s \notin signalled
    /\ signalled' = signalled \union {s}
    /\ tester' = IF signalled' = Staff THEN "done" ELSE "kill"
    /\ UNCHANGED <<tokenVars, lq, sq, statVars, pc, localVars, threads>>

HandleUSR1(s) ==
    /\ s \in signalled
    /\ pc[s] # "exited"
    /\ pc' = [pc EXCEPT ![s] = "exited"]
    /\ threads' = {th \in threads : th.server # s}
    /\ UNCHANGED <<tokenVars, lq, sq, statVars, localVars, testVars>>

Closed == tester = "done" /\ \A s \in Staff : pc[s] = "exited"

(* Everybody has gone home; nothing is left to happen. *)
Terminated == Closed /\ UNCHANGED vars

-----------------------------------------------------------------------------
Next ==
    \/ \E c \in Clients : Client(c)
    \/ \E k \in Cashiers : Cashier(k)
    \/ \E s \in Servers : Server(s)
    \/ \E th \in threads : ServeOrder(th)
    \/ Reap
    \/ \E s \in Staff : Kill(s) \/ HandleUSR1(s)
    \/ Terminated

Spec == Init /\ [][Next]_vars

(* Each process and thread keeps being scheduled.  Nothing is assumed of   *)
(* which waiter a semaphore wakes.                                         *)
Fairness ==
    /\ \A c \in Clients : WF_vars(Client(c))
    /\ \A k \in Cashiers : WF_vars(Cashier(k))
    /\ \A s \in Servers : WF_vars(Server(s))
    /\ WF_vars(\E th \in threads : ServeOrder(th))
    /\ WF_vars(Reap \/ \E s \in Staff : Kill(s))
    /\ \A s \in Staff : WF_vars(HandleUSR1(s))

FairSpec == Spec /\ Fairness
-----------------------------------------------------------------------------
(* Where tokens and orders are. *)

AnyOf(ps, places) == {p \in ps : pc[p] \in places}

(* Clients that have taken a token out of the queue and not put it back. *)
Holders ==
    Clients \ AnyOf(Clients, {"get_wait", "get_lock", "get_take", "return_post",
                              "record_served", "record_entered", "done"})

FreeTokens ==
    Items(tq, tq.full + Cardinality(AnyOf(Clients, {"return_post"}))
                      + Cardinality(AnyOf(Clients, {"get_lock", "get_take"})),
          NO_OF_TOKENS)

LinedUp ==
    Items(lq, lq.full + Cardinality(AnyOf(Clients, {"push_post"}))
                      + Cardinality(AnyOf(Cashiers, {"pop_lock", "pop_take"})),
          LINEUP_MAX)

ToServe ==
    Items(sq, sq.full + Cardinality(AnyOf(Cashiers, {"pass_post"}))
                      + Cardinality(AnyOf(Servers, {"pop_lock", "pop_take"})),
          LINEUP_MAX)

(* Clients whose order a staff process at one of the places holds. *)
OrdersAt(ps, places) == {order[p].client : p \in AnyOf(ps, places)}

OrdersIn(seq) == {seq[i] : i \in DOMAIN seq}

ClientsIn(seq) == {o.client : o \in OrdersIn(seq)}

(* Clients whose order is somewhere between trypush and the first,  *)
(* second and third signal.                                         *)
Unreceived ==
    ClientsIn(LinedUp)
      \union OrdersAt(Cashiers, {"pop_post", "received_sender", "received_signal"})
Unprocessed == OrdersAt(Cashiers, {"processed_sender", "processed_signal"})
Unserved ==
    ClientsIn(ToServe)
      \union OrdersAt(Cashiers, {"purchase", "pass_wait", "pass_lock", "pass_put"})
      \union OrdersAt(Servers, {"pop_post", "spawn"})
      \union {th.order.client : th \in threads}

(* Every order in the system, wherever it is. *)
OrdersInSystem ==
    OrdersIn(LinedUp) \union OrdersIn(ToServe)
      \union ({order[s] : s \in Staff} \ {NoOrder})
      \union {th.order : th \in threads}

Waiting == AnyOf(Clients, {"push_post", "wait_received", "read_received",
                           "wait_processed", "read_processed", "wait_served"})

-----------------------------------------------------------------------------
(* Properties *)

TypeOK ==
    /\ tq \in QueueType(NO_OF_TOKENS, Tokens)
    /\ lq \in QueueType(LINEUP_MAX, OrderType \union {NoOrder})
    /\ sq \in QueueType(LINEUP_MAX, OrderType \union {NoOrder})
    /\ sem_arr \in [Tokens -> Nat]
    /\ ct_assns \in [Tokens -> Clients \union {Nobody}]
    /\ sig_senders \in [Tokens -> Procs \union {Nobody}]
    /\ st_p \in [MenuItems -> Nat]
    /\ total_served \in Nat /\ total_entered \in Nat
    /\ DOMAIN pc = Procs
    /\ order \in [Procs -> OrderType \union {NoOrder}]
    /\ \A c \in Clients : order[c] # NoOrder
    /\ staff_id \in [Clients -> Procs \union {Nobody}]
    /\ is_served \in [Clients -> BOOLEAN]
    /\ threads \subseteq [server : Servers, order : OrderType,
                          at : {"served_sender", "served_signal"}]
    /\ tester \in {"reap", "kill", "done"}
    /\ signalled \subseteq Staff

(* A token is in the queue once or held by one client, never both and never *)
(* lost: two clients in the restaurant do not share a semaphore.            *)
TokensConserved ==
    /\ \A c, d \in Holders : order[c].token = order[d].token => c = d
    /\ \A i \in DOMAIN FreeTokens :
          /\ \A j \in DOMAIN FreeTokens : FreeTokens[i] = FreeTokens[j] => i = j
          /\ \A c \in Holders : FreeTokens[i] # order[c].token
    /\ Len(FreeTokens) + Cardinality(Holders) = NO_OF_TOKENS

(* An order that is still on its way belongs to a client that still waits   *)
(* and still has the token the order names: staff never signal a token that *)
(* went on to somebody else.                                                *)
OrdersAwaited ==
    \A o \in OrdersInSystem :
        /\ o.client \in Waiting
        /\ o = order[o.client]
        /\ ct_assns[o.token] = o.client

(* How many of the three signals staff have posted for a client's order. *)
Posted(c) ==
    CASE c \in Unreceived  -> 0
      [] c \in Unprocessed -> 1
      [] c \in Unserved    -> 2
      [] OTHER             -> 3

(* How many of them the client has taken. *)
Taken(c) ==
    CASE pc[c] \in {"push_post", "wait_received"}        -> 0
      [] pc[c] \in {"read_received", "wait_processed"}   -> 1
      [] pc[c] \in {"read_processed", "wait_served"}     -> 2

(* A token's semaphore counts exactly the signals posted and not yet taken  *)
(* by its holder, and is back at 1 before the next holder gets it: signals  *)
(* do not leak from one visit into the next, whoever is ahead of whom.      *)
SignalsBalanced ==
    /\ \A i \in DOMAIN FreeTokens : sem_arr[FreeTokens[i]] = 1
    /\ \A c \in Holders :
          sem_arr[order[c].token] =
             IF pc[c] \in {"get_post", "assign", "enter",
                           "return", "return_wait", "return_lock", "return_put"}
             THEN 1
             ELSE IF c \in Waiting THEN Posted(c) - Taken(c) ELSE 0

(* The shipped configuration has as many places in line as tokens.  Then    *)
(* nobody is ever turned away, and no cashier ever waits for the server:    *)
(* the slots of both queues are accounted for by the tokens of the clients. *)
RoomForEveryToken ==
    NO_OF_TOKENS <= LINEUP_MAX =>
        /\ \A c \in AnyOf(Clients, {"trypush"}) : lq.empty > 0
        /\ \A k \in AnyOf(Cashiers, {"pass_wait"}) : sq.empty > 0

(* A client that returns its token never waits for room in the token queue. *)
ReturnNeverWaits == \A c \in AnyOf(Clients, {"return_wait"}) : tq.empty > 0

(* Once every client has left, the shared segment is as it was before the   *)
(* first came: all tokens back, all semaphores restored, both queues empty, *)
(* no lock held.                                                            *)
CleanAtClosing ==
    tester # "reap" =>
        /\ tq.full = NO_OF_TOKENS /\ tq.empty = 0 /\ tq.lock = 1
        /\ lq.full = 0 /\ lq.empty = LINEUP_MAX /\ lq.lock = 1
        /\ sq.full = 0 /\ sq.empty = LINEUP_MAX /\ sq.lock = 1
        /\ \A t \in Tokens : sem_arr[t] = 1 /\ ct_assns[t] = Nobody

(* The report the test driver prints then is exact although it waits for no *)
(* staff process: every served client is counted and its purchase recorded; *)
(* and however many clients the full line turned away, somebody was served, *)
(* so that the average waiting time, a quotient by total_served, is defined. *)
ReportExact ==
    tester # "reap" =>
        /\ total_entered = Cardinality(Clients)
        /\ total_served = Cardinality({c \in Clients : is_served[c]})
        /\ total_served > 0
        /\ \A i \in MenuItems :
              st_p[i] = Cardinality({c \in Clients : is_served[c] /\ order[c].item = i})

(* SIGUSR1 ends a process at any statement.  It never ends one that is      *)
(* inside an operation, holds a lock or an order, or has a customer's meal  *)
(* in one of its threads.                                                   *)
StaffLeaveIdle ==
    [][\A s \in Staff : (pc[s] # "exited" /\ pc'[s] = "exited") =>
          /\ pc[s] \in {"trypop", "break", "pop_wait"}
          /\ order[s] = NoOrder
          /\ \A th \in threads : th.server # s]_vars

(* The restaurant implements Dining: a client is seated while it holds a    *)
(* token, and moves on when its sem_wait on the token lets it through.      *)
Stage(c) ==
    CASE pc[c] \in {"get_wait", "get_lock", "get_take"}                -> "outside"
      [] pc[c] \in {"get_post", "assign", "enter", "trypush"}          -> "seated"
      [] pc[c] \in {"push_lock", "push_put", "push_post",
                    "wait_received"}                                   -> "inline"
      [] pc[c] \in {"read_received", "wait_processed"}                 -> "received"
      [] pc[c] \in {"read_processed", "wait_served"}                   -> "processed"
      [] pc[c] \in {"read_served", "restore_sender", "restore_signal",
                    "return", "return_wait", "return_lock", "return_put"}
           -> IF is_served[c] THEN "served" ELSE "refused"
      [] OTHER -> IF is_served[c] THEN "fed" ELSE "unfed"

Promise == INSTANCE Dining WITH
    Seats  <- NO_OF_TOKENS,
    Places <- LINEUP_MAX,
    stage  <- [c \in Clients |-> Stage(c)],
    choice <- [c \in Clients |-> order[c].item],
    sales  <- st_p

(* Never more clients inside than tokens; each hears of its own order three *)
(* times, in order; food only against a recorded purchase; and a client is  *)
(* turned away only by a line of LINEUP_MAX clients not yet received.       *)
ImplementsDining == Promise!Spec

(* Every client gets a token, is served or turned away, and leaves; and     *)
(* then the shop closes.                                                    *)
ShopCloses == <>Closed

(* mt_token_wait_for_signal: "returns sig sender id who sent signal".  The  *)
(* signals "received" and "processed" are sent by cashiers, "served" by a   *)
(* server; read literally, the three waits return such ids.                 *)
SenderIsWhoSent ==
    [][\A c \in Clients :
          /\ pc'[c] # pc[c] /\ pc[c] \in {"read_received", "read_processed"}
                => staff_id'[c] \in Cashiers
          /\ pc'[c] # pc[c] /\ pc[c] = "read_served" => staff_id'[c] \in Servers]_vars
=============================================================================
