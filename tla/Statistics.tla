----------------------------- MODULE Statistics ------------------------------
(***************************************************************************)
(* The books of the restaurant: the locked counters of the shared segment, *)
(* the clients' time stamps and records, the cashiers' purchase records,   *)
(* and the report of the test driver.  The visit itself is in Restaurant;  *)
(* here a client only stamps the time, and passes it.                      *)
(***************************************************************************)
EXTENDS Integers, Sequences, SequencesExt

CONSTANTS Clients, Cashiers, MenuItems,
          Driver,      \* the test driver
          NoItem,
          MINUTE,      \* tm_sec is in 0 .. MINUTE - 1; 60
          LastSecond   \* bound: the clock stops there

Procs == Clients \union Cashiers \union {Driver}

(* stats_clients_buf_t, and the purchases of each menu item *)
ClientCounters ==
    {"total_served", "total_entered", "total_time_waiting", "total_time_total"}

Counters == ClientCounters \union MenuItems

ASSUME StatisticsAssumption ==
    /\ IsFiniteSet(Clients) /\ IsFiniteSet(Cashiers) /\ IsFiniteSet(MenuItems)
    /\ Clients \intersect Cashiers = {} /\ Driver \notin Clients \union Cashiers
    /\ NoItem \notin MenuItems /\ MenuItems \intersect ClientCounters = {}
    /\ MINUTE \in Nat \ {0} /\ LastSecond \in Nat

(* counter_init *)
NewCounter == [value |-> 0, lock |-> 1]

VARIABLES counter,    \* value and semaphore of each counter
          now,        \* time(0)
          pc,         \* where each client is, and the driver
          t1, t2, t3, \* time(0) at each client's three stamps
          is_served,  \* each client's local
          sold,       \* the item of the purchase each cashier recorded
          todo,       \* counter calls each process has yet to finish
          at,         \* the statement of the first of them it has come to
          reg,        \* the value it has read
          report      \* what the driver's calls have returned

stamps   == <<t1, t2, t3, is_served>>
calls    == <<todo, at, reg>>
vars     == <<counter, now, pc, stamps, sold, calls, report>>

(* localtime(&t)->tm_sec *)
TmSec(t) == t % MINUTE

(* counter_increment is adding 1. *)
Add(x, n) == [counter |-> x, op |-> "add", n |-> n]
Get(x)    == [counter |-> x, op |-> "get", n |-> 0]

Init ==
    /\ counter = [x \in Counters |-> NewCounter]
    /\ now = 0
    /\ pc = [p \in Clients \union {Driver} |-> "outside"]
    /\ t1 = [c \in Clients |-> 0] /\ t2 = t1 /\ t3 = t1
    /\ is_served = [c \in Clients |-> FALSE]
    /\ sold = [k \in Cashiers |-> NoItem]
    /\ todo = [p \in Procs |-> <<>>]
    /\ at = [p \in Procs |-> "sem_wait"]
    /\ reg = [p \in Procs |-> 0]
    /\ report = [x \in Counters |-> 0]

Goto(p, here, there) ==
    /\ pc[p] = here
    /\ pc' = [pc EXCEPT ![p] = there]

Schedule(p, ops) == todo' = [todo EXCEPT ![p] = ops]

-----------------------------------------------------------------------------
(* counter_increment, counter_increment_by_n, counter_get_c *)

Call(p) == Head(todo[p])

Statement(p, here, there) ==
    /\ todo[p] # <<>>
    /\ at[p] = here
    /\ at' = [at EXCEPT ![p] = there]

(* Slip: no sem_wait on the lock. *)
CounterWaitMissing(p) ==
    /\ Statement(p, "sem_wait", "load")
    /\ UNCHANGED <<counter, todo, reg, report>>

CounterWait(p) ==
    /\ Statement(p, "sem_wait", "load")
    /\ counter[Call(p).counter].lock > 0
    /\ counter' = [counter EXCEPT ![Call(p).counter].lock = @ - 1]
    /\ UNCHANGED <<todo, reg, report>>

CounterLoad(p) ==
    /\ \/ Statement(p, "load", "store") /\ Call(p).op = "add"
       \/ Statement(p, "load", "sem_post") /\ Call(p).op = "get"
    /\ reg' = [reg EXCEPT ![p] = counter[Call(p).counter].value]
    /\ UNCHANGED <<counter, todo, report>>

CounterStore(p) ==
    /\ Statement(p, "store", "sem_post")
    /\ counter' = [counter EXCEPT ![Call(p).counter].value = reg[p] + Call(p).n]
    /\ UNCHANGED <<todo, reg, report>>

(* The call returns; counter_get_c the value it has read under the lock. *)
CounterPost(p) ==
    /\ Statement(p, "sem_post", "sem_wait")
    /\ counter' = [counter EXCEPT ![Call(p).counter].lock = @ + 1]
    /\ report' = IF Call(p).op = "get"
                 THEN [report EXCEPT ![Call(p).counter] = reg[p]] ELSE report
    /\ Schedule(p, Tail(todo[p]))
    /\ reg' = [reg EXCEPT ![p] = 0]

InCall(p) ==
    /\ CounterWait(p) \/ CounterLoad(p) \/ CounterStore(p) \/ CounterPost(p)
    /\ UNCHANGED <<now, pc, stamps, sold>>

-----------------------------------------------------------------------------
(* Clients *)

Tick ==
    /\ now < LastSecond
    /\ now' = now + 1
    /\ UNCHANGED <<counter, pc, stamps, sold, calls, report>>

StampEntry(c) ==
    /\ Goto(c, "outside", "inside")
    /\ t1' = [t1 EXCEPT ![c] = now]
    /\ UNCHANGED <<counter, now, t2, t3, is_served, sold, calls, report>>

(* The order is processed, or the client did not get into the line. *)
StampWaited(c) ==
    /\ Goto(c, "inside", "waited")
    /\ t2' = [t2 EXCEPT ![c] = now]
    /\ \E served \in BOOLEAN : is_served' = [is_served EXCEPT ![c] = served]
    /\ UNCHANGED <<counter, now, t1, t3, sold, calls, report>>

(* Slip: the two times change places. *)
RecordSwapped(waiting, total, served) ==
    (IF served THEN <<Add("total_served", 1)>> ELSE <<>>)
      \o << Add("total_entered", 1), Add("total_time_waiting", total),
            Add("total_time_total", waiting) >>

(* stats_clients_record *)
Record(waiting, total, served) ==
    (IF served THEN <<Add("total_served", 1)>> ELSE <<>>)
      \o << Add("total_entered", 1), Add("total_time_waiting", waiting),
            Add("total_time_total", total) >>

StampExit(c) ==
    /\ Goto(c, "waited", "recording")
    /\ t3' = [t3 EXCEPT ![c] = now]
    /\ Schedule(c, Record(TmSec(t2[c]) - TmSec(t1[c]),
                          TmSec(now) - TmSec(t1[c]), is_served[c]))
    /\ UNCHANGED <<counter, now, t1, t2, is_served, sold, at, reg, report>>

Exit(c) ==
    /\ todo[c] = <<>>
    /\ Goto(c, "recording", "exited")
    /\ UNCHANGED <<counter, now, stamps, sold, calls, report>>

(* stats_purchase_record; one purchase for each cashier. *)
Sell(k) ==
    /\ sold[k] = NoItem
    /\ \E i \in MenuItems :
          /\ sold' = [sold EXCEPT ![k] = i]
          /\ Schedule(k, <<Add(i, 1)>>)
    /\ UNCHANGED <<counter, now, pc, stamps, at, reg, report>>

-----------------------------------------------------------------------------
(* The report: revenue, clients entered, clients served, average. *)

(* stats_purchase_total_revenue reads one item after the other. *)
RevenueCalls ==
    [n \in 1 .. Cardinality(MenuItems) |-> Get(SetToSeq(MenuItems)[n])]

ReportCalls ==
    RevenueCalls \o << Get("total_entered"), Get("total_served"),
                       Get("total_served"), Get("total_time_waiting") >>

(* Slip: a client that has left the restaurant is not waited for. *)
StartReportEarly ==
    /\ \A c \in Clients : pc[c] \in {"recording", "exited"}
    /\ Goto(Driver, "outside", "reporting")
    /\ Schedule(Driver, ReportCalls)
    /\ UNCHANGED <<counter, now, stamps, sold, at, reg, report>>

(* Every client has been waited for; no cashier has. *)
StartReport ==
    /\ \A c \in Clients : pc[c] = "exited"
    /\ Goto(Driver, "outside", "reporting")
    /\ Schedule(Driver, ReportCalls)
    /\ UNCHANGED <<counter, now, stamps, sold, at, reg, report>>

FinishReport ==
    /\ todo[Driver] = <<>>
    /\ Goto(Driver, "reporting", "done")
    /\ UNCHANGED <<counter, now, stamps, sold, calls, report>>

(* The driver has printed and nobody is in a counter. *)
AtRest ==
    /\ pc[Driver] = "done"
    /\ \A p \in Procs : todo[p] = <<>>
    /\ UNCHANGED vars

Next ==
    \/ Tick
    \/ \E p \in Procs : InCall(p)
    \/ \E c \in Clients :
          StampEntry(c) \/ StampWaited(c) \/ StampExit(c) \/ Exit(c)
    \/ \E k \in Cashiers : Sell(k)
    \/ StartReport \/ FinishReport
    \/ AtRest

Spec == Init /\ [][Next]_vars

-----------------------------------------------------------------------------
(* Properties *)

SumOver(ps, f(_)) == FoldFunction(+, 0, [p \in ps |-> f(p)])

(* The counter calls a process has been given since it started. *)
Given(p) ==
    IF p \in Clients THEN
        IF pc[p] \in {"recording", "exited"}
        THEN Record(TmSec(t2[p]) - TmSec(t1[p]), TmSec(t3[p]) - TmSec(t1[p]),
                    is_served[p])
        ELSE <<>>
    ELSE IF p \in Cashiers /\ sold[p] # NoItem THEN <<Add(sold[p], 1)>> ELSE <<>>

(* Those of them whose store has been executed, and what they add to x. *)
Stored(p) ==
    SubSeq(Given(p), 1, Len(Given(p)) - Len(todo[p])
                           + (IF at[p] = "sem_post" THEN 1 ELSE 0))

AddedTo(x, p) ==
    FoldSeq(LAMBDA call, sum : sum + (IF call.counter = x THEN call.n ELSE 0),
            0, Stored(p))

(* No update is ever lost or applied twice: at every moment a counter is    *)
(* the sum of what all processes have stored in it, although each store     *)
(* writes a value computed from an earlier load.                            *)
NoLostUpdate ==
    \A x \in Counters :
        counter[x].value =
            SumOver(Clients \union Cashiers, LAMBDA p : AddedTo(x, p))

(* The times are differences of tm_sec: the books lose a minute for each    *)
(* full minute on the clock that passes in a wait or a visit, and nothing   *)
(* else.                                                                    *)
Minutes(from, to) == MINUTE * (to \div MINUTE - from \div MINUTE)

LosesWholeMinutes ==
    (\A c \in Clients : pc[c] = "exited") =>
        /\ counter["total_time_waiting"].value =
              SumOver(Clients, LAMBDA c : t2[c] - t1[c] - Minutes(t1[c], t2[c]))
        /\ counter["total_time_total"].value =
              SumOver(Clients, LAMBDA c : t3[c] - t1[c] - Minutes(t1[c], t3[c]))

(* The four numbers are read one after the other, each under its own lock,  *)
(* and staff may still write: what is printed about the clients is final    *)
(* nevertheless, and no more purchases are reported than were made.         *)
ReportFinal ==
    pc[Driver] = "done" =>
        /\ report["total_entered"] = Cardinality(Clients)
        /\ report["total_served"] = Cardinality({c \in Clients : is_served[c]})
        /\ report["total_time_waiting"] = counter["total_time_waiting"].value
        /\ \A i \in MenuItems :
              report[i] <= Cardinality({k \in Cashiers : sold[k] = i})

(* client.c: "A client times the total amount of time they spent inside the *)
(* restaurant and the total amount of time they spent waiting in line".     *)
(* Read literally, what a client adds to the two counters are these times.  *)
TimesAreReal ==
    \A c \in Clients : pc[c] \in {"recording", "exited"} =>
        Given(c) = Record(t2[c] - t1[c], t3[c] - t1[c], is_served[c])
=============================================================================
