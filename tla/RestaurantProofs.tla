-------------------------- MODULE RestaurantProofs --------------------------
(***************************************************************************)
(* Proofs about Restaurant, for any number of clients, cashiers, servers,  *)
(* tokens and places in line.                                              *)
(*                                                                         *)
(* None of the properties is inductive alone.  A token stays with one      *)
(* client because the ring gives out what it stores once; a signal reaches *)
(* the client that waits because its order is in one place and its token   *)
(* is still its own; and that SIGUSR1 finds the staff idle follows from    *)
(* all of it.  So one invariant carries everything: the books of the three *)
(* rings, who owns which token, where each order is, and how many signals  *)
(* have been posted for it.                                                *)
(***************************************************************************)
EXTENDS Restaurant, SemQueueProofs, FiniteSetTheorems

(* How many processes are at these places. *)
N(ps, places) == Cardinality(AnyOf(ps, places))

-----------------------------------------------------------------------------
(* Where processes are, and who holds an order. *)

ClientPlaces ==
    {"get_wait", "get_lock", "get_take", "get_post", "assign", "enter",
     "trypush", "push_lock", "push_put", "push_post",
     "wait_received", "read_received", "wait_processed", "read_processed",
     "wait_served", "read_served", "restore_sender", "restore_signal",
     "return", "return_wait", "return_lock", "return_put", "return_post",
     "record_served", "record_entered", "done"}

(* A cashier's order: no signal posted for it, the first, both. *)
HandUnreceived  == {"pop_post", "received_sender", "received_signal"}
HandUnprocessed == {"processed_sender", "processed_signal"}
HandUnserved    == {"purchase", "pass_wait", "pass_lock", "pass_put"}
CashierHolds    == HandUnreceived \union HandUnprocessed \union HandUnserved
CashierPlaces   ==
    CashierHolds \union
      {"trypop", "break", "pop_lock", "pop_take", "pass_post", "exited"}

ServerHolds  == {"pop_post", "spawn"}
ServerPlaces == ServerHolds \union {"pop_wait", "pop_lock", "pop_take", "exited"}

Placed ==
    /\ \A c \in Clients  : pc[c] \in ClientPlaces
    /\ \A k \in Cashiers : pc[k] \in CashierPlaces
    /\ \A s \in Servers  : pc[s] \in ServerPlaces

Hands ==
    /\ \A c \in Clients  : order[c].client = c
    /\ \A k \in Cashiers : order[k] # NoOrder <=> pc[k] \in CashierHolds
    /\ \A s \in Servers  : order[s] # NoOrder <=> pc[s] \in ServerHolds

-----------------------------------------------------------------------------
(* The books of the three rings. *)

TokenStock ==
    Stock(tq, N(Clients, {"return_post"}), N(Clients, {"get_lock", "get_take"}))

LineStock ==
    Stock(lq, N(Clients, {"push_post"}), N(Cashiers, {"pop_lock", "pop_take"}))

ServiceStock ==
    Stock(sq, N(Cashiers, {"pass_post"}), N(Servers, {"pop_lock", "pop_take"}))

TokenBooks ==
    Books(tq, NO_OF_TOKENS,
          N(Clients, {"return_lock", "return_put"}), N(Clients, {"return_post"}),
          N(Clients, {"get_lock", "get_take"}), N(Clients, {"get_post"}),
          AnyOf(Clients, {"return_put"}) \union AnyOf(Clients, {"get_take"}))

LineBooks ==
    Books(lq, LINEUP_MAX,
          N(Clients, {"push_lock", "push_put"}), N(Clients, {"push_post"}),
          N(Cashiers, {"pop_lock", "pop_take"}), N(Cashiers, {"pop_post"}),
          AnyOf(Clients, {"push_put"}) \union AnyOf(Cashiers, {"pop_take"}))

ServiceBooks ==
    Books(sq, LINEUP_MAX,
          N(Cashiers, {"pass_lock", "pass_put"}), N(Cashiers, {"pass_post"}),
          N(Servers, {"pop_lock", "pop_take"}), N(Servers, {"pop_post"}),
          AnyOf(Cashiers, {"pass_put"}) \union AnyOf(Servers, {"pop_take"}))

(* What they store. *)
Free      == Stored(tq, TokenStock, NO_OF_TOKENS)
InLine    == Stored(lq, LineStock, LINEUP_MAX)
InService == Stored(sq, ServiceStock, LINEUP_MAX)

StoredOnce ==
    /\ Distinct(tq, TokenStock, NO_OF_TOKENS)
    /\ Distinct(lq, LineStock, LINEUP_MAX)
    /\ Distinct(sq, ServiceStock, LINEUP_MAX)

-----------------------------------------------------------------------------
(* Every token is free or has one holder, and is assigned to it from       *)
(* mt_token_get until mt_token_return.                                     *)

Owned ==
    /\ \A c \in Holders : order[c].token \in Tokens \ Free
    /\ \A c, d \in Holders : order[c].token = order[d].token => c = d
    /\ TokenStock + Cardinality(Holders) = NO_OF_TOKENS

Unassigned == {"get_post", "assign", "return_wait", "return_lock", "return_put"}

Assigned ==
    /\ \A t \in Free : ct_assns[t] = Nobody
    /\ \A c \in Holders :
          ct_assns[order[c].token] = IF pc[c] \in Unassigned THEN Nobody ELSE c

-----------------------------------------------------------------------------
(* Every order on its way is in one place, and its client waits.           *)

Carried ==
    InLine \union InService \union ({order[s] : s \in Staff} \ {NoOrder})
      \union {th.order : th \in threads}

Awaited ==
    \A o \in Carried :
        o \in OrderType /\ o.client \in Waiting /\ o = order[o.client]

OneCopy ==
    /\ InLine \intersect InService = {}
    /\ \A s \in Staff : order[s] # NoOrder =>
          /\ order[s] \notin InLine \union InService
          /\ \A r \in Staff : order[r] = order[s] => r = s
    /\ \A th \in threads :
          /\ th.order \notin InLine \union InService
          /\ \A s \in Staff : order[s] # th.order
          /\ \A other \in threads : other.order = th.order => other = th

-----------------------------------------------------------------------------
(* The signals, counted where the order is. *)

Signals(o) == sem_arr[o.token] + Taken(o.client)

Balanced ==
    /\ \A t \in Free : sem_arr[t] = 1
    /\ \A c \in Holders \ Waiting :
          sem_arr[order[c].token] =
            IF pc[c] \in Unassigned \union {"enter", "return"} THEN 1 ELSE 0
    /\ \A o \in InLine : Signals(o) = 0
    /\ \A k \in Cashiers :
          /\ pc[k] \in HandUnreceived  => Signals(order[k]) = 0
          /\ pc[k] \in HandUnprocessed => Signals(order[k]) = 1
          /\ pc[k] \in HandUnserved    => Signals(order[k]) = 2
    /\ \A o \in InService : Signals(o) = 2
    /\ \A s \in Servers : pc[s] \in ServerHolds => Signals(order[s]) = 2
    /\ \A th \in threads : Signals(th.order) = 2
    /\ \A c \in Waiting : order[c] \notin Carried => Signals(order[c]) = 3

(* SIGUSR1 is sent when every client has left. *)
Closing ==
    /\ tester # "reap" => \A c \in Clients : pc[c] = "done"
    /\ signalled # {} => tester # "reap"

Rings == TokenBooks /\ LineBooks /\ ServiceBooks /\ StoredOnce

Inv ==
    /\ TypeOK /\ Placed /\ Hands /\ Rings /\ Owned /\ Assigned
    /\ Awaited /\ OneCopy /\ Balanced /\ Closing
-----------------------------------------------------------------------------
(* A process that moves joins a set of places, leaves it, or does neither. *)

LEMMA KindsFinite ==
    /\ IsFiniteSet(Procs) /\ Clients \in SUBSET Procs
    /\ Cashiers \in SUBSET Procs /\ Servers \in SUBSET Procs
    /\ Staff \in SUBSET Procs /\ Staff = Cashiers \union Servers
BY RestaurantAssumption, FS_Union DEF Procs, Staff

LEMMA AnyOfFinite ==
    ASSUME NEW ps \in SUBSET Procs, NEW places
    PROVE  IsFiniteSet(AnyOf(ps, places)) /\ N(ps, places) \in Nat
<1>1. AnyOf(ps, places) \in SUBSET Procs
    BY DEF AnyOf
<1>2. QED
    BY <1>1, KindsFinite, FS_Subset, FS_CardinalityType DEF N

Shift(ps, p, here, there, places) ==
    IF p \notin ps THEN 0
    ELSE (IF there \in places THEN 1 ELSE 0) - (IF here \in places THEN 1 ELSE 0)

LEMMA GotoCount ==
    ASSUME NEW p \in Procs, NEW here, NEW there, NEW ps \in SUBSET Procs,
           NEW places, DOMAIN pc = Procs, Goto(p, here, there)
    PROVE  /\ N(ps, places)' = N(ps, places) + Shift(ps, p, here, there, places)
           /\ p \in ps /\ here \in places => N(ps, places) > 0
<1>1. IsFiniteSet(AnyOf(ps, places)) /\ N(ps, places) \in Nat
    BY AnyOfFinite
<1>2. p \in AnyOf(ps, places) <=> p \in ps /\ here \in places
    BY DEF AnyOf, Goto
<1>3. AnyOf(ps, places)' = IF p \in ps /\ there \in places
                             THEN AnyOf(ps, places) \union {p}
                             ELSE AnyOf(ps, places) \ {p}
    BY DEF AnyOf, Goto
<1>4. Cardinality(AnyOf(ps, places) \union {p}) =
        IF p \in AnyOf(ps, places) THEN N(ps, places) ELSE N(ps, places) + 1
    BY <1>1, FS_AddElement DEF N
<1>5. Cardinality(AnyOf(ps, places) \ {p}) =
        IF p \in AnyOf(ps, places) THEN N(ps, places) - 1 ELSE N(ps, places)
    BY <1>1, FS_RemoveElement DEF N
<1>6. p \in AnyOf(ps, places) => N(ps, places) # 0
    BY <1>1, FS_EmptySet DEF N
<1>7. N(ps, places)' = Cardinality(AnyOf(ps, places)')
    BY DEF N
<1>8. N(ps, places)' = N(ps, places) + Shift(ps, p, here, there, places)
    BY <1>1, <1>2, <1>3, <1>4, <1>5, <1>7 DEF Shift
<1>9. QED
    BY <1>1, <1>2, <1>6, <1>8

-----------------------------------------------------------------------------
(* A process at work on a ring.  Its writers wait, lock, put and post at   *)
(* the places wl, wp and wo, its readers at rl, rt and ro.                 *)

RingStep(q, r, W, wl, wp, wo, R, rl, rt, ro, p, here, there) ==
    \/ p \in W /\ here \notin {wl, wp, wo, rl, rt, ro} /\ there = wl
       /\ q.empty > 0 /\ r = ReserveSlot(q)
    \/ p \in W /\ here = wl /\ there = wp /\ q.lock > 0 /\ r = Lock(q)
    \/ p \in W /\ here = wo /\ there \notin {wl, wp, wo, rl, rt, ro}
       /\ r = PostFull(q)
    \/ p \in R /\ here \notin {wl, wp, wo, rl, rt, ro} /\ there = rl
       /\ q.full > 0 /\ r = ReserveItem(q)
    \/ p \in R /\ here = rl /\ there = rt /\ q.lock > 0 /\ r = Lock(q)
    \/ p \in R /\ here = ro /\ there \notin {wl, wp, wo, rl, rt, ro}
       /\ r = PostEmpty(q)
    \/ /\ p \in W => here \notin {wl, wp, wo} /\ there \notin {wl, wp, wo}
       /\ p \in R => here \notin {rl, rt, ro} /\ there \notin {rl, rt, ro}
       /\ r = q

AllDifferent(a, b, c, d, e, f) ==
    /\ a \notin {b, c, d, e, f} /\ b \notin {c, d, e, f} /\ c \notin {d, e, f}
    /\ d \notin {e, f} /\ e # f

Ring(q, size, items, W, wl, wp, wo, R, rl, rt, ro) ==
    /\ size \in Nat \ {0} /\ q \in QueueType(size, items)
    /\ W \in SUBSET Procs /\ R \in SUBSET Procs /\ (W = R \/ W \intersect R = {})
    /\ AllDifferent(wl, wp, wo, rl, rt, ro)
    /\ DOMAIN pc = Procs
    /\ Books(q, size, N(W, {wl, wp}), N(W, {wo}), N(R, {rl, rt}), N(R, {ro}),
             AnyOf(W, {wp}) \union AnyOf(R, {rt}))

RingStock(q, W, wo, R, rl, rt) == Stock(q, N(W, {wo}), N(R, {rl, rt}))

LEMMA RingKept ==
    ASSUME NEW size, NEW items, NEW q, NEW r, NEW W, NEW R,
           NEW wl, NEW wp, NEW wo, NEW rl, NEW rt, NEW ro,
           Ring(q, size, items, W, wl, wp, wo, R, rl, rt, ro),
           NEW p \in Procs, NEW here, NEW there, Goto(p, here, there),
           RingStep(q, r, W, wl, wp, wo, R, rl, rt, ro, p, here, there)
    PROVE  /\ Ring(r, size, items, W, wl, wp, wo, R, rl, rt, ro)'
           /\ RingStock(r, W, wo, R, rl, rt)' = RingStock(q, W, wo, R, rl, rt)
           /\ \A n : Items(r, n, size) = Items(q, n, size)
<1> USE DEF Ring, RingStock
<1> DEFINE w == N(W, {wl, wp})
           o == N(W, {wo})
           t == N(R, {rl, rt})
           l == N(R, {ro})
           inside == AnyOf(W, {wp}) \union AnyOf(R, {rt})
<1>1. w \in Nat /\ o \in Nat /\ t \in Nat /\ l \in Nat
    BY AnyOfFinite
<1>a. \A places :
        /\ N(W, places)' = N(W, places) + Shift(W, p, here, there, places)
        /\ p \in W /\ here \in places => N(W, places) > 0
    BY GotoCount
<1>b. \A places :
        /\ N(R, places)' = N(R, places) + Shift(R, p, here, there, places)
        /\ p \in R /\ here \in places => N(R, places) > 0
    BY GotoCount
<1>2. /\ w' = w + Shift(W, p, here, there, {wl, wp})
      /\ o' = o + Shift(W, p, here, there, {wo})
      /\ p \in W /\ here = wo => o > 0
    BY <1>a
<1>3. /\ t' = t + Shift(R, p, here, there, {rl, rt})
      /\ l' = l + Shift(R, p, here, there, {ro})
      /\ p \in R /\ here = ro => l > 0
    BY <1>b
<1>4. inside' = (IF p \in W /\ there = wp
                 THEN AnyOf(W, {wp}) \union {p} ELSE AnyOf(W, {wp}) \ {p})
                  \union
                (IF p \in R /\ there = rt
                 THEN AnyOf(R, {rt}) \union {p} ELSE AnyOf(R, {rt}) \ {p})
    BY DEF AnyOf, Goto
<1>5. /\ p \in AnyOf(W, {wp}) <=> p \in W /\ here = wp
      /\ p \in AnyOf(R, {rt}) <=> p \in R /\ here = rt
    BY DEF AnyOf, Goto
<1>6. inside' = IF (p \in W /\ there = wp) \/ (p \in R /\ there = rt)
                THEN inside \union {p} ELSE inside \ {p}
    BY <1>4
<1>7. p \in inside <=> (p \in W /\ here = wp) \/ (p \in R /\ here = rt)
    BY <1>5
<1>8. inside' = AnyOf(W, {wp})' \union AnyOf(R, {rt})'
    OBVIOUS
<1> HIDE DEF w, o, t, l, inside
<1>9. RingMove(q, w, o, t, l, inside, r, w', o', t', l', inside')
  <2>1. CASE p \in W /\ here \notin {wl, wp, wo, rl, rt, ro} /\ there = wl
             /\ q.empty > 0 /\ r = ReserveSlot(q)
    <3>1. w' = w + 1 /\ o' = o /\ t' = t /\ l' = l
        BY <1>1, <1>2, <1>3, <2>1 DEF Shift, AllDifferent
    <3>2. inside' = inside
        BY <1>6, <1>7, <2>1 DEF AllDifferent
    <3>3. QED
        BY <2>1, <3>1, <3>2 DEF RingMove
  <2>2. CASE p \in W /\ here = wl /\ there = wp /\ q.lock > 0 /\ r = Lock(q)
    <3>1. w' = w /\ o' = o /\ t' = t /\ l' = l
        BY <1>1, <1>2, <1>3, <2>2 DEF Shift, AllDifferent
    <3>2. inside' = inside \union {p}
        BY <1>6, <2>2
    <3>3. QED
        BY <2>2, <3>1, <3>2 DEF RingMove
  <2>3. CASE p \in W /\ here = wo /\ there \notin {wl, wp, wo, rl, rt, ro}
             /\ r = PostFull(q)
    <3>1. w' = w /\ o' = o - 1 /\ t' = t /\ l' = l /\ o > 0
        BY <1>1, <1>2, <1>3, <2>3 DEF Shift, AllDifferent
    <3>2. inside' = inside
        BY <1>6, <1>7, <2>3 DEF AllDifferent
    <3>3. QED
        BY <2>3, <3>1, <3>2 DEF RingMove
  <2>4. CASE p \in R /\ here \notin {wl, wp, wo, rl, rt, ro} /\ there = rl
             /\ q.full > 0 /\ r = ReserveItem(q)
    <3>1. w' = w /\ o' = o /\ t' = t + 1 /\ l' = l
        BY <1>1, <1>2, <1>3, <2>4 DEF Shift, AllDifferent
    <3>2. inside' = inside
        BY <1>6, <1>7, <2>4 DEF AllDifferent
    <3>3. QED
        BY <2>4, <3>1, <3>2 DEF RingMove
  <2>5. CASE p \in R /\ here = rl /\ there = rt /\ q.lock > 0 /\ r = Lock(q)
    <3>1. w' = w /\ o' = o /\ t' = t /\ l' = l
        BY <1>1, <1>2, <1>3, <2>5 DEF Shift, AllDifferent
    <3>2. inside' = inside \union {p}
        BY <1>6, <2>5
    <3>3. QED
        BY <2>5, <3>1, <3>2 DEF RingMove
  <2>6. CASE p \in R /\ here = ro /\ there \notin {wl, wp, wo, rl, rt, ro}
             /\ r = PostEmpty(q)
    <3>1. w' = w /\ o' = o /\ t' = t /\ l' = l - 1 /\ l > 0
        BY <1>1, <1>2, <1>3, <2>6 DEF Shift, AllDifferent
    <3>2. inside' = inside
        BY <1>6, <1>7, <2>6 DEF AllDifferent
    <3>3. QED
        BY <2>6, <3>1, <3>2 DEF RingMove
  <2>7. CASE /\ p \in W => here \notin {wl, wp, wo} /\ there \notin {wl, wp, wo}
             /\ p \in R => here \notin {rl, rt, ro} /\ there \notin {rl, rt, ro}
             /\ r = q
    <3>1. w' = w /\ o' = o /\ t' = t /\ l' = l
        BY <1>1, <1>2, <1>3, <2>7 DEF Shift
    <3>2. inside' = inside
        BY <1>6, <1>7, <2>7
    <3>3. QED
        BY <2>7, <3>1, <3>2 DEF RingMove
  <2>8. QED
      BY <2>1, <2>2, <2>3, <2>4, <2>5, <2>6, <2>7 DEF RingStep
<1>10. Books(q, size, w, o, t, l, inside)
    BY DEF w, o, t, l, inside
<1>11. /\ r \in QueueType(size, items)
       /\ Books(r, size, w', o', t', l', inside')
       /\ Stock(r, o', t') = Stock(q, o, t)
       /\ \A n : Items(r, n, size) = Items(q, n, size)
    BY <1>1, <1>9, <1>10, RingMoves
<1>12. DOMAIN pc' = Procs
    BY DEF Goto
<1>13. QED
    BY <1>8, <1>11, <1>12 DEF w, o, t, l

(* A writer in the critical section of push. *)
LEMMA RingPut ==
    ASSUME NEW size, NEW items, NEW q, NEW W, NEW R,
           NEW wl, NEW wp, NEW wo, NEW rl, NEW rt, NEW ro,
           Ring(q, size, items, W, wl, wp, wo, R, rl, rt, ro),
           NEW p \in W, Goto(p, wp, wo), NEW o \in items,
           NEW r, r = PutItem(q, o, size),
           NEW n, n = RingStock(q, W, wo, R, rl, rt)
    PROVE  /\ Ring(r, size, items, W, wl, wp, wo, R, rl, rt, ro)'
           /\ RingStock(r, W, wo, R, rl, rt)' = n + 1
           /\ Stored(r, n + 1, size) = Stored(q, n, size) \union {o}
           /\ Distinct(q, n, size) /\ o \notin Stored(q, n, size)
                => Distinct(r, n + 1, size)
<1> USE DEF Ring, RingStock
<1> DEFINE w == N(W, {wl, wp})
           po == N(W, {wo})
           t == N(R, {rl, rt})
           l == N(R, {ro})
           inside == AnyOf(W, {wp}) \union AnyOf(R, {rt})
<1>1. w \in Nat /\ po \in Nat /\ t \in Nat /\ l \in Nat
    BY AnyOfFinite
<1>2. p \in Procs
    OBVIOUS
<1>3. /\ w' = w + Shift(W, p, wp, wo, {wl, wp})
      /\ po' = po + Shift(W, p, wp, wo, {wo})
      /\ w > 0
    BY <1>2, GotoCount
<1>4. /\ t' = t + Shift(R, p, wp, wo, {rl, rt})
      /\ l' = l + Shift(R, p, wp, wo, {ro})
    BY <1>2, GotoCount
<1>5. w' = w - 1 /\ po' = po + 1 /\ t' = t /\ l' = l
    BY <1>1, <1>3, <1>4 DEF Shift, AllDifferent
<1>6. inside' = inside \ {p} /\ p \in inside
    BY DEF AnyOf, Goto, AllDifferent
<1>7. inside' = AnyOf(W, {wp})' \union AnyOf(R, {rt})'
    OBVIOUS
<1>8. Books(q, size, w, po, t, l, inside)
    OBVIOUS
<1> HIDE DEF w, po, t, l, inside
<1>9. inside = {p}
    BY <1>6, <1>8 DEF Books
<1>10. inside' = {}
    BY <1>6, <1>9
<1>11. /\ PutItem(q, o, size) \in QueueType(size, items)
       /\ Books(PutItem(q, o, size), size, w', po', t', l', inside')
       /\ Stock(PutItem(q, o, size), po', t') = Stock(q, po, t) + 1
       /\ Stored(PutItem(q, o, size), Stock(q, po, t) + 1, size) =
             Stored(q, Stock(q, po, t), size) \union {o}
       /\ Distinct(q, Stock(q, po, t), size) /\ o \notin Stored(q, Stock(q, po, t), size)
            => Distinct(PutItem(q, o, size), Stock(q, po, t) + 1, size)
  <2>1. /\ PutItem(q, o, size) \in QueueType(size, items)
        /\ Books(PutItem(q, o, size), size, w - 1, po + 1, t, l, {})
        /\ Stock(PutItem(q, o, size), po + 1, t) = Stock(q, po, t) + 1
      BY <1>1, <1>3, <1>6, <1>8, BooksPut
  <2>2. Stored(PutItem(q, o, size), Stock(q, po, t) + 1, size) =
             Stored(q, Stock(q, po, t), size) \union {o}
      BY <1>1, <1>3, <1>6, <1>8, BooksPut
  <2>3. Distinct(q, Stock(q, po, t), size) /\ o \notin Stored(q, Stock(q, po, t), size)
            => Distinct(PutItem(q, o, size), Stock(q, po, t) + 1, size)
      BY <1>1, <1>3, <1>6, <1>8, BooksPut
  <2>4. QED
      BY <1>5, <1>10, <2>1, <2>2, <2>3
<1>12. DOMAIN pc' = Procs
    BY DEF Goto
<1>13. QED
    BY <1>7, <1>11, <1>12 DEF w, po, t, l

(* A reader in the critical section of pop. *)
LEMMA RingTake ==
    ASSUME NEW size, NEW items, NEW q, NEW W, NEW R,
           NEW wl, NEW wp, NEW wo, NEW rl, NEW rt, NEW ro,
           Ring(q, size, items, W, wl, wp, wo, R, rl, rt, ro),
           NEW p \in R, Goto(p, rt, ro),
           NEW r, r = TakeItem(q, size),
           NEW n, n = RingStock(q, W, wo, R, rl, rt), Distinct(q, n, size)
    PROVE  /\ Ring(r, size, items, W, wl, wp, wo, R, rl, rt, ro)'
           /\ RingStock(r, W, wo, R, rl, rt)' = n - 1
           /\ ReadSlot(q) \in items
           /\ ReadSlot(q) \in Stored(q, n, size)
           /\ Distinct(r, n - 1, size)
           /\ Stored(r, n - 1, size) = Stored(q, n, size) \ {ReadSlot(q)}
<1> USE DEF Ring, RingStock
<1> DEFINE w == N(W, {wl, wp})
           po == N(W, {wo})
           t == N(R, {rl, rt})
           l == N(R, {ro})
           inside == AnyOf(W, {wp}) \union AnyOf(R, {rt})
<1>1. w \in Nat /\ po \in Nat /\ t \in Nat /\ l \in Nat
    BY AnyOfFinite
<1>2. p \in Procs
    OBVIOUS
<1>3. /\ w' = w + Shift(W, p, rt, ro, {wl, wp})
      /\ po' = po + Shift(W, p, rt, ro, {wo})
    BY <1>2, GotoCount
<1>4. /\ t' = t + Shift(R, p, rt, ro, {rl, rt})
      /\ l' = l + Shift(R, p, rt, ro, {ro})
      /\ t > 0
    BY <1>2, GotoCount
<1>5. w' = w /\ po' = po /\ t' = t - 1 /\ l' = l + 1
    BY <1>1, <1>3, <1>4 DEF Shift, AllDifferent
<1>6. inside' = inside \ {p} /\ p \in inside
    BY DEF AnyOf, Goto, AllDifferent
<1>7. inside' = AnyOf(W, {wp})' \union AnyOf(R, {rt})'
    OBVIOUS
<1>8. Books(q, size, w, po, t, l, inside)
    OBVIOUS
<1>9. Distinct(q, Stock(q, po, t), size)
    OBVIOUS
<1> HIDE DEF w, po, t, l, inside
<1>10. inside = {p}
    BY <1>6, <1>8 DEF Books
<1>11. inside' = {}
    BY <1>6, <1>10
<1>12. /\ TakeItem(q, size) \in QueueType(size, items)
       /\ Books(TakeItem(q, size), size, w', po', t', l', inside')
       /\ Stock(TakeItem(q, size), po', t') = Stock(q, po, t) - 1
       /\ ReadSlot(q) \in items
       /\ ReadSlot(q) \in Stored(q, Stock(q, po, t), size)
       /\ Distinct(TakeItem(q, size), Stock(q, po, t) - 1, size)
       /\ Stored(TakeItem(q, size), Stock(q, po, t) - 1, size) =
             Stored(q, Stock(q, po, t), size) \ {ReadSlot(q)}
  <2>1. /\ TakeItem(q, size) \in QueueType(size, items)
        /\ Books(TakeItem(q, size), size, w, po, t - 1, l + 1, {})
        /\ Stock(TakeItem(q, size), po, t - 1) = Stock(q, po, t) - 1
      BY <1>1, <1>4, <1>6, <1>8, BooksTake
  <2>2. /\ ReadSlot(q) \in items
        /\ ReadSlot(q) \in Stored(q, Stock(q, po, t), size)
      BY <1>1, <1>4, <1>6, <1>8, BooksTake
  <2>3. /\ Distinct(TakeItem(q, size), Stock(q, po, t) - 1, size)
        /\ Stored(TakeItem(q, size), Stock(q, po, t) - 1, size) =
             Stored(q, Stock(q, po, t), size) \ {ReadSlot(q)}
      BY <1>1, <1>4, <1>6, <1>8, <1>9, BooksTake
  <2>4. QED
      BY <1>5, <1>11, <2>1, <2>2, <2>3
<1>13. DOMAIN pc' = Procs
    BY DEF Goto
<1>14. QED
    BY <1>7, <1>12, <1>13 DEF w, po, t, l
-----------------------------------------------------------------------------
(* The three rings, and a step that takes nothing out and    *)
(* puts nothing in.                                                         *)

TokenRing(p, here, there) ==
    RingStep(tq, tq', Clients, "return_lock", "return_put", "return_post",
             Clients, "get_lock", "get_take", "get_post", p, here, there)

LineRing(p, here, there) ==
    RingStep(lq, lq', Clients, "push_lock", "push_put", "push_post",
             Cashiers, "pop_lock", "pop_take", "pop_post", p, here, there)

ServiceRing(p, here, there) ==
    RingStep(sq, sq', Cashiers, "pass_lock", "pass_put", "pass_post",
             Servers, "pop_lock", "pop_take", "pop_post", p, here, there)

TokenKept ==
    /\ tq' \in QueueType(NO_OF_TOKENS, Tokens)
    /\ TokenBooks' /\ TokenStock' = TokenStock /\ Free' = Free
    /\ Distinct(tq, TokenStock, NO_OF_TOKENS) => Distinct(tq, TokenStock, NO_OF_TOKENS)'

LineKept ==
    /\ lq' \in QueueType(LINEUP_MAX, OrderType \union {NoOrder})
    /\ LineBooks' /\ LineStock' = LineStock /\ InLine' = InLine
    /\ Distinct(lq, LineStock, LINEUP_MAX) => Distinct(lq, LineStock, LINEUP_MAX)'

ServiceKept ==
    /\ sq' \in QueueType(LINEUP_MAX, OrderType \union {NoOrder})
    /\ ServiceBooks' /\ ServiceStock' = ServiceStock /\ InService' = InService
    /\ Distinct(sq, ServiceStock, LINEUP_MAX) => Distinct(sq, ServiceStock, LINEUP_MAX)'

RingsUsed(p) ==
    /\ Goto(p, pc[p], pc'[p])
    /\ TokenRing(p, pc[p], pc'[p])
    /\ LineRing(p, pc[p], pc'[p])
    /\ ServiceRing(p, pc[p], pc'[p])

RingsKept == TokenKept /\ LineKept /\ ServiceKept

LEMMA TokenIsRing ==
    ASSUME Inv
    PROVE  /\ Ring(tq, NO_OF_TOKENS, Tokens, Clients, "return_lock", "return_put", "return_post",
                   Clients, "get_lock", "get_take", "get_post")
           /\ TokenStock = RingStock(tq, Clients, "return_post", Clients, "get_lock", "get_take")
           /\ Distinct(tq, TokenStock, NO_OF_TOKENS)
<1>1. /\ Clients \in SUBSET Procs /\ Clients \in SUBSET Procs
      /\ Clients = Clients \/ Clients \intersect Clients = {}
    BY KindsFinite, RestaurantAssumption DEF Staff
<1>2. AllDifferent("return_lock", "return_put", "return_post", "get_lock", "get_take", "get_post")
    BY DEF AllDifferent
<1>3. QED
    BY <1>1, <1>2, RestaurantAssumption
    DEF Inv, TypeOK, Rings, StoredOnce, TokenBooks, TokenStock, Ring, RingStock

LEMMA TokenRingKept ==
    ASSUME Inv, NEW p \in Procs, NEW here, NEW there,
           Goto(p, here, there), TokenRing(p, here, there)
    PROVE  TokenKept
<1>1. /\ Ring(tq, NO_OF_TOKENS, Tokens, Clients, "return_lock", "return_put", "return_post",
              Clients, "get_lock", "get_take", "get_post")'
      /\ RingStock(tq, Clients, "return_post", Clients, "get_lock", "get_take")' =
           RingStock(tq, Clients, "return_post", Clients, "get_lock", "get_take")
      /\ \A n : Items(tq', n, NO_OF_TOKENS) = Items(tq, n, NO_OF_TOKENS)
    BY TokenIsRing, RingKept DEF TokenRing
<1>2. tq' \in QueueType(NO_OF_TOKENS, Tokens) /\ TokenBooks'
    BY <1>1 DEF TokenBooks, Ring
<1>3. TokenStock' = TokenStock
    BY <1>1 DEF TokenStock, RingStock
<1>4. Items(tq, TokenStock, NO_OF_TOKENS)' = Items(tq, TokenStock, NO_OF_TOKENS)
    BY <1>1, <1>3
<1>5. Free' = Free
    BY <1>3, <1>4 DEF Free, Stored
<1>6. Distinct(tq, TokenStock, NO_OF_TOKENS) => Distinct(tq, TokenStock, NO_OF_TOKENS)'
    BY <1>3, <1>4 DEF Distinct
<1>7. QED
    BY <1>2, <1>3, <1>5, <1>6 DEF TokenKept

LEMMA TokenRingPut ==
    ASSUME Inv, NEW p \in Clients, Goto(p, "return_put", "return_post"),
           NEW o \in Tokens, tq' = PutItem(tq, o, NO_OF_TOKENS)
    PROVE  /\ tq' \in QueueType(NO_OF_TOKENS, Tokens)
           /\ TokenBooks' /\ TokenStock' = TokenStock + 1
           /\ Free' = Free \union {o}
           /\ o \notin Free => Distinct(tq, TokenStock, NO_OF_TOKENS)'
<1>1. /\ Ring(tq, NO_OF_TOKENS, Tokens, Clients, "return_lock", "return_put", "return_post",
              Clients, "get_lock", "get_take", "get_post")'
      /\ RingStock(tq, Clients, "return_post", Clients, "get_lock", "get_take")' = TokenStock + 1
      /\ Stored(tq', TokenStock + 1, NO_OF_TOKENS) = Free \union {o}
      /\ o \notin Free => Distinct(tq', TokenStock + 1, NO_OF_TOKENS)
    BY TokenIsRing, RingPut DEF Free
<1>2. tq' \in QueueType(NO_OF_TOKENS, Tokens) /\ TokenBooks'
    BY <1>1 DEF TokenBooks, Ring
<1>3. TokenStock' = TokenStock + 1
    BY <1>1 DEF TokenStock, RingStock
<1>4. Free' = Free \union {o}
    BY <1>1, <1>3 DEF Free
<1>5. QED
    BY <1>1, <1>2, <1>3, <1>4

LEMMA TokenRingTake ==
    ASSUME Inv, NEW p \in Clients, Goto(p, "get_take", "get_post"), tq' = TakeItem(tq, NO_OF_TOKENS)
    PROVE  /\ tq' \in QueueType(NO_OF_TOKENS, Tokens)
           /\ TokenBooks' /\ TokenStock' = TokenStock - 1
           /\ ReadSlot(tq) \in Tokens
           /\ ReadSlot(tq) \in Free
           /\ Free' = Free \ {ReadSlot(tq)}
           /\ Distinct(tq, TokenStock, NO_OF_TOKENS)'
<1>1. /\ Ring(tq, NO_OF_TOKENS, Tokens, Clients, "return_lock", "return_put", "return_post",
              Clients, "get_lock", "get_take", "get_post")'
      /\ RingStock(tq, Clients, "return_post", Clients, "get_lock", "get_take")' = TokenStock - 1
      /\ ReadSlot(tq) \in Tokens /\ ReadSlot(tq) \in Free
      /\ Distinct(tq', TokenStock - 1, NO_OF_TOKENS)
      /\ Stored(tq', TokenStock - 1, NO_OF_TOKENS) = Free \ {ReadSlot(tq)}
    BY TokenIsRing, RingTake DEF Free
<1>2. tq' \in QueueType(NO_OF_TOKENS, Tokens) /\ TokenBooks'
    BY <1>1 DEF TokenBooks, Ring
<1>3. TokenStock' = TokenStock - 1
    BY <1>1 DEF TokenStock, RingStock
<1>4. Free' = Free \ {ReadSlot(tq)}
    BY <1>1, <1>3 DEF Free
<1>5. QED
    BY <1>1, <1>2, <1>3, <1>4

LEMMA LineIsRing ==
    ASSUME Inv
    PROVE  /\ Ring(lq, LINEUP_MAX, OrderType \union {NoOrder}, Clients, "push_lock", "push_put", "push_post",
                   Cashiers, "pop_lock", "pop_take", "pop_post")
           /\ LineStock = RingStock(lq, Clients, "push_post", Cashiers, "pop_lock", "pop_take")
           /\ Distinct(lq, LineStock, LINEUP_MAX)
<1>1. /\ Clients \in SUBSET Procs /\ Cashiers \in SUBSET Procs
      /\ Clients = Cashiers \/ Clients \intersect Cashiers = {}
    BY KindsFinite, RestaurantAssumption DEF Staff
<1>2. AllDifferent("push_lock", "push_put", "push_post", "pop_lock", "pop_take", "pop_post")
    BY DEF AllDifferent
<1>3. QED
    BY <1>1, <1>2, RestaurantAssumption
    DEF Inv, TypeOK, Rings, StoredOnce, LineBooks, LineStock, Ring, RingStock

LEMMA LineRingKept ==
    ASSUME Inv, NEW p \in Procs, NEW here, NEW there,
           Goto(p, here, there), LineRing(p, here, there)
    PROVE  LineKept
<1>1. /\ Ring(lq, LINEUP_MAX, OrderType \union {NoOrder}, Clients, "push_lock", "push_put", "push_post",
              Cashiers, "pop_lock", "pop_take", "pop_post")'
      /\ RingStock(lq, Clients, "push_post", Cashiers, "pop_lock", "pop_take")' =
           RingStock(lq, Clients, "push_post", Cashiers, "pop_lock", "pop_take")
      /\ \A n : Items(lq', n, LINEUP_MAX) = Items(lq, n, LINEUP_MAX)
    BY LineIsRing, RingKept DEF LineRing
<1>2. lq' \in QueueType(LINEUP_MAX, OrderType \union {NoOrder}) /\ LineBooks'
    BY <1>1 DEF LineBooks, Ring
<1>3. LineStock' = LineStock
    BY <1>1 DEF LineStock, RingStock
<1>4. Items(lq, LineStock, LINEUP_MAX)' = Items(lq, LineStock, LINEUP_MAX)
    BY <1>1, <1>3
<1>5. InLine' = InLine
    BY <1>3, <1>4 DEF InLine, Stored
<1>6. Distinct(lq, LineStock, LINEUP_MAX) => Distinct(lq, LineStock, LINEUP_MAX)'
    BY <1>3, <1>4 DEF Distinct
<1>7. QED
    BY <1>2, <1>3, <1>5, <1>6 DEF LineKept

LEMMA LineRingPut ==
    ASSUME Inv, NEW p \in Clients, Goto(p, "push_put", "push_post"),
           NEW o \in OrderType \union {NoOrder}, lq' = PutItem(lq, o, LINEUP_MAX)
    PROVE  /\ lq' \in QueueType(LINEUP_MAX, OrderType \union {NoOrder})
           /\ LineBooks' /\ LineStock' = LineStock + 1
           /\ InLine' = InLine \union {o}
           /\ o \notin InLine => Distinct(lq, LineStock, LINEUP_MAX)'
<1>1. /\ Ring(lq, LINEUP_MAX, OrderType \union {NoOrder}, Clients, "push_lock", "push_put", "push_post",
              Cashiers, "pop_lock", "pop_take", "pop_post")'
      /\ RingStock(lq, Clients, "push_post", Cashiers, "pop_lock", "pop_take")' = LineStock + 1
      /\ Stored(lq', LineStock + 1, LINEUP_MAX) = InLine \union {o}
      /\ o \notin InLine => Distinct(lq', LineStock + 1, LINEUP_MAX)
    BY LineIsRing, RingPut DEF InLine
<1>2. lq' \in QueueType(LINEUP_MAX, OrderType \union {NoOrder}) /\ LineBooks'
    BY <1>1 DEF LineBooks, Ring
<1>3. LineStock' = LineStock + 1
    BY <1>1 DEF LineStock, RingStock
<1>4. InLine' = InLine \union {o}
    BY <1>1, <1>3 DEF InLine
<1>5. QED
    BY <1>1, <1>2, <1>3, <1>4

LEMMA LineRingTake ==
    ASSUME Inv, NEW p \in Cashiers, Goto(p, "pop_take", "pop_post"), lq' = TakeItem(lq, LINEUP_MAX)
    PROVE  /\ lq' \in QueueType(LINEUP_MAX, OrderType \union {NoOrder})
           /\ LineBooks' /\ LineStock' = LineStock - 1
           /\ ReadSlot(lq) \in OrderType \union {NoOrder}
           /\ ReadSlot(lq) \in InLine
           /\ InLine' = InLine \ {ReadSlot(lq)}
           /\ Distinct(lq, LineStock, LINEUP_MAX)'
<1>1. /\ Ring(lq, LINEUP_MAX, OrderType \union {NoOrder}, Clients, "push_lock", "push_put", "push_post",
              Cashiers, "pop_lock", "pop_take", "pop_post")'
      /\ RingStock(lq, Clients, "push_post", Cashiers, "pop_lock", "pop_take")' = LineStock - 1
      /\ ReadSlot(lq) \in OrderType \union {NoOrder} /\ ReadSlot(lq) \in InLine
      /\ Distinct(lq', LineStock - 1, LINEUP_MAX)
      /\ Stored(lq', LineStock - 1, LINEUP_MAX) = InLine \ {ReadSlot(lq)}
    BY LineIsRing, RingTake DEF InLine
<1>2. lq' \in QueueType(LINEUP_MAX, OrderType \union {NoOrder}) /\ LineBooks'
    BY <1>1 DEF LineBooks, Ring
<1>3. LineStock' = LineStock - 1
    BY <1>1 DEF LineStock, RingStock
<1>4. InLine' = InLine \ {ReadSlot(lq)}
    BY <1>1, <1>3 DEF InLine
<1>5. QED
    BY <1>1, <1>2, <1>3, <1>4

LEMMA ServiceIsRing ==
    ASSUME Inv
    PROVE  /\ Ring(sq, LINEUP_MAX, OrderType \union {NoOrder}, Cashiers, "pass_lock", "pass_put", "pass_post",
                   Servers, "pop_lock", "pop_take", "pop_post")
           /\ ServiceStock = RingStock(sq, Cashiers, "pass_post", Servers, "pop_lock", "pop_take")
           /\ Distinct(sq, ServiceStock, LINEUP_MAX)
<1>1. /\ Cashiers \in SUBSET Procs /\ Servers \in SUBSET Procs
      /\ Cashiers = Servers \/ Cashiers \intersect Servers = {}
    BY KindsFinite, RestaurantAssumption DEF Staff
<1>2. AllDifferent("pass_lock", "pass_put", "pass_post", "pop_lock", "pop_take", "pop_post")
    BY DEF AllDifferent
<1>3. QED
    BY <1>1, <1>2, RestaurantAssumption
    DEF Inv, TypeOK, Rings, StoredOnce, ServiceBooks, ServiceStock, Ring, RingStock

LEMMA ServiceRingKept ==
    ASSUME Inv, NEW p \in Procs, NEW here, NEW there,
           Goto(p, here, there), ServiceRing(p, here, there)
    PROVE  ServiceKept
<1>1. /\ Ring(sq, LINEUP_MAX, OrderType \union {NoOrder}, Cashiers, "pass_lock", "pass_put", "pass_post",
              Servers, "pop_lock", "pop_take", "pop_post")'
      /\ RingStock(sq, Cashiers, "pass_post", Servers, "pop_lock", "pop_take")' =
           RingStock(sq, Cashiers, "pass_post", Servers, "pop_lock", "pop_take")
      /\ \A n : Items(sq', n, LINEUP_MAX) = Items(sq, n, LINEUP_MAX)
    BY ServiceIsRing, RingKept DEF ServiceRing
<1>2. sq' \in QueueType(LINEUP_MAX, OrderType \union {NoOrder}) /\ ServiceBooks'
    BY <1>1 DEF ServiceBooks, Ring
<1>3. ServiceStock' = ServiceStock
    BY <1>1 DEF ServiceStock, RingStock
<1>4. Items(sq, ServiceStock, LINEUP_MAX)' = Items(sq, ServiceStock, LINEUP_MAX)
    BY <1>1, <1>3
<1>5. InService' = InService
    BY <1>3, <1>4 DEF InService, Stored
<1>6. Distinct(sq, ServiceStock, LINEUP_MAX) => Distinct(sq, ServiceStock, LINEUP_MAX)'
    BY <1>3, <1>4 DEF Distinct
<1>7. QED
    BY <1>2, <1>3, <1>5, <1>6 DEF ServiceKept

LEMMA ServiceRingPut ==
    ASSUME Inv, NEW p \in Cashiers, Goto(p, "pass_put", "pass_post"),
           NEW o \in OrderType \union {NoOrder}, sq' = PutItem(sq, o, LINEUP_MAX)
    PROVE  /\ sq' \in QueueType(LINEUP_MAX, OrderType \union {NoOrder})
           /\ ServiceBooks' /\ ServiceStock' = ServiceStock + 1
           /\ InService' = InService \union {o}
           /\ o \notin InService => Distinct(sq, ServiceStock, LINEUP_MAX)'
<1>1. /\ Ring(sq, LINEUP_MAX, OrderType \union {NoOrder}, Cashiers, "pass_lock", "pass_put", "pass_post",
              Servers, "pop_lock", "pop_take", "pop_post")'
      /\ RingStock(sq, Cashiers, "pass_post", Servers, "pop_lock", "pop_take")' = ServiceStock + 1
      /\ Stored(sq', ServiceStock + 1, LINEUP_MAX) = InService \union {o}
      /\ o \notin InService => Distinct(sq', ServiceStock + 1, LINEUP_MAX)
    BY ServiceIsRing, RingPut DEF InService
<1>2. sq' \in QueueType(LINEUP_MAX, OrderType \union {NoOrder}) /\ ServiceBooks'
    BY <1>1 DEF ServiceBooks, Ring
<1>3. ServiceStock' = ServiceStock + 1
    BY <1>1 DEF ServiceStock, RingStock
<1>4. InService' = InService \union {o}
    BY <1>1, <1>3 DEF InService
<1>5. QED
    BY <1>1, <1>2, <1>3, <1>4

LEMMA ServiceRingTake ==
    ASSUME Inv, NEW p \in Servers, Goto(p, "pop_take", "pop_post"), sq' = TakeItem(sq, LINEUP_MAX)
    PROVE  /\ sq' \in QueueType(LINEUP_MAX, OrderType \union {NoOrder})
           /\ ServiceBooks' /\ ServiceStock' = ServiceStock - 1
           /\ ReadSlot(sq) \in OrderType \union {NoOrder}
           /\ ReadSlot(sq) \in InService
           /\ InService' = InService \ {ReadSlot(sq)}
           /\ Distinct(sq, ServiceStock, LINEUP_MAX)'
<1>1. /\ Ring(sq, LINEUP_MAX, OrderType \union {NoOrder}, Cashiers, "pass_lock", "pass_put", "pass_post",
              Servers, "pop_lock", "pop_take", "pop_post")'
      /\ RingStock(sq, Cashiers, "pass_post", Servers, "pop_lock", "pop_take")' = ServiceStock - 1
      /\ ReadSlot(sq) \in OrderType \union {NoOrder} /\ ReadSlot(sq) \in InService
      /\ Distinct(sq', ServiceStock - 1, LINEUP_MAX)
      /\ Stored(sq', ServiceStock - 1, LINEUP_MAX) = InService \ {ReadSlot(sq)}
    BY ServiceIsRing, RingTake DEF InService
<1>2. sq' \in QueueType(LINEUP_MAX, OrderType \union {NoOrder}) /\ ServiceBooks'
    BY <1>1 DEF ServiceBooks, Ring
<1>3. ServiceStock' = ServiceStock - 1
    BY <1>1 DEF ServiceStock, RingStock
<1>4. InService' = InService \ {ReadSlot(sq)}
    BY <1>1, <1>3 DEF InService
<1>5. QED
    BY <1>1, <1>2, <1>3, <1>4
-----------------------------------------------------------------------------
(* A quiet step moves one process on, perhaps with a semaphore of a ring,    *)
(* and changes nothing else that the invariant tells apart.                *)

SamePlaces ==
    /\ Holders' = Holders /\ Waiting' = Waiting
    /\ \A c \in Holders :
          /\ pc'[c] \in Unassigned <=> pc[c] \in Unassigned
          /\ pc'[c] \in {"enter", "return"} <=> pc[c] \in {"enter", "return"}
    /\ \A k \in Cashiers :
          /\ pc'[k] \in HandUnreceived  <=> pc[k] \in HandUnreceived
          /\ pc'[k] \in HandUnprocessed <=> pc[k] \in HandUnprocessed
          /\ pc'[k] \in HandUnserved    <=> pc[k] \in HandUnserved
    /\ \A s \in Servers : pc'[s] \in ServerHolds <=> pc[s] \in ServerHolds

SameTaken == \A c \in Waiting : Taken(c)' = Taken(c)

SameSignals ==
    /\ \A t \in Free : sem_arr'[t] = sem_arr[t]
    /\ \A c \in Holders \ Waiting : sem_arr'[order[c].token] = sem_arr[order[c].token]
    /\ \A c \in Waiting : Signals(order[c])' = Signals(order[c])

Quiet ==
    RingsKept /\ SamePlaces /\ SameSignals /\ UNCHANGED <<ct_assns, order, threads>>

Accounts == Rings /\ Owned /\ Assigned /\ Awaited /\ OneCopy /\ Balanced

LEMMA Disjoint ==
    /\ \A c \in Clients : c \in Procs /\ c \notin Cashiers /\ c \notin Servers /\ c \notin Staff
    /\ \A k \in Cashiers : k \in Procs /\ k \notin Clients /\ k \notin Servers /\ k \in Staff
    /\ \A s \in Servers : s \in Procs /\ s \notin Clients /\ s \notin Cashiers /\ s \in Staff
    /\ \A s \in Staff : s \in Cashiers \/ s \in Servers
BY RestaurantAssumption DEF Procs, Staff

LEMMA UsedIsKept ==
    ASSUME Inv, NEW p \in Procs, RingsUsed(p)
    PROVE  RingsKept
BY TokenRingKept, LineRingKept, ServiceRingKept DEF RingsUsed, RingsKept

LEMMA UntouchedIsKept ==
    ASSUME Inv, UNCHANGED <<pc, tq, lq, sq>>
    PROVE  RingsKept
<1>1. \A ps, places : N(ps, places)' = N(ps, places) /\ AnyOf(ps, places)' = AnyOf(ps, places)
    BY DEF N, AnyOf
<1>2. TokenKept
    BY ZenonT(60), <1>1 DEF Inv, TypeOK, Rings, TokenKept, TokenBooks, TokenStock, Free, Distinct, Stored, Stock, Items
<1>3. LineKept
    BY ZenonT(60), <1>1 DEF Inv, TypeOK, Rings, LineKept, LineBooks, LineStock, InLine, Distinct, Stored, Stock, Items
<1>4. ServiceKept
    BY ZenonT(60), <1>1 DEF Inv, TypeOK, Rings, ServiceKept, ServiceBooks, ServiceStock, InService, Distinct, Stored, Stock, Items
<1>5. QED
    BY <1>2, <1>3, <1>4 DEF RingsKept

(* A quiet step keeps everything but the types and the places. *)
LEMMA QuietKeeps ==
    ASSUME Inv, Quiet
    PROVE  Accounts'
<1> USE DEF Quiet
<1>1. /\ Free' = Free /\ InLine' = InLine /\ InService' = InService
      /\ TokenStock' = TokenStock /\ Rings'
    BY DEF RingsKept, TokenKept, LineKept, ServiceKept, Inv, Rings, StoredOnce
<1>2. Carried' = Carried
    BY <1>1 DEF Carried
<1>3. Owned'
    BY <1>1 DEF Inv, Owned, SamePlaces
<1>4. Assigned'
    BY <1>1 DEF Inv, Assigned, SamePlaces
<1>5. Awaited'
    BY <1>2 DEF Inv, Awaited, SamePlaces
<1>6. OneCopy'
    BY <1>1 DEF Inv, OneCopy
<1>7. Balanced'
  <2>1. \A o \in Carried : o.client \in Waiting /\ Signals(o)' = Signals(o)
      BY DEF Inv, Awaited, SameSignals
  <2>2. \A c \in Waiting : Signals(order[c])' = Signals(order[c])
      BY DEF SameSignals
  <2>3. \A t \in Free' : sem_arr'[t] = 1
      BY <1>1 DEF Inv, Balanced, SameSignals
  <2>4. \A c \in Holders' \ Waiting' :
          sem_arr'[order'[c].token] =
            IF pc'[c] \in Unassigned \union {"enter", "return"} THEN 1 ELSE 0
      BY DEF Inv, Balanced, SamePlaces, SameSignals
  <2>5. \A o \in InLine' \union InService' : Signals(o)' = Signals(o)
      BY <1>1, <2>1 DEF Carried
  <2>6. \A s \in Staff : order[s] # NoOrder => Signals(order[s])' = Signals(order[s])
      BY <2>1 DEF Carried
  <2>7. \A th \in threads : Signals(th.order)' = Signals(th.order)
      BY <2>1 DEF Carried
  <2>8. \A k \in Cashiers : order[k] # NoOrder <=> pc[k] \in CashierHolds
      BY DEF Inv, Hands
  <2>9. \A s \in Servers : order[s] # NoOrder <=> pc[s] \in ServerHolds
      BY DEF Inv, Hands
  <2>10. QED
      BY <1>1, <1>2, <2>2, <2>3, <2>4, <2>5, <2>6, <2>7, <2>8, <2>9, Disjoint
      DEF Inv, Balanced, SamePlaces, CashierHolds
<1>8. QED
    BY <1>1, <1>3, <1>4, <1>5, <1>6, <1>7 DEF Accounts

LEMMA SameSemaphores ==
    ASSUME Inv, SameTaken, UNCHANGED <<sem_arr, order>>
    PROVE  SameSignals
<1>1. \A c \in Waiting : order[c].client = c
    BY DEF Inv, Hands, Waiting, AnyOf
<1>2. QED
    BY <1>1 DEF SameSignals, SameTaken, Signals

LEMMA ClientQuiet ==
    ASSUME Inv, NEW c \in Clients,
           \/ GetTokenWait(c) \/ GetTokenLock(c) \/ GetTokenPost(c)
           \/ LineUp(c) \/ TurnAway(c) \/ LineUpLock(c) \/ LineUpPost(c)
           \/ ReadReceived(c) \/ ReadProcessed(c) \/ ReadServed(c)
           \/ RestoreSender(c) \/ ReturnTokenWait(c) \/ ReturnTokenLock(c)
           \/ ReturnTokenPost(c) \/ RecordServed(c) \/ RecordEntered(c)
    PROVE  Quiet
<1> USE Disjoint DEF Goto
<1>a. DOMAIN pc = Procs
    BY DEF Inv, TypeOK
<1>1. RingsUsed(c)
  <2>1. CASE GetTokenWait(c)
      BY <1>a, <2>1 DEF GetTokenWait, RingsUsed, UsesTokenQueue, UsesLineupQueue, tokenVars, TokenRing, LineRing, ServiceRing, RingStep
  <2>2. CASE GetTokenLock(c)
      BY <1>a, <2>2 DEF GetTokenLock, RingsUsed, UsesTokenQueue, UsesLineupQueue, tokenVars, TokenRing, LineRing, ServiceRing, RingStep
  <2>3. CASE GetTokenPost(c)
      BY <1>a, <2>3 DEF GetTokenPost, RingsUsed, UsesTokenQueue, UsesLineupQueue, tokenVars, TokenRing, LineRing, ServiceRing, RingStep
  <2>4. CASE LineUp(c)
      BY <1>a, <2>4 DEF LineUp, RingsUsed, UsesTokenQueue, UsesLineupQueue, tokenVars, TokenRing, LineRing, ServiceRing, RingStep
  <2>5. CASE TurnAway(c)
      BY <1>a, <2>5 DEF TurnAway, RingsUsed, UsesTokenQueue, UsesLineupQueue, tokenVars, TokenRing, LineRing, ServiceRing, RingStep
  <2>6. CASE LineUpLock(c)
      BY <1>a, <2>6 DEF LineUpLock, RingsUsed, UsesTokenQueue, UsesLineupQueue, tokenVars, TokenRing, LineRing, ServiceRing, RingStep
  <2>7. CASE LineUpPost(c)
      BY <1>a, <2>7 DEF LineUpPost, RingsUsed, UsesTokenQueue, UsesLineupQueue, tokenVars, TokenRing, LineRing, ServiceRing, RingStep
  <2>8. CASE ReadReceived(c)
      BY <1>a, <2>8 DEF ReadReceived, ReadSender, RingsUsed, UsesTokenQueue, UsesLineupQueue, tokenVars, TokenRing, LineRing, ServiceRing, RingStep
  <2>9. CASE ReadProcessed(c)
      BY <1>a, <2>9 DEF ReadProcessed, ReadSender, RingsUsed, UsesTokenQueue, UsesLineupQueue, tokenVars, TokenRing, LineRing, ServiceRing, RingStep
  <2>10. CASE ReadServed(c)
      BY <1>a, <2>10 DEF ReadServed, ReadSender, RingsUsed, UsesTokenQueue, UsesLineupQueue, tokenVars, TokenRing, LineRing, ServiceRing, RingStep
  <2>11. CASE RestoreSender(c)
      BY <1>a, <2>11 DEF RestoreSender, GiveSender, RingsUsed, UsesTokenQueue, UsesLineupQueue, tokenVars, TokenRing, LineRing, ServiceRing, RingStep
  <2>12. CASE ReturnTokenWait(c)
      BY <1>a, <2>12 DEF ReturnTokenWait, RingsUsed, UsesTokenQueue, UsesLineupQueue, tokenVars, TokenRing, LineRing, ServiceRing, RingStep
  <2>13. CASE ReturnTokenLock(c)
      BY <1>a, <2>13 DEF ReturnTokenLock, RingsUsed, UsesTokenQueue, UsesLineupQueue, tokenVars, TokenRing, LineRing, ServiceRing, RingStep
  <2>14. CASE ReturnTokenPost(c)
      BY <1>a, <2>14 DEF ReturnTokenPost, RingsUsed, UsesTokenQueue, UsesLineupQueue, tokenVars, TokenRing, LineRing, ServiceRing, RingStep
  <2>15. CASE RecordServed(c)
      BY <1>a, <2>15 DEF RecordServed, RingsUsed, UsesTokenQueue, UsesLineupQueue, tokenVars, TokenRing, LineRing, ServiceRing, RingStep
  <2>16. CASE RecordEntered(c)
      BY <1>a, <2>16 DEF RecordEntered, RingsUsed, UsesTokenQueue, UsesLineupQueue, tokenVars, TokenRing, LineRing, ServiceRing, RingStep
  <2>17. QED
      BY <2>1, <2>2, <2>3, <2>4, <2>5, <2>6, <2>7, <2>8, <2>9, <2>10, <2>11, <2>12, <2>13, <2>14, <2>15, <2>16
<1>2. RingsKept
    BY <1>1, UsedIsKept
<1>3. UNCHANGED <<sem_arr, ct_assns, order, threads>>
    BY DEF GetTokenWait, GetTokenLock, GetTokenPost, LineUp, TurnAway, LineUpLock, LineUpPost, ReadReceived, ReadSender, ReadProcessed, ReadSender, ReadServed, ReadSender, RestoreSender, GiveSender, ReturnTokenWait, ReturnTokenLock, ReturnTokenPost, RecordServed, RecordEntered, UsesTokenQueue, UsesLineupQueue, tokenVars, localVars
<1>4. SamePlaces /\ SameTaken
  <2>1. CASE GetTokenWait(c)
      BY <1>a, <2>1 DEF GetTokenWait, SamePlaces, SameTaken, Holders, Waiting, AnyOf,
          Unassigned, Taken, HandUnreceived, HandUnprocessed, HandUnserved, ServerHolds
  <2>2. CASE GetTokenLock(c)
      BY <1>a, <2>2 DEF GetTokenLock, SamePlaces, SameTaken, Holders, Waiting, AnyOf,
          Unassigned, Taken, HandUnreceived, HandUnprocessed, HandUnserved, ServerHolds
  <2>3. CASE GetTokenPost(c)
      BY <1>a, <2>3 DEF GetTokenPost, SamePlaces, SameTaken, Holders, Waiting, AnyOf,
          Unassigned, Taken, HandUnreceived, HandUnprocessed, HandUnserved, ServerHolds
  <2>4. CASE LineUp(c)
      BY <1>a, <2>4 DEF LineUp, SamePlaces, SameTaken, Holders, Waiting, AnyOf,
          Unassigned, Taken, HandUnreceived, HandUnprocessed, HandUnserved, ServerHolds
  <2>5. CASE TurnAway(c)
      BY <1>a, <2>5 DEF TurnAway, SamePlaces, SameTaken, Holders, Waiting, AnyOf,
          Unassigned, Taken, HandUnreceived, HandUnprocessed, HandUnserved, ServerHolds
  <2>6. CASE LineUpLock(c)
      BY <1>a, <2>6 DEF LineUpLock, SamePlaces, SameTaken, Holders, Waiting, AnyOf,
          Unassigned, Taken, HandUnreceived, HandUnprocessed, HandUnserved, ServerHolds
  <2>7. CASE LineUpPost(c)
      BY <1>a, <2>7 DEF LineUpPost, SamePlaces, SameTaken, Holders, Waiting, AnyOf,
          Unassigned, Taken, HandUnreceived, HandUnprocessed, HandUnserved, ServerHolds
  <2>8. CASE ReadReceived(c)
      BY <1>a, <2>8 DEF ReadReceived, ReadSender, SamePlaces, SameTaken, Holders, Waiting, AnyOf,
          Unassigned, Taken, HandUnreceived, HandUnprocessed, HandUnserved, ServerHolds
  <2>9. CASE ReadProcessed(c)
      BY <1>a, <2>9 DEF ReadProcessed, ReadSender, SamePlaces, SameTaken, Holders, Waiting, AnyOf,
          Unassigned, Taken, HandUnreceived, HandUnprocessed, HandUnserved, ServerHolds
  <2>10. CASE ReadServed(c)
      BY <1>a, <2>10 DEF ReadServed, ReadSender, SamePlaces, SameTaken, Holders, Waiting, AnyOf,
          Unassigned, Taken, HandUnreceived, HandUnprocessed, HandUnserved, ServerHolds
  <2>11. CASE RestoreSender(c)
      BY <1>a, <2>11 DEF RestoreSender, GiveSender, SamePlaces, SameTaken, Holders, Waiting, AnyOf,
          Unassigned, Taken, HandUnreceived, HandUnprocessed, HandUnserved, ServerHolds
  <2>12. CASE ReturnTokenWait(c)
      BY <1>a, <2>12 DEF ReturnTokenWait, SamePlaces, SameTaken, Holders, Waiting, AnyOf,
          Unassigned, Taken, HandUnreceived, HandUnprocessed, HandUnserved, ServerHolds
  <2>13. CASE ReturnTokenLock(c)
      BY <1>a, <2>13 DEF ReturnTokenLock, SamePlaces, SameTaken, Holders, Waiting, AnyOf,
          Unassigned, Taken, HandUnreceived, HandUnprocessed, HandUnserved, ServerHolds
  <2>14. CASE ReturnTokenPost(c)
      BY <1>a, <2>14 DEF ReturnTokenPost, SamePlaces, SameTaken, Holders, Waiting, AnyOf,
          Unassigned, Taken, HandUnreceived, HandUnprocessed, HandUnserved, ServerHolds
  <2>15. CASE RecordServed(c)
      BY <1>a, <2>15 DEF RecordServed, SamePlaces, SameTaken, Holders, Waiting, AnyOf,
          Unassigned, Taken, HandUnreceived, HandUnprocessed, HandUnserved, ServerHolds
  <2>16. CASE RecordEntered(c)
      BY <1>a, <2>16 DEF RecordEntered, SamePlaces, SameTaken, Holders, Waiting, AnyOf,
          Unassigned, Taken, HandUnreceived, HandUnprocessed, HandUnserved, ServerHolds
  <2>17. QED
      BY <2>1, <2>2, <2>3, <2>4, <2>5, <2>6, <2>7, <2>8, <2>9, <2>10, <2>11, <2>12, <2>13, <2>14, <2>15, <2>16
<1>5. QED
    BY <1>2, <1>3, <1>4, SameSemaphores DEF Quiet

LEMMA CashierQuiet ==
    ASSUME Inv, NEW k \in Cashiers,
           \/ TakeOrder(k) \/ TakeBreak(k) \/ EndBreak(k)
           \/ TakeOrderLock(k) \/ TakeOrderPost(k) \/ ReceivedSender(k)
           \/ ProcessedSender(k) \/ RecordPurchase(k) \/ PassOrderWait(k)
           \/ PassOrderLock(k) \/ PassOrderPost(k)
    PROVE  Quiet
<1> USE Disjoint DEF Goto
<1>a. DOMAIN pc = Procs
    BY DEF Inv, TypeOK
<1>1. RingsUsed(k)
  <2>1. CASE TakeOrder(k)
      BY <1>a, <2>1 DEF TakeOrder, RingsUsed, CashierUsesQueue, tokenVars, TokenRing, LineRing, ServiceRing, RingStep
  <2>2. CASE TakeBreak(k)
      BY <1>a, <2>2 DEF TakeBreak, RingsUsed, CashierUsesQueue, tokenVars, TokenRing, LineRing, ServiceRing, RingStep
  <2>3. CASE EndBreak(k)
      BY <1>a, <2>3 DEF EndBreak, RingsUsed, CashierUsesQueue, tokenVars, TokenRing, LineRing, ServiceRing, RingStep
  <2>4. CASE TakeOrderLock(k)
      BY <1>a, <2>4 DEF TakeOrderLock, RingsUsed, CashierUsesQueue, tokenVars, TokenRing, LineRing, ServiceRing, RingStep
  <2>5. CASE TakeOrderPost(k)
      BY <1>a, <2>5 DEF TakeOrderPost, RingsUsed, CashierUsesQueue, tokenVars, TokenRing, LineRing, ServiceRing, RingStep
  <2>6. CASE ReceivedSender(k)
      BY <1>a, <2>6 DEF ReceivedSender, GiveSender, RingsUsed, CashierUsesQueue, tokenVars, TokenRing, LineRing, ServiceRing, RingStep
  <2>7. CASE ProcessedSender(k)
      BY <1>a, <2>7 DEF ProcessedSender, GiveSender, RingsUsed, CashierUsesQueue, tokenVars, TokenRing, LineRing, ServiceRing, RingStep
  <2>8. CASE RecordPurchase(k)
      BY <1>a, <2>8 DEF RecordPurchase, RingsUsed, CashierUsesQueue, tokenVars, TokenRing, LineRing, ServiceRing, RingStep
  <2>9. CASE PassOrderWait(k)
      BY <1>a, <2>9 DEF PassOrderWait, RingsUsed, CashierUsesQueue, tokenVars, TokenRing, LineRing, ServiceRing, RingStep
  <2>10. CASE PassOrderLock(k)
      BY <1>a, <2>10 DEF PassOrderLock, RingsUsed, CashierUsesQueue, tokenVars, TokenRing, LineRing, ServiceRing, RingStep
  <2>11. CASE PassOrderPost(k)
      BY <1>a, <2>11 DEF PassOrderPost, RingsUsed, CashierUsesQueue, tokenVars, TokenRing, LineRing, ServiceRing, RingStep
  <2>12. QED
      BY <2>1, <2>2, <2>3, <2>4, <2>5, <2>6, <2>7, <2>8, <2>9, <2>10, <2>11
<1>2. RingsKept
    BY <1>1, UsedIsKept
<1>3. UNCHANGED <<sem_arr, ct_assns, order, threads>>
    BY DEF TakeOrder, TakeBreak, EndBreak, TakeOrderLock, TakeOrderPost, ReceivedSender, GiveSender, ProcessedSender, GiveSender, RecordPurchase, PassOrderWait, PassOrderLock, PassOrderPost, CashierUsesQueue, tokenVars, localVars
<1>4. SamePlaces /\ SameTaken
  <2>1. CASE TakeOrder(k)
      BY <1>a, <2>1 DEF TakeOrder, SamePlaces, SameTaken, Holders, Waiting, AnyOf,
          Unassigned, Taken, HandUnreceived, HandUnprocessed, HandUnserved, ServerHolds
  <2>2. CASE TakeBreak(k)
      BY <1>a, <2>2 DEF TakeBreak, SamePlaces, SameTaken, Holders, Waiting, AnyOf,
          Unassigned, Taken, HandUnreceived, HandUnprocessed, HandUnserved, ServerHolds
  <2>3. CASE EndBreak(k)
      BY <1>a, <2>3 DEF EndBreak, SamePlaces, SameTaken, Holders, Waiting, AnyOf,
          Unassigned, Taken, HandUnreceived, HandUnprocessed, HandUnserved, ServerHolds
  <2>4. CASE TakeOrderLock(k)
      BY <1>a, <2>4 DEF TakeOrderLock, SamePlaces, SameTaken, Holders, Waiting, AnyOf,
          Unassigned, Taken, HandUnreceived, HandUnprocessed, HandUnserved, ServerHolds
  <2>5. CASE TakeOrderPost(k)
      BY <1>a, <2>5 DEF TakeOrderPost, SamePlaces, SameTaken, Holders, Waiting, AnyOf,
          Unassigned, Taken, HandUnreceived, HandUnprocessed, HandUnserved, ServerHolds
  <2>6. CASE ReceivedSender(k)
      BY <1>a, <2>6 DEF ReceivedSender, GiveSender, SamePlaces, SameTaken, Holders, Waiting, AnyOf,
          Unassigned, Taken, HandUnreceived, HandUnprocessed, HandUnserved, ServerHolds
  <2>7. CASE ProcessedSender(k)
      BY <1>a, <2>7 DEF ProcessedSender, GiveSender, SamePlaces, SameTaken, Holders, Waiting, AnyOf,
          Unassigned, Taken, HandUnreceived, HandUnprocessed, HandUnserved, ServerHolds
  <2>8. CASE RecordPurchase(k)
      BY <1>a, <2>8 DEF RecordPurchase, SamePlaces, SameTaken, Holders, Waiting, AnyOf,
          Unassigned, Taken, HandUnreceived, HandUnprocessed, HandUnserved, ServerHolds
  <2>9. CASE PassOrderWait(k)
      BY <1>a, <2>9 DEF PassOrderWait, SamePlaces, SameTaken, Holders, Waiting, AnyOf,
          Unassigned, Taken, HandUnreceived, HandUnprocessed, HandUnserved, ServerHolds
  <2>10. CASE PassOrderLock(k)
      BY <1>a, <2>10 DEF PassOrderLock, SamePlaces, SameTaken, Holders, Waiting, AnyOf,
          Unassigned, Taken, HandUnreceived, HandUnprocessed, HandUnserved, ServerHolds
  <2>11. CASE PassOrderPost(k)
      BY <1>a, <2>11 DEF PassOrderPost, SamePlaces, SameTaken, Holders, Waiting, AnyOf,
          Unassigned, Taken, HandUnreceived, HandUnprocessed, HandUnserved, ServerHolds
  <2>12. QED
      BY <2>1, <2>2, <2>3, <2>4, <2>5, <2>6, <2>7, <2>8, <2>9, <2>10, <2>11
<1>5. QED
    BY <1>2, <1>3, <1>4, SameSemaphores DEF Quiet

LEMMA ServerQuiet ==
    ASSUME Inv, NEW s \in Servers,
           \/ ServerPopWait(s) \/ ServerPopLock(s) \/ ServerPopPost(s)
    PROVE  Quiet
<1> USE Disjoint DEF Goto
<1>a. DOMAIN pc = Procs
    BY DEF Inv, TypeOK
<1>1. RingsUsed(s)
  <2>1. CASE ServerPopWait(s)
      BY <1>a, <2>1 DEF ServerPopWait, RingsUsed, ServerUsesQueue, tokenVars, TokenRing, LineRing, ServiceRing, RingStep
  <2>2. CASE ServerPopLock(s)
      BY <1>a, <2>2 DEF ServerPopLock, RingsUsed, ServerUsesQueue, tokenVars, TokenRing, LineRing, ServiceRing, RingStep
  <2>3. CASE ServerPopPost(s)
      BY <1>a, <2>3 DEF ServerPopPost, RingsUsed, ServerUsesQueue, tokenVars, TokenRing, LineRing, ServiceRing, RingStep
  <2>4. QED
      BY <2>1, <2>2, <2>3
<1>2. RingsKept
    BY <1>1, UsedIsKept
<1>3. UNCHANGED <<sem_arr, ct_assns, order, threads>>
    BY DEF ServerPopWait, ServerPopLock, ServerPopPost, ServerUsesQueue, tokenVars, localVars
<1>4. SamePlaces /\ SameTaken
  <2>1. CASE ServerPopWait(s)
      BY <1>a, <2>1 DEF ServerPopWait, SamePlaces, SameTaken, Holders, Waiting, AnyOf,
          Unassigned, Taken, HandUnreceived, HandUnprocessed, HandUnserved, ServerHolds
  <2>2. CASE ServerPopLock(s)
      BY <1>a, <2>2 DEF ServerPopLock, SamePlaces, SameTaken, Holders, Waiting, AnyOf,
          Unassigned, Taken, HandUnreceived, HandUnprocessed, HandUnserved, ServerHolds
  <2>3. CASE ServerPopPost(s)
      BY <1>a, <2>3 DEF ServerPopPost, SamePlaces, SameTaken, Holders, Waiting, AnyOf,
          Unassigned, Taken, HandUnreceived, HandUnprocessed, HandUnserved, ServerHolds
  <2>4. QED
      BY <2>1, <2>2, <2>3
<1>5. QED
    BY <1>2, <1>3, <1>4, SameSemaphores DEF Quiet

-----------------------------------------------------------------------------
(* Who owns what, and where, in one place. *)

LEMMA Facts ==
    ASSUME Inv
    PROVE  /\ \A c \in Clients :
                 c \in Procs /\ order[c] \in OrderType /\ order[c].client = c
           /\ Waiting \in SUBSET Holders /\ Holders \in SUBSET Clients
           /\ \A c \in Holders : order[c].token \in Tokens \ Free
           /\ \A c, d \in Holders : order[c].token = order[d].token => c = d
           /\ \A o \in Carried :
                 o \in OrderType /\ o.client \in Waiting /\ o = order[o.client]
           /\ \A c \in Holders : \A o \in Carried :
                 o.token = order[c].token => o = order[c]
           /\ NoOrder \notin Carried
           /\ InLine \in SUBSET Carried /\ InService \in SUBSET Carried
           /\ \A s \in Staff : order[s] # NoOrder => order[s] \in Carried
           /\ \A th \in threads : th.order \in Carried
<1>1. \A c \in Clients : c \in Procs /\ order[c] \in OrderType /\ order[c].client = c
    BY Disjoint DEF Inv, TypeOK, Hands
<1>2. Waiting \in SUBSET Holders /\ Holders \in SUBSET Clients
    BY DEF Waiting, Holders, AnyOf
<1>3. /\ \A c \in Holders : order[c].token \in Tokens \ Free
      /\ \A c, d \in Holders : order[c].token = order[d].token => c = d
    BY DEF Inv, Owned
<1>4. \A o \in Carried :
         o \in OrderType /\ o.client \in Waiting /\ o = order[o.client]
    BY DEF Inv, Awaited
<1>5. \A c \in Holders : \A o \in Carried : o.token = order[c].token => o = order[c]
    BY <1>2, <1>3, <1>4
<1>6. NoOrder \notin Carried
    BY <1>4, OrderAssumption
<1>7. QED
    BY <1>1, <1>2, <1>3, <1>4, <1>5, <1>6 DEF Carried

LEMMA TakenRange == \A c \in Waiting : Taken(c) \in 0 .. 2
BY DEF Waiting, AnyOf, Taken

(* A client's token is assigned to it while it signals or waits. *)
LEMMA Mine ==
    ASSUME Inv, NEW c \in Holders, pc[c] \notin Unassigned
    PROVE  ct_assns[order[c].token] = c
BY DEF Inv, Assigned

(* The signals posted for an order on its way. *)
LEMMA SignalsSoFar ==
    ASSUME Inv, NEW o \in Carried
    PROVE  Signals(o) \in {0, 1, 2}
<1>1. CASE o \in InLine \union InService
    BY <1>1 DEF Inv, Balanced
<1>2. ASSUME NEW s \in Staff, o = order[s], o # NoOrder
      PROVE  Signals(o) \in {0, 1, 2}
  <2>1. CASE s \in Cashiers
      BY <1>2, <2>1 DEF Inv, Balanced, Hands, CashierHolds
  <2>2. CASE s \in Servers
      BY <1>2, <2>2 DEF Inv, Balanced, Hands
  <2>3. QED
      BY <2>1, <2>2, Disjoint
<1>3. ASSUME NEW th \in threads, o = th.order
      PROVE  Signals(o) \in {0, 1, 2}
    BY <1>3 DEF Inv, Balanced
<1>4. QED
    BY <1>1, <1>2, <1>3 DEF Carried

(* Once the clients have left, there is no order anywhere, and no staff *)
(* process is at work on a ring.                                        *)
LEMMA IdleAtClosing ==
    ASSUME Inv, tester # "reap"
    PROVE  /\ Holders = {} /\ Waiting = {} /\ Carried = {} /\ threads = {}
           /\ LineStock = 0 /\ ServiceStock = 0
           /\ \A k \in Cashiers :
                 pc[k] \in {"trypop", "break", "exited"} /\ order[k] = NoOrder
           /\ \A s \in Servers :
                 pc[s] \in {"pop_wait", "exited"} /\ order[s] = NoOrder
<1>1. \A c \in Clients : pc[c] = "done"
    BY DEF Inv, Closing
<1>2. Holders = {} /\ Waiting = {}
    BY <1>1 DEF Holders, Waiting, AnyOf
<1>3. Carried = {}
    BY <1>2, Facts
<1>4. InLine = {} /\ InService = {} /\ threads = {}
    BY <1>3 DEF Carried
<1>5. \A s \in Staff : order[s] = NoOrder
    BY <1>3 DEF Carried
<1>6. \A ps \in SUBSET Procs : \A places :
         N(ps, places) \in Nat /\ (N(ps, places) = 0 => AnyOf(ps, places) = {})
    BY AnyOfFinite, FS_EmptySet DEF N
<1>7. \A q, n, size : n \in Nat /\ Stored(q, n, size) = {} => n = 0
  <2>1. SUFFICES ASSUME NEW q, NEW size, NEW n \in Nat, n # 0
                 PROVE  Stored(q, n, size) # {}
      OBVIOUS
  <2>2. Items(q, n, size)[1] \in Stored(q, n, size)
      BY <2>1 DEF Stored
  <2>3. QED
      BY <2>2
<1>8. lq.full \in Nat /\ sq.full \in Nat
    BY RestaurantAssumption DEF Inv, TypeOK, QueueType
<1>a. /\ N(Clients, {"push_post"}) \in Nat
      /\ N(Cashiers, {"pop_lock", "pop_take"}) \in Nat
      /\ N(Cashiers, {"pass_post"}) \in Nat
      /\ N(Servers, {"pop_lock", "pop_take"}) \in Nat
    BY <1>6, KindsFinite
<1>9. LineStock = 0
  <2>1. LineStock \in Nat
      BY <1>a, <1>8 DEF LineStock, Stock
  <2>2. QED
      BY <2>1, <1>4, <1>7 DEF InLine
<1>10. ServiceStock = 0
  <2>1. ServiceStock \in Nat
      BY <1>a, <1>8 DEF ServiceStock, Stock
  <2>2. QED
      BY <2>1, <1>4, <1>7 DEF InService
<1>11. N(Cashiers, {"pop_lock", "pop_take"}) = 0
    BY <1>a, <1>8, <1>9 DEF LineStock, Stock
<1>12. /\ N(Cashiers, {"pass_post"}) = 0
       /\ N(Servers, {"pop_lock", "pop_take"}) = 0
    BY <1>a, <1>8, <1>10 DEF ServiceStock, Stock
<1>13. /\ AnyOf(Cashiers, {"pop_lock", "pop_take"}) = {}
       /\ AnyOf(Cashiers, {"pass_post"}) = {}
       /\ AnyOf(Servers, {"pop_lock", "pop_take"}) = {}
    BY <1>6, <1>11, <1>12, KindsFinite
<1>14. \A k \in Cashiers : pc[k] \in {"trypop", "break", "exited"}
    BY <1>5, <1>13, Disjoint DEF Inv, Placed, Hands, CashierPlaces, AnyOf
<1>15. \A s \in Servers : pc[s] \in {"pop_wait", "exited"}
    BY <1>5, <1>13, Disjoint DEF Inv, Placed, Hands, ServerPlaces, AnyOf
<1>16. QED
    BY <1>2, <1>3, <1>4, <1>5, <1>9, <1>10, <1>14, <1>15, Disjoint

(* A client's step that neither sends nor takes an order back: the *)
(* balance of the orders is as it was.                                 *)
LEMMA ClientsSide ==
    ASSUME Inv, InLine' = InLine, InService' = InService, threads' = threads,
           \A s \in Staff : pc'[s] = pc[s] /\ order'[s] = order[s],
           Waiting' \in SUBSET Waiting,
           \A t \in Free' : sem_arr'[t] = 1,
           \A d \in Holders' \ Waiting' :
              sem_arr'[order'[d].token] =
                 IF pc'[d] \in Unassigned \union {"enter", "return"} THEN 1 ELSE 0,
           \A o \in Carried : Signals(o)' = Signals(o),
           \A d \in Waiting' :
              order'[d] = order[d] /\ Signals(order[d])' = Signals(order[d])
    PROVE  Balanced'
<1>1. Carried' = Carried
    BY DEF Carried
<1>2. \A o \in InLine \union InService : Signals(o)' = Signals(o)
    BY Facts
<1>3. \A s \in Staff : order[s] # NoOrder => Signals(order[s])' = Signals(order[s])
    BY Facts
<1>4. \A th \in threads : Signals(th.order)' = Signals(th.order)
    BY Facts
<1>5. \A s \in Staff : order[s] # NoOrder <=>
          \/ s \in Cashiers /\ pc[s] \in CashierHolds
          \/ s \in Servers /\ pc[s] \in ServerHolds
    BY Disjoint DEF Inv, Hands
<1>6. \A k \in Cashiers :
          /\ pc'[k] \in HandUnreceived  => Signals(order[k])' = 0
          /\ pc'[k] \in HandUnprocessed => Signals(order[k])' = 1
          /\ pc'[k] \in HandUnserved    => Signals(order[k])' = 2
    BY <1>3, <1>5, Disjoint DEF Inv, Balanced, CashierHolds
<1>7. \A s \in Servers : pc'[s] \in ServerHolds => Signals(order[s])' = 2
    BY <1>3, <1>5, Disjoint DEF Inv, Balanced
<1>8. \A d \in Waiting' : order'[d] \notin Carried' => Signals(order[d])' = 3
    BY <1>1 DEF Inv, Balanced
<1>9. QED
    BY <1>2, <1>4, <1>6, <1>7, <1>8 DEF Inv, Balanced

(* What a change of the semaphore of one holder's token leaves alone. *)
LEMMA OneSemaphore ==
    ASSUME Inv, NEW c \in Holders, UNCHANGED order,
           \A u \in Tokens \ {order[c].token} : sem_arr'[u] = sem_arr[u],
           \A d \in Waiting \ {c} : Taken(d)' = Taken(d)
    PROVE  /\ \A u \in Free : sem_arr'[u] = sem_arr[u]
           /\ \A d \in Holders \ {c} : sem_arr'[order[d].token] = sem_arr[order[d].token]
           /\ \A d \in Waiting \ {c} : Signals(order[d])' = Signals(order[d])
           /\ \A o \in Carried \ {order[c]} : Signals(o)' = Signals(o)
<1>1. \A u \in Free : u \in Tokens
    BY StoredItems, RestaurantAssumption DEF Inv, TypeOK, Free
<1>2. \A u \in Free : sem_arr'[u] = sem_arr[u]
    BY <1>1, Facts
<1>3. \A d \in Holders \ {c} : sem_arr'[order[d].token] = sem_arr[order[d].token]
    BY Facts
<1>4. \A d \in Waiting \ {c} : Signals(order[d])' = Signals(order[d])
    BY <1>3, Facts DEF Signals
<1>5. \A o \in Carried \ {order[c]} : Signals(o)' = Signals(o)
    BY <1>4, Facts
<1>6. QED
    BY <1>2, <1>3, <1>4, <1>5

-----------------------------------------------------------------------------
(* The client's other steps, while it holds a token. *)

LEMMA ClientRingsKept ==
    ASSUME Inv, NEW c \in Clients,
           \/ AssignToken(c) \/ Enter(c) \/ WaitReceived(c) \/ WaitProcessed(c)
           \/ WaitServed(c) \/ RestoreSignal(c) \/ ReturnToken(c)
    PROVE  RingsKept
<1> USE Disjoint DEF Goto, RingsUsed, TokenRing, LineRing, ServiceRing, RingStep,
                     tokenVars
<1>a. DOMAIN pc = Procs
    BY DEF Inv, TypeOK
<1>1. CASE AssignToken(c)
  <2>1. RingsUsed(c)
      BY <1>a, <1>1 DEF AssignToken
  <2>2. QED
      BY <2>1, UsedIsKept
<1>2. CASE Enter(c)
  <2>1. RingsUsed(c)
      BY <1>a, <1>2 DEF Enter, WaitForSignal
  <2>2. QED
      BY <2>1, UsedIsKept
<1>3. CASE WaitReceived(c)
  <2>1. RingsUsed(c)
      BY <1>a, <1>3 DEF WaitReceived, WaitForSignal
  <2>2. QED
      BY <2>1, UsedIsKept
<1>4. CASE WaitProcessed(c)
  <2>1. RingsUsed(c)
      BY <1>a, <1>4 DEF WaitProcessed, WaitForSignal
  <2>2. QED
      BY <2>1, UsedIsKept
<1>5. CASE WaitServed(c)
  <2>1. RingsUsed(c)
      BY <1>a, <1>5 DEF WaitServed, WaitForSignal
  <2>2. QED
      BY <2>1, UsedIsKept
<1>6. CASE RestoreSignal(c)
  <2>1. RingsUsed(c)
      BY <1>a, <1>6 DEF RestoreSignal, GiveSignal
  <2>2. QED
      BY <2>1, UsedIsKept
<1>7. CASE ReturnToken(c)
  <2>1. c \in Holders /\ pc[c] \notin Unassigned
      BY <1>7 DEF ReturnToken, Holders, AnyOf, Unassigned
  <2>2. ct_assns[order[c].token] = c
      BY <2>1, Mine
  <2>3. RingsUsed(c)
      BY <1>a, <1>7, <2>2 DEF ReturnToken
  <2>4. QED
      BY <2>3, UsedIsKept
<1>8. QED
    BY <1>1, <1>2, <1>3, <1>4, <1>5, <1>6, <1>7

(* What sem_wait does to the semaphore of the client's token. *)
LEMMA Waits ==
    ASSUME Inv, NEW c \in Clients, NEW here, NEW there,
           WaitForSignal(c, here, there),
           here \in {"enter", "wait_received", "wait_processed", "wait_served"}
    PROVE  /\ c \in Holders /\ pc[c] = here
           /\ sem_arr[order[c].token] \in Nat \ {0}
           /\ sem_arr' = [sem_arr EXCEPT ![order[c].token] = @ - 1]
           /\ sem_arr' \in [Tokens -> Nat]
           /\ UNCHANGED <<ct_assns, order, threads>>
<1>1. c \in Holders /\ pc[c] = here /\ pc[c] \notin Unassigned
    BY DEF WaitForSignal, Goto, Holders, AnyOf, Unassigned
<1>2. ct_assns[order[c].token] = c
    BY <1>1, Mine
<1>3. order[c].token \in Tokens /\ sem_arr \in [Tokens -> Nat]
    BY <1>1, Facts DEF Inv, TypeOK
<1>4. QED
    BY <1>1, <1>2, <1>3 DEF WaitForSignal, localVars

(* A client that takes a signal it has been sent changes no balance. *)
LEMMA SignalTaken ==
    ASSUME Inv, NEW c \in Clients, WaitReceived(c) \/ WaitProcessed(c)
    PROVE  Quiet
<1> DEFINE t == order[c].token
<1>1. /\ c \in Holders
      /\ sem_arr[t] \in Nat \ {0} /\ sem_arr' = [sem_arr EXCEPT ![t] = @ - 1]
      /\ UNCHANGED <<ct_assns, order, threads>>
    BY Waits DEF WaitReceived, WaitProcessed
<1>a. DOMAIN pc = Procs /\ sem_arr \in [Tokens -> Nat]
    BY DEF Inv, TypeOK
<1>2. SamePlaces /\ c \in Waiting
    BY <1>a, Disjoint
    DEF WaitReceived, WaitProcessed, WaitForSignal, Goto, SamePlaces, Holders,
        Waiting, AnyOf, Unassigned,
        HandUnreceived, HandUnprocessed, HandUnserved, ServerHolds
<1>3. /\ Taken(c) \in Nat /\ Taken(c)' = Taken(c) + 1
      /\ \A d \in Waiting \ {c} : Taken(d)' = Taken(d)
    BY <1>a, Disjoint
    DEF WaitReceived, WaitProcessed, WaitForSignal, Goto, Waiting, AnyOf, Taken
<1>4. \A d \in Holders \ {c} : sem_arr'[order[d].token] = sem_arr[order[d].token]
    BY <1>1, <1>a, Facts
<1>5. \A u \in Free : sem_arr'[u] = sem_arr[u]
    BY <1>1, <1>a, Facts
<1>6. \A d \in Waiting : Signals(order[d])' = Signals(order[d])
  <2>1. Signals(order[c])' = Signals(order[c])
    <3>1. Signals(order[c]) = sem_arr[t] + Taken(c)
        BY Facts DEF Signals
    <3>2. Signals(order[c])' = (sem_arr[t] - 1) + (Taken(c) + 1)
        BY <1>1, <1>3, <1>a, Facts DEF Signals
    <3>3. QED
        BY <3>1, <3>2, <1>1, <1>3
  <2>2. \A d \in Waiting \ {c} : Signals(order[d])' = Signals(order[d])
      BY <1>1, <1>3, <1>4, Facts DEF Signals
  <2>3. QED
      BY <2>1, <2>2
<1>7. SameSignals
    BY <1>2, <1>4, <1>5, <1>6 DEF SameSignals
<1>8. RingsKept
    BY ClientRingsKept
<1>9. QED
    BY <1>1, <1>2, <1>7, <1>8 DEF Quiet

(* mt_token_get assigns the token and mt_token_return clears it. *)
LEMMA Reassigned ==
    ASSUME Inv, NEW c \in Clients, AssignToken(c) \/ ReturnToken(c)
    PROVE  Accounts'
<1> DEFINE t == order[c].token
<1>a. /\ DOMAIN pc = Procs /\ ct_assns \in [Tokens -> Clients \union {Nobody}]
      /\ UNCHANGED <<sem_arr, order, threads>>
    BY DEF Inv, TypeOK, AssignToken, ReturnToken, localVars
<1>b. RingsKept
    BY ClientRingsKept
<1>1. c \in Holders \ Waiting
    BY DEF AssignToken, ReturnToken, Goto, Holders, Waiting, AnyOf
<1>2. t \in Tokens \ Free
    BY <1>1, Facts
<1>3. ct_assns' = [ct_assns EXCEPT ![t] = IF pc'[c] \in Unassigned THEN Nobody ELSE c]
  <2>1. CASE AssignToken(c)
      BY <1>a, <2>1, Disjoint DEF AssignToken, Goto, Unassigned
  <2>2. CASE ReturnToken(c)
    <3>1. ct_assns[t] = c
        BY <1>1, <2>2, Mine DEF ReturnToken, Unassigned
    <3>2. QED
        BY <1>a, <2>2, <3>1, Disjoint DEF ReturnToken, Unassigned
  <2>3. QED
      BY <2>1, <2>2
<1>4. /\ Holders' = Holders /\ Waiting' = Waiting
      /\ \A d \in Clients \ {c} : pc'[d] = pc[d]
      /\ \A s \in Staff : pc'[s] = pc[s]
      /\ pc[c] \in Unassigned \union {"enter", "return"}
      /\ pc'[c] \in Unassigned \union {"enter", "return"}
  <2>1. CASE AssignToken(c)
      BY <1>a, <2>1, Disjoint DEF AssignToken, Goto, Unassigned, Holders, Waiting, AnyOf
  <2>2. CASE ReturnToken(c)
    <3>1. ct_assns[t] = c
        BY <1>1, <2>2, Mine DEF ReturnToken, Unassigned
    <3>2. QED
        BY <1>a, <2>2, <3>1, Disjoint DEF ReturnToken, Unassigned, Holders, Waiting, AnyOf
  <2>3. QED
      BY <2>1, <2>2
<1>5. SameTaken
    BY <1>1, <1>4 DEF SameTaken, Taken, Waiting, AnyOf
<1>6. SameSignals
    BY <1>a, <1>5, SameSemaphores
<1>7. /\ Free' = Free /\ InLine' = InLine /\ InService' = InService
      /\ TokenStock' = TokenStock /\ Rings'
    BY <1>b DEF RingsKept, TokenKept, LineKept, ServiceKept, Inv, Rings, StoredOnce
<1>8. Carried' = Carried
    BY <1>7, <1>a DEF Carried
<1>9. Owned' /\ Awaited' /\ OneCopy'
    BY <1>a, <1>4, <1>7, <1>8 DEF Inv, Owned, Awaited, OneCopy
<1>10. Assigned'
  <2>1. \A u \in Free' : ct_assns'[u] = Nobody
      BY <1>a, <1>2, <1>3, <1>7 DEF Inv, Assigned
  <2>2. \A d \in Holders \ {c} :
          ct_assns'[order[d].token] = IF pc'[d] \in Unassigned THEN Nobody ELSE d
      BY <1>a, <1>1, <1>2, <1>3, <1>4, Facts DEF Inv, Assigned
  <2>3. ct_assns'[t] = IF pc'[c] \in Unassigned THEN Nobody ELSE c
      BY <1>a, <1>2, <1>3
  <2>4. QED
      BY <1>a, <1>4, <2>1, <2>2, <2>3 DEF Assigned
<1>11. Balanced'
  <2>1. \A o \in Carried : Signals(o)' = Signals(o)
      BY <1>a, <1>6, Facts DEF SameSignals
  <2>2. \A u \in Free' : sem_arr'[u] = 1
      BY <1>a, <1>7 DEF Inv, Balanced
  <2>3. \A d \in Holders' \ Waiting' :
          sem_arr'[order'[d].token] =
            IF pc'[d] \in Unassigned \union {"enter", "return"} THEN 1 ELSE 0
      BY <1>a, <1>4, Facts DEF Inv, Balanced
  <2>4. QED
      BY <1>a, <1>4, <1>6, <1>7, <2>1, <2>2, <2>3, ClientsSide DEF SameSignals
<1>12. QED
    BY <1>7, <1>9, <1>10, <1>11 DEF Accounts

(* The wait that passes at once, and the signal that restores it. *)
LEMMA OwnSignal ==
    ASSUME Inv, NEW c \in Clients, Enter(c) \/ RestoreSignal(c)
    PROVE  Accounts'
<1> DEFINE t == order[c].token
<1>a. /\ DOMAIN pc = Procs /\ sem_arr \in [Tokens -> Nat]
      /\ UNCHANGED <<ct_assns, order, threads>>
    BY DEF Inv, TypeOK, Enter, WaitForSignal, RestoreSignal, GiveSignal, localVars
<1>b. RingsKept
    BY ClientRingsKept
<1>1. c \in Holders \ Waiting
    BY DEF Enter, WaitForSignal, RestoreSignal, GiveSignal, Goto, Holders, Waiting, AnyOf
<1>2. t \in Tokens \ Free
    BY <1>1, Facts
<1>3. sem_arr' = [sem_arr EXCEPT ![t] =
                    IF pc'[c] \in Unassigned \union {"enter", "return"} THEN 1 ELSE 0]
  <2>1. CASE Enter(c)
    <3>1. pc[c] = "enter" /\ pc'[c] = "trypush" /\ sem_arr' = [sem_arr EXCEPT ![t] = @ - 1]
        BY <1>a, <2>1, Waits, Disjoint DEF Enter, WaitForSignal, Goto
    <3>2. sem_arr[t] = 1
        BY <1>1, <3>1 DEF Inv, Balanced
    <3>3. QED
        BY <1>2, <1>a, <3>1, <3>2 DEF Unassigned
  <2>2. CASE RestoreSignal(c)
    <3>1. /\ pc[c] = "restore_signal" /\ pc'[c] = "return"
          /\ sem_arr' = [sem_arr EXCEPT ![t] = @ + 1]
        BY <1>a, <2>2, Disjoint DEF RestoreSignal, GiveSignal, PostSignal, Goto
    <3>2. sem_arr[t] = 0
        BY <1>1, <3>1 DEF Inv, Balanced, Unassigned
    <3>3. QED
        BY <1>2, <1>a, <3>1, <3>2 DEF Unassigned
  <2>3. QED
      BY <2>1, <2>2
<1>4. /\ Holders' = Holders /\ Waiting' = Waiting
      /\ \A d \in Clients \ {c} : pc'[d] = pc[d]
      /\ \A s \in Staff : pc'[s] = pc[s]
      /\ pc[c] \notin Unassigned /\ pc'[c] \notin Unassigned
    BY <1>a, Disjoint
    DEF Enter, WaitForSignal, RestoreSignal, GiveSignal, Goto, Unassigned,
        Holders, Waiting, AnyOf
<1>5. \A d \in Waiting \ {c} : Taken(d)' = Taken(d)
    BY <1>4 DEF Taken, Waiting, AnyOf
<1>6. /\ \A u \in Free : sem_arr'[u] = sem_arr[u]
      /\ \A d \in Holders \ {c} : sem_arr'[order[d].token] = sem_arr[order[d].token]
      /\ \A d \in Waiting \ {c} : Signals(order[d])' = Signals(order[d])
      /\ \A o \in Carried \ {order[c]} : Signals(o)' = Signals(o)
  <2>1. \A u \in Tokens \ {t} : sem_arr'[u] = sem_arr[u]
      BY <1>3, <1>a
  <2>2. QED
      BY <1>1, <1>a, <1>5, <2>1, OneSemaphore
<1>7. /\ Free' = Free /\ InLine' = InLine /\ InService' = InService
      /\ TokenStock' = TokenStock /\ Rings'
    BY <1>b DEF RingsKept, TokenKept, LineKept, ServiceKept, Inv, Rings, StoredOnce
<1>8. Carried' = Carried
    BY <1>7, <1>a DEF Carried
<1>9. Owned' /\ Assigned' /\ Awaited' /\ OneCopy'
    BY <1>a, <1>1, <1>4, <1>7, <1>8, Facts DEF Inv, Owned, Assigned, Awaited, OneCopy
<1>10. order[c] \notin Carried
    BY <1>1, Facts
<1>11. \A d \in Holders' \ Waiting' :
          sem_arr'[order'[d].token] =
            IF pc'[d] \in Unassigned \union {"enter", "return"} THEN 1 ELSE 0
  <2>1. \A d \in (Holders \ Waiting) \ {c} :
          sem_arr'[order'[d].token] =
            IF pc'[d] \in Unassigned \union {"enter", "return"} THEN 1 ELSE 0
      BY <1>a, <1>4, <1>6, Facts DEF Inv, Balanced
  <2>2. sem_arr'[t] = IF pc'[c] \in Unassigned \union {"enter", "return"} THEN 1 ELSE 0
      BY <1>2, <1>3, <1>a
  <2>3. QED
      BY <1>a, <1>4, <2>1, <2>2
<1>12. \A u \in Free' : sem_arr'[u] = 1
    BY <1>6, <1>7 DEF Inv, Balanced
<1>13. Balanced'
    BY <1>a, <1>1, <1>4, <1>6, <1>7, <1>10, <1>11, <1>12, ClientsSide
<1>14. QED
    BY <1>7, <1>9, <1>13 DEF Accounts

(* The last wait: the order is not on its way any more, all three signals *)
(* have been posted, and the semaphore is left at 0.                      *)
LEMMA MealTaken ==
    ASSUME Inv, NEW c \in Clients, WaitServed(c)
    PROVE  Accounts'
<1> DEFINE t == order[c].token
<1>1. /\ c \in Holders /\ pc[c] = "wait_served"
      /\ sem_arr[t] \in Nat \ {0} /\ sem_arr' = [sem_arr EXCEPT ![t] = @ - 1]
      /\ UNCHANGED <<ct_assns, order, threads>>
    BY Waits DEF WaitServed
<1>a. DOMAIN pc = Procs /\ sem_arr \in [Tokens -> Nat]
    BY DEF Inv, TypeOK
<1>b. RingsKept
    BY ClientRingsKept
<1>2. c \in Waiting /\ Taken(c) = 2
    BY <1>1 DEF Waiting, AnyOf, Taken, Holders
<1>3. Signals(order[c]) = sem_arr[t] + 2
    BY <1>2, Facts DEF Signals
<1>4. order[c] \notin Carried
    BY <1>1, <1>3, SignalsSoFar
<1>5. sem_arr[t] = 1
    BY <1>1, <1>2, <1>3, <1>4 DEF Inv, Balanced
<1>6. /\ Holders' = Holders /\ Waiting' = Waiting \ {c}
      /\ \A d \in Clients \ {c} : pc'[d] = pc[d]
      /\ \A s \in Staff : pc'[s] = pc[s]
      /\ pc'[c] = "read_served"
    BY <1>a, Disjoint DEF WaitServed, WaitForSignal, Goto, Holders, Waiting, AnyOf
<1>7. \A d \in Waiting \ {c} : Taken(d)' = Taken(d)
    BY <1>6 DEF Taken, Waiting, AnyOf
<1>8. /\ \A u \in Free : sem_arr'[u] = sem_arr[u]
      /\ \A d \in Holders \ {c} : sem_arr'[order[d].token] = sem_arr[order[d].token]
      /\ \A d \in Waiting \ {c} : Signals(order[d])' = Signals(order[d])
      /\ \A o \in Carried \ {order[c]} : Signals(o)' = Signals(o)
  <2>1. \A u \in Tokens \ {t} : sem_arr'[u] = sem_arr[u]
      BY <1>1, <1>a
  <2>2. QED
      BY <1>1, <1>7, <2>1, OneSemaphore
<1>9. /\ Free' = Free /\ InLine' = InLine /\ InService' = InService
      /\ TokenStock' = TokenStock /\ Rings'
    BY <1>b DEF RingsKept, TokenKept, LineKept, ServiceKept, Inv, Rings, StoredOnce
<1>10. Carried' = Carried
    BY <1>9, <1>1 DEF Carried
<1>11. Owned' /\ Assigned' /\ OneCopy'
    BY <1>1, <1>6, <1>9, Facts DEF Inv, Owned, Assigned, OneCopy, Unassigned
<1>12. Awaited'
    BY <1>1, <1>4, <1>6, <1>10, Facts DEF Awaited
<1>13. \A d \in Holders' \ Waiting' :
          sem_arr'[order'[d].token] =
            IF pc'[d] \in Unassigned \union {"enter", "return"} THEN 1 ELSE 0
  <2>1. \A d \in (Holders \ Waiting) \ {c} :
          sem_arr'[order'[d].token] =
            IF pc'[d] \in Unassigned \union {"enter", "return"} THEN 1 ELSE 0
      BY <1>1, <1>6, <1>8, Facts DEF Inv, Balanced
  <2>2. sem_arr'[t] = 0 /\ pc'[c] \notin Unassigned \union {"enter", "return"}
      BY <1>1, <1>5, <1>6, <1>a, Facts DEF Unassigned
  <2>3. QED
      BY <1>1, <1>6, <2>1, <2>2
<1>14. \A u \in Free' : sem_arr'[u] = 1
    BY <1>8, <1>9 DEF Inv, Balanced
<1>15. Balanced'
    BY <1>1, <1>4, <1>6, <1>8, <1>9, <1>13, <1>14, ClientsSide
<1>16. QED
    BY <1>9, <1>11, <1>12, <1>15 DEF Accounts

-----------------------------------------------------------------------------
(* A client takes a token, gives it back, joins the line. *)

LEMMA HoldersFinite == IsFiniteSet(Holders) /\ Cardinality(Holders) \in Nat
<1>1. Holders \in SUBSET Clients /\ IsFiniteSet(Clients)
    BY RestaurantAssumption DEF Holders
<1>2. QED
    BY <1>1, FS_Subset, FS_CardinalityType

LEMMA TokenStockNat == ASSUME Inv PROVE TokenStock \in Nat
<1>1. /\ N(Clients, {"return_post"}) \in Nat
      /\ N(Clients, {"get_lock", "get_take"}) \in Nat
    BY AnyOfFinite, KindsFinite
<1>2. tq.full \in Nat
    BY RestaurantAssumption DEF Inv, TypeOK, QueueType
<1>3. QED
    BY <1>1, <1>2 DEF TokenStock, Stock

LEMMA OtherRings ==
    ASSUME Inv, NEW c \in Clients,
           GetTokenTake(c) \/ ReturnTokenPut(c) \/ LineUpPut(c)
    PROVE  /\ GetTokenTake(c) \/ ReturnTokenPut(c) => LineKept
           /\ LineUpPut(c) => TokenKept
           /\ ServiceKept
<1> USE Disjoint DEF Goto, RingStep
<1>a. DOMAIN pc = Procs
    BY DEF Inv, TypeOK
<1>1. Goto(c, pc[c], pc'[c])
    BY <1>a DEF GetTokenTake, ReturnTokenPut, LineUpPut
<1>2. GetTokenTake(c) \/ ReturnTokenPut(c) => LineRing(c, pc[c], pc'[c])
    BY <1>a DEF GetTokenTake, ReturnTokenPut, UsesTokenQueue, LineRing
<1>3. LineUpPut(c) => TokenRing(c, pc[c], pc'[c])
    BY <1>a DEF LineUpPut, UsesLineupQueue, tokenVars, TokenRing
<1>4. ServiceRing(c, pc[c], pc'[c])
    BY <1>a DEF GetTokenTake, ReturnTokenPut, LineUpPut, UsesTokenQueue,
                UsesLineupQueue, ServiceRing
<1>5. QED
    BY <1>1, <1>2, <1>3, <1>4, TokenRingKept, LineRingKept, ServiceRingKept

LEMMA TokenTaken ==
    ASSUME Inv, NEW c \in Clients, GetTokenTake(c)
    PROVE  Accounts' /\ ReadSlot(tq) \in Tokens
<1> DEFINE x == ReadSlot(tq)
<1>a. /\ DOMAIN pc = Procs /\ DOMAIN order = Procs
      /\ Goto(c, "get_take", "get_post") /\ Hold(c, [order[c] EXCEPT !.token = x])
      /\ UNCHANGED <<sem_arr, ct_assns, threads>>
    BY DEF Inv, TypeOK, GetTokenTake, UsesTokenQueue
<1>b. LineKept /\ ServiceKept
    BY OtherRings
<1>1. /\ TokenBooks' /\ TokenStock' = TokenStock - 1
      /\ x \in Tokens /\ x \in Free /\ Free' = Free \ {x}
      /\ Distinct(tq, TokenStock, NO_OF_TOKENS)'
    BY <1>a, TokenRingTake DEF GetTokenTake
<1>2. /\ c \notin Holders /\ Holders' = Holders \union {c} /\ Waiting' = Waiting
      /\ \A d \in Clients \ {c} : pc'[d] = pc[d] /\ order'[d] = order[d]
      /\ \A s \in Staff : pc'[s] = pc[s] /\ order'[s] = order[s]
      /\ pc'[c] = "get_post"
    BY <1>a, Disjoint DEF Goto, Hold, Holders, Waiting, AnyOf
<1>3. order'[c].token = x
    BY <1>a, Facts, Disjoint DEF Hold, OrderType
<1>4. InLine' = InLine /\ InService' = InService
    BY <1>b DEF LineKept, ServiceKept
<1>5. Rings'
    BY <1>1, <1>b DEF LineKept, ServiceKept, Inv, Rings, StoredOnce
<1>6. c \notin Waiting /\ \A d \in Waiting : d \in Clients \ {c} /\ order[d].client = d
    BY <1>2, Facts
<1>7. Carried' = Carried
    BY <1>a, <1>2, <1>4 DEF Carried
<1>8. Owned'
  <2>1. \A d \in Holders' : order'[d].token \in Tokens \ Free'
      BY <1>1, <1>2, <1>3, Facts
  <2>2. \A d, e \in Holders' : order'[d].token = order'[e].token => d = e
      BY <1>1, <1>2, <1>3, Facts
  <2>3. Cardinality(Holders') = Cardinality(Holders) + 1
      BY <1>2, HoldersFinite, FS_AddElement
  <2>4. TokenStock' + Cardinality(Holders') = NO_OF_TOKENS
      BY <1>1, <2>3, TokenStockNat, HoldersFinite DEF Inv, Owned
  <2>5. QED
      BY <2>1, <2>2, <2>4 DEF Owned
<1>9. Assigned'
  <2>1. \A d \in Holders' :
          ct_assns'[order'[d].token] = IF pc'[d] \in Unassigned THEN Nobody ELSE d
      BY <1>a, <1>1, <1>2, <1>3, Facts DEF Inv, Assigned, Unassigned
  <2>2. QED
      BY <1>a, <1>1, <2>1 DEF Inv, Assigned
<1>10. Awaited'
    BY <1>2, <1>6, <1>7, Facts DEF Awaited
<1>11. OneCopy'
    BY <1>a, <1>2, <1>4 DEF Inv, OneCopy
<1>12. Balanced'
  <2>1. \A d \in Waiting : /\ order'[d] = order[d]
                           /\ Signals(order[d])' = Signals(order[d])
      BY ZenonT(60), <1>a, <1>2, <1>6 DEF Signals, Taken
  <2>2. \A o \in Carried : Signals(o)' = Signals(o)
      BY <2>1, Facts
  <2>3. \A u \in Free' : sem_arr'[u] = 1
      BY <1>a, <1>1 DEF Inv, Balanced
  <2>4. \A d \in Holders' \ Waiting' :
          sem_arr'[order'[d].token] =
            IF pc'[d] \in Unassigned \union {"enter", "return"} THEN 1 ELSE 0
    <3>1. sem_arr'[order'[c].token] = 1 /\ pc'[c] \in Unassigned
        BY <1>a, <1>1, <1>2, <1>3 DEF Inv, Balanced, Unassigned
    <3>2. \A d \in Holders \ Waiting : d # c /\
            sem_arr'[order'[d].token] =
              IF pc'[d] \in Unassigned \union {"enter", "return"} THEN 1 ELSE 0
        BY <1>a, <1>2, Facts DEF Inv, Balanced
    <3>3. QED
        BY <1>2, <3>1, <3>2
  <2>5. QED
      BY <1>a, <1>2, <1>4, <2>1, <2>2, <2>3, <2>4, ClientsSide
<1>13. QED
    BY <1>1, <1>5, <1>8, <1>9, <1>10, <1>11, <1>12 DEF Accounts

LEMMA TokenReturned ==
    ASSUME Inv, NEW c \in Clients, ReturnTokenPut(c)
    PROVE  Accounts'
<1> DEFINE t == order[c].token
<1>a. /\ DOMAIN pc = Procs /\ Goto(c, "return_put", "return_post")
      /\ UNCHANGED <<sem_arr, ct_assns, order, threads>>
    BY DEF Inv, TypeOK, ReturnTokenPut, UsesTokenQueue
<1>b. LineKept /\ ServiceKept
    BY OtherRings
<1>1. /\ c \in Holders \ Waiting /\ pc[c] = "return_put"
      /\ Holders' = Holders \ {c} /\ Waiting' = Waiting
      /\ \A d \in Clients \ {c} : pc'[d] = pc[d]
      /\ \A s \in Staff : pc'[s] = pc[s]
    BY <1>a, Disjoint DEF Goto, Holders, Waiting, AnyOf
<1>w. \A d \in Waiting : d \in Clients \ {c} /\ order[d].client = d
    BY <1>1, Facts
<1>2. t \in Tokens \ Free
    BY <1>1, Facts
<1>3. /\ TokenBooks' /\ TokenStock' = TokenStock + 1
      /\ Free' = Free \union {t} /\ Distinct(tq, TokenStock, NO_OF_TOKENS)'
    BY <1>a, <1>2, TokenRingPut DEF ReturnTokenPut
<1>4. InLine' = InLine /\ InService' = InService
    BY <1>b DEF LineKept, ServiceKept
<1>5. Rings'
    BY <1>3, <1>b DEF LineKept, ServiceKept, Inv, Rings, StoredOnce
<1>6. Carried' = Carried
    BY <1>a, <1>4 DEF Carried
<1>7. Owned'
  <2>1. \A d \in Holders' : order'[d].token \in Tokens \ Free'
      BY <1>a, <1>1, <1>3, Facts
  <2>2. \A d, e \in Holders' : order'[d].token = order'[e].token => d = e
      BY <1>a, <1>1, Facts
  <2>3. Cardinality(Holders') = Cardinality(Holders) - 1
      BY <1>1, HoldersFinite, FS_RemoveElement
  <2>4. TokenStock' + Cardinality(Holders') = NO_OF_TOKENS
      BY <1>3, <2>3, TokenStockNat, HoldersFinite DEF Inv, Owned
  <2>5. QED
      BY <2>1, <2>2, <2>4 DEF Owned
<1>8. ct_assns[t] = Nobody /\ sem_arr[t] = 1
    BY <1>1 DEF Inv, Assigned, Balanced, Unassigned
<1>9. Assigned'
    BY <1>a, <1>1, <1>3, <1>8, Facts DEF Inv, Assigned
<1>10. Awaited'
    BY <1>a, <1>1, <1>6, Facts DEF Awaited
<1>11. OneCopy'
    BY <1>a, <1>1, <1>4 DEF Inv, OneCopy
<1>12. Balanced'
  <2>1. \A d \in Waiting : Signals(order[d])' = Signals(order[d])
      BY <1>a, <1>1, <1>w DEF Signals, Taken
  <2>2. \A o \in Carried : Signals(o)' = Signals(o)
      BY <1>a, <2>1, Facts
  <2>3. \A u \in Free' : sem_arr'[u] = 1
      BY <1>a, <1>3, <1>8 DEF Inv, Balanced
  <2>4. \A d \in Holders' \ Waiting' :
          sem_arr'[order'[d].token] =
            IF pc'[d] \in Unassigned \union {"enter", "return"} THEN 1 ELSE 0
      BY <1>a, <1>1, Facts DEF Inv, Balanced
  <2>5. QED
      BY <1>a, <1>1, <1>4, <2>1, <2>2, <2>3, <2>4, ClientsSide
<1>13. QED
    BY <1>5, <1>7, <1>9, <1>10, <1>11, <1>12 DEF Accounts

LEMMA LinedUpNow ==
    ASSUME Inv, NEW c \in Clients, LineUpPut(c)
    PROVE  Accounts'
<1> DEFINE mine == order[c]
<1>a. /\ DOMAIN pc = Procs /\ Goto(c, "push_put", "push_post")
      /\ UNCHANGED <<sem_arr, ct_assns, order, threads>>
    BY DEF Inv, TypeOK, LineUpPut, UsesLineupQueue, tokenVars
<1>b. TokenKept /\ ServiceKept
    BY OtherRings
<1>1. /\ c \in Holders \ Waiting /\ pc[c] = "push_put" /\ pc'[c] = "push_post"
      /\ Holders' = Holders /\ Waiting' = Waiting \union {c}
      /\ \A d \in Clients \ {c} : pc'[d] = pc[d]
      /\ \A s \in Staff : pc'[s] = pc[s]
    BY <1>a, Disjoint DEF Goto, Holders, Waiting, AnyOf
<1>w. \A d \in Waiting : d \in Clients \ {c} /\ order[d].client = d
    BY <1>1, Facts
<1>2. mine \in OrderType /\ mine.client = c /\ mine \notin Carried
    BY <1>1, Facts
<1>3. /\ LineBooks' /\ InLine' = InLine \union {mine}
      /\ Distinct(lq, LineStock, LINEUP_MAX)'
    BY <1>a, <1>2, Facts, LineRingPut DEF LineUpPut
<1>4. Free' = Free /\ InService' = InService /\ TokenStock' = TokenStock
    BY <1>b DEF TokenKept, ServiceKept
<1>5. Rings'
    BY <1>3, <1>b DEF TokenKept, ServiceKept, Inv, Rings, StoredOnce
<1>6. Carried' = Carried \union {mine}
    BY <1>a, <1>3, <1>4 DEF Carried
<1>7. Owned'
    BY <1>a, <1>1, <1>4 DEF Inv, Owned
<1>8. Assigned'
    BY <1>a, <1>1, <1>4, Facts DEF Inv, Assigned, Unassigned
<1>9. Awaited'
    BY <1>a, <1>1, <1>2, <1>6, Facts DEF Awaited
<1>10. OneCopy'
    BY <1>a, <1>2, <1>3, <1>4, Facts DEF Inv, OneCopy
<1>11. Balanced'
  <2>1. Signals(mine)' = 0
    <3>1. sem_arr[mine.token] = 0
        BY <1>1 DEF Inv, Balanced, Unassigned
    <3>2. QED
        BY <1>a, <1>1, <1>2, <3>1 DEF Signals, Taken
  <2>2. \A d \in Waiting : Signals(order[d])' = Signals(order[d])
      BY <1>a, <1>1, <1>w DEF Signals, Taken
  <2>3. \A o \in Carried : Signals(o)' = Signals(o)
      BY <1>a, <2>2, Facts
  <2>4. \A d \in Holders' \ Waiting' :
          sem_arr'[order'[d].token] =
            IF pc'[d] \in Unassigned \union {"enter", "return"} THEN 1 ELSE 0
      BY <1>a, <1>1, Facts DEF Inv, Balanced
  <2>5. \A u \in Free' : sem_arr'[u] = 1
      BY <1>a, <1>4 DEF Inv, Balanced
  <2>6. \A o \in InLine' : Signals(o)' = 0
    <3>1. \A o \in InLine : Signals(o)' = 0
        BY <2>3, Facts DEF Inv, Balanced
    <3>2. QED
        BY <1>a, <1>3, <2>1, <3>1
  <2>7. \A o \in InService' : Signals(o)' = 2
      BY <1>4, <2>3, Facts DEF Inv, Balanced
  <2>8. \A s \in Staff : order[s] # NoOrder => Signals(order[s])' = Signals(order[s])
      BY <1>a, <2>3, Facts
  <2>9. \A k \in Cashiers :
          /\ pc'[k] \in HandUnreceived  => Signals(order[k])' = 0
          /\ pc'[k] \in HandUnprocessed => Signals(order[k])' = 1
          /\ pc'[k] \in HandUnserved    => Signals(order[k])' = 2
      BY <1>a, <1>1, <2>8, Disjoint DEF Inv, Hands, Balanced, CashierHolds
  <2>10. \A s \in Servers : pc'[s] \in ServerHolds => Signals(order[s])' = 2
      BY <1>a, <1>1, <2>8, Disjoint DEF Inv, Hands, Balanced
  <2>11. \A th \in threads : Signals(th.order)' = 2
      BY <2>3, Facts DEF Inv, Balanced
  <2>12. \A d \in Waiting' : order'[d] \notin Carried' => Signals(order[d])' = 3
      BY <1>a, <1>1, <1>6, <2>2 DEF Inv, Balanced
  <2>13. QED
      BY <1>a, <2>4, <2>5, <2>6, <2>7, <2>9, <2>10, <2>11, <2>12 DEF Balanced
<1>12. QED
    BY <1>5, <1>7, <1>8, <1>9, <1>10, <1>11 DEF Accounts

-----------------------------------------------------------------------------
(* A step of the staff leaves the clients alone. *)

ClientsAlone ==
    /\ Free' = Free /\ TokenStock' = TokenStock /\ ct_assns' = ct_assns
    /\ \A c \in Clients : pc'[c] = pc[c] /\ order'[c] = order[c]

LEMMA StaffSide ==
    ASSUME Inv, ClientsAlone
    PROVE  /\ Holders' = Holders /\ Waiting' = Waiting /\ SameTaken
           /\ Owned' /\ Assigned'
<1> USE DEF ClientsAlone
<1>1. Holders' = Holders /\ Waiting' = Waiting /\ SameTaken
    BY DEF Holders, Waiting, AnyOf, SameTaken, Taken
<1>2. Holders \in SUBSET Clients
    BY Facts
<1>3. Owned'
    BY <1>1, <1>2 DEF Inv, Owned
<1>4. Assigned'
    BY <1>1, <1>2 DEF Inv, Assigned
<1>5. QED
    BY <1>1, <1>3, <1>4

(* An order is handed on: every balance is as it was. *)
LEMMA HandedOn ==
    ASSUME Inv, ClientsAlone, sem_arr' = sem_arr, Carried' = Carried
    PROVE  /\ Awaited'
           /\ \A o \in Carried : Signals(o)' = Signals(o)
           /\ \A t \in Free' : sem_arr'[t] = 1
           /\ \A c \in Holders' \ Waiting' :
                 sem_arr'[order'[c].token] =
                   IF pc'[c] \in Unassigned \union {"enter", "return"} THEN 1 ELSE 0
           /\ \A c \in Waiting' :
                 order'[c] \notin Carried' => Signals(order[c])' = 3
<1>1. Holders' = Holders /\ Waiting' = Waiting /\ SameTaken
    BY StaffSide
<1>2. \A c \in Holders : pc'[c] = pc[c] /\ order'[c] = order[c]
    BY Facts DEF ClientsAlone
<1>3. \A c \in Waiting : /\ c \in Holders /\ order[c].client = c
                         /\ Signals(order[c])' = Signals(order[c])
    BY <1>1, <1>2, Facts DEF Signals, SameTaken
<1>4. \A o \in Carried : Signals(o)' = Signals(o)
    BY <1>1, Facts DEF Signals, SameTaken
<1>5. Awaited'
    BY <1>1, <1>2, <1>3, Facts DEF Awaited
<1>6. \A t \in Free' : sem_arr'[t] = 1
    BY DEF Inv, Balanced, ClientsAlone
<1>7. \A c \in Holders' \ Waiting' :
         sem_arr'[order'[c].token] =
            IF pc'[c] \in Unassigned \union {"enter", "return"} THEN 1 ELSE 0
    BY <1>1, <1>2 DEF Inv, Balanced
<1>8. \A c \in Waiting' : order'[c] \notin Carried' => Signals(order[c])' = 3
    BY <1>1, <1>2, <1>3 DEF Inv, Balanced
<1>9. QED
    BY <1>4, <1>5, <1>6, <1>7, <1>8

(* A signal is posted for an order on its way. *)
LEMMA SignalPosted ==
    ASSUME Inv, ClientsAlone, order' = order, NEW o \in Carried,
           sem_arr' = [sem_arr EXCEPT ![o.token] = @ + 1]
    PROVE  /\ Signals(o)' = Signals(o) + 1
           /\ \A p \in Carried \ {o} : Signals(p)' = Signals(p)
           /\ \A t \in Free' : sem_arr'[t] = 1
           /\ \A c \in Holders' \ Waiting' :
                 sem_arr'[order'[c].token] =
                   IF pc'[c] \in Unassigned \union {"enter", "return"} THEN 1 ELSE 0
           /\ \A c \in Waiting' :
                 order[c] \notin Carried => Signals(order[c])' = 3
<1> DEFINE c == o.client
<1>1. Holders' = Holders /\ Waiting' = Waiting /\ SameTaken
    BY StaffSide
<1>2. c \in Waiting /\ c \in Holders /\ order[c] = o
    BY Facts
<1>3. o.token \in Tokens /\ sem_arr \in [Tokens -> Nat]
    BY <1>2, Facts DEF Inv, TypeOK
<1>4. /\ \A u \in Free : sem_arr'[u] = sem_arr[u]
      /\ \A d \in Holders \ {c} : sem_arr'[order[d].token] = sem_arr[order[d].token]
      /\ \A d \in Waiting \ {c} : Signals(order[d])' = Signals(order[d])
      /\ \A p \in Carried \ {order[c]} : Signals(p)' = Signals(p)
  <2>1. \A u \in Tokens \ {o.token} : sem_arr'[u] = sem_arr[u]
      BY <1>3
  <2>2. \A d \in Waiting \ {c} : Taken(d)' = Taken(d)
      BY <1>1 DEF SameTaken
  <2>3. QED
      BY <1>2, <2>1, <2>2, OneSemaphore
<1>5. Signals(o)' = Signals(o) + 1
  <2>1. Taken(c)' = Taken(c) /\ Taken(c) \in Nat
      BY <1>1, <1>2, TakenRange DEF SameTaken
  <2>2. sem_arr'[o.token] = sem_arr[o.token] + 1 /\ sem_arr[o.token] \in Nat
      BY <1>3
  <2>3. QED
      BY <2>1, <2>2 DEF Signals
<1>6. \A t \in Free' : sem_arr'[t] = 1
    BY <1>4 DEF Inv, Balanced, ClientsAlone
<1>7. \A d \in Holders' \ Waiting' :
         sem_arr'[order'[d].token] =
            IF pc'[d] \in Unassigned \union {"enter", "return"} THEN 1 ELSE 0
  <2>1. \A d \in Holders : pc'[d] = pc[d]
      BY Facts DEF ClientsAlone
  <2>2. QED
      BY <1>1, <1>2, <1>4, <2>1 DEF Inv, Balanced
<1>8. \A d \in Waiting' : order[d] \notin Carried => Signals(order[d])' = 3
    BY <1>1, <1>2, <1>4 DEF Inv, Balanced
<1>9. QED
    BY <1>2, <1>4, <1>5, <1>6, <1>7, <1>8

-----------------------------------------------------------------------------
(* The cashier takes an order, signals twice, passes the order on. *)

LEMMA Signalled ==
    ASSUME Inv, NEW k \in Cashiers, ReceivedSignal(k) \/ ProcessedSignal(k)
    PROVE  Accounts'
<1> DEFINE o == order[k]
<1>a. /\ DOMAIN pc = Procs
      /\ UNCHANGED <<tq, lq, sq, ct_assns, order, threads>>
      /\ sem_arr' = [sem_arr EXCEPT ![o.token] = @ + 1]
    BY DEF Inv, TypeOK, ReceivedSignal, ProcessedSignal, GiveSignal, PostSignal, localVars
<1>1. RingsKept
  <2>1. CASE ReceivedSignal(k)
    <3>1. RingsUsed(k)
        BY <1>a, <2>1, Disjoint
        DEF ReceivedSignal, GiveSignal, Goto, RingsUsed, TokenRing, LineRing,
            ServiceRing, RingStep
    <3>2. QED
        BY <3>1, UsedIsKept, Disjoint
  <2>2. CASE ProcessedSignal(k)
    <3>1. RingsUsed(k)
        BY <1>a, <2>2, Disjoint
        DEF ProcessedSignal, GiveSignal, Goto, RingsUsed, TokenRing, LineRing,
            ServiceRing, RingStep
    <3>2. QED
        BY <3>1, UsedIsKept, Disjoint
  <2>3. QED
      BY <2>1, <2>2
<1>2. /\ Free' = Free /\ InLine' = InLine /\ InService' = InService
      /\ TokenStock' = TokenStock /\ Rings'
    BY <1>1 DEF RingsKept, TokenKept, LineKept, ServiceKept, Inv, Rings, StoredOnce
<1>3. /\ \A p \in Procs \ {k} : pc'[p] = pc[p]
      /\ \/ pc[k] \in HandUnreceived /\ pc'[k] \in HandUnprocessed
         \/ pc[k] \in HandUnprocessed /\ pc'[k] \in HandUnserved
    BY <1>a, Disjoint
    DEF ReceivedSignal, ProcessedSignal, GiveSignal, Goto,
        HandUnreceived, HandUnprocessed, HandUnserved
<1>4. ClientsAlone
    BY <1>a, <1>2, <1>3, Disjoint DEF ClientsAlone
<1>5. Holders' = Holders /\ Waiting' = Waiting /\ Owned' /\ Assigned'
    BY <1>4, StaffSide
<1>6. o # NoOrder /\ o \in Carried
    BY <1>3, Facts, Disjoint DEF Inv, Hands, CashierHolds
<1>7. Carried' = Carried
    BY <1>2, <1>a DEF Carried
<1>8. Awaited' /\ OneCopy'
    BY <1>a, <1>2, <1>5, <1>7 DEF Inv, Awaited, OneCopy
<1>9. Balanced'
  <2>1. /\ Signals(o)' = Signals(o) + 1
        /\ \A p \in Carried \ {o} : Signals(p)' = Signals(p)
        /\ \A t \in Free' : sem_arr'[t] = 1
        /\ \A c \in Holders' \ Waiting' :
              sem_arr'[order'[c].token] =
                IF pc'[c] \in Unassigned \union {"enter", "return"} THEN 1 ELSE 0
        /\ \A c \in Waiting' : order[c] \notin Carried => Signals(order[c])' = 3
      BY <1>a, <1>4, <1>6, SignalPosted
  <2>2. \A p \in InLine \union InService : Signals(p)' = Signals(p)
      BY <2>1, <1>6, Facts, Disjoint DEF Inv, OneCopy
  <2>3. \A th \in threads : Signals(th.order)' = Signals(th.order)
      BY <2>1, <1>6, Facts, Disjoint DEF Inv, OneCopy
  <2>4. \A s \in Staff \ {k} :
           order[s] # NoOrder => Signals(order[s])' = Signals(order[s])
      BY <1>a, <2>1, <1>6, Facts, Disjoint DEF Inv, OneCopy
  <2>5. \A j \in Cashiers \ {k} :
          /\ pc'[j] \in HandUnreceived  => Signals(order[j])' = 0
          /\ pc'[j] \in HandUnprocessed => Signals(order[j])' = 1
          /\ pc'[j] \in HandUnserved    => Signals(order[j])' = 2
      BY <1>3, <2>4, Disjoint DEF Inv, Hands, Balanced, CashierHolds
  <2>6. /\ pc'[k] \in HandUnreceived  => Signals(o)' = 0
        /\ pc'[k] \in HandUnprocessed => Signals(o)' = 1
        /\ pc'[k] \in HandUnserved    => Signals(o)' = 2
      BY <1>3, <2>1 DEF Inv, Balanced, HandUnreceived, HandUnprocessed, HandUnserved
  <2>7. \A s \in Servers : pc'[s] \in ServerHolds => Signals(order[s])' = 2
      BY <1>3, <2>4, Disjoint DEF Inv, Hands, Balanced
  <2>8. \A j \in Cashiers :
          /\ pc'[j] \in HandUnreceived  => Signals(order[j])' = 0
          /\ pc'[j] \in HandUnprocessed => Signals(order[j])' = 1
          /\ pc'[j] \in HandUnserved    => Signals(order[j])' = 2
      BY <1>a, <2>5, <2>6
  <2>9. QED
      BY <1>1, <1>5, <1>a, <1>2, <1>7, <2>1, <2>2, <2>3, <2>7, <2>8 DEF Inv, Balanced
<1>10. QED
    BY <1>2, <1>5, <1>8, <1>9 DEF Accounts

LEMMA StaffOtherRings ==
    ASSUME Inv
    PROVE  /\ \A k \in Cashiers : TakeOrderTake(k) => TokenKept /\ ServiceKept
           /\ \A k \in Cashiers : PassOrderPut(k) => TokenKept /\ LineKept
           /\ \A s \in Servers : ServerPopTake(s) => TokenKept /\ LineKept
           /\ \A s \in Servers : Spawn(s) => RingsKept
<1> USE Disjoint DEF Goto, RingStep
<1>a. DOMAIN pc = Procs
    BY DEF Inv, TypeOK
<1>1. ASSUME NEW k \in Cashiers, TakeOrderTake(k)
      PROVE  TokenKept /\ ServiceKept
  <2>1. /\ Goto(k, pc[k], pc'[k]) /\ TokenRing(k, pc[k], pc'[k])
        /\ ServiceRing(k, pc[k], pc'[k])
      BY <1>a, <1>1 DEF TakeOrderTake, CashierUsesQueue, tokenVars, TokenRing, ServiceRing
  <2>2. QED
      BY <2>1, TokenRingKept, ServiceRingKept
<1>2. ASSUME NEW k \in Cashiers, PassOrderPut(k)
      PROVE  TokenKept /\ LineKept
  <2>1. /\ Goto(k, pc[k], pc'[k]) /\ TokenRing(k, pc[k], pc'[k])
        /\ LineRing(k, pc[k], pc'[k])
      BY <1>a, <1>2 DEF PassOrderPut, CashierUsesQueue, tokenVars, TokenRing, LineRing
  <2>2. QED
      BY <2>1, TokenRingKept, LineRingKept
<1>3. ASSUME NEW s \in Servers, ServerPopTake(s)
      PROVE  TokenKept /\ LineKept
  <2>1. /\ Goto(s, pc[s], pc'[s]) /\ TokenRing(s, pc[s], pc'[s])
        /\ LineRing(s, pc[s], pc'[s])
      BY <1>a, <1>3 DEF ServerPopTake, ServerUsesQueue, tokenVars, TokenRing, LineRing
  <2>2. QED
      BY <2>1, TokenRingKept, LineRingKept
<1>4. ASSUME NEW s \in Servers, Spawn(s)
      PROVE  RingsKept
  <2>1. RingsUsed(s)
      BY <1>a, <1>4 DEF Spawn, ServerUsesQueue, tokenVars, RingsUsed, TokenRing,
                        LineRing, ServiceRing
  <2>2. QED
      BY <2>1, UsedIsKept
<1>5. QED
    BY <1>1, <1>2, <1>3, <1>4

(* A staff process takes an order out of a queue, or puts one in. *)
LEMMA OrderTaken ==
    ASSUME Inv, NEW k \in Cashiers, TakeOrderTake(k)
    PROVE  Accounts'
<1>x. PICK x : x = ReadSlot(lq)
    OBVIOUS
<1>a. /\ DOMAIN pc = Procs /\ DOMAIN order = Procs
      /\ Goto(k, "pop_take", "pop_post") /\ Hold(k, x)
      /\ UNCHANGED <<sem_arr, ct_assns, threads>>
    BY <1>x DEF Inv, TypeOK, TakeOrderTake, CashierUsesQueue, tokenVars
<1>b. TokenKept /\ ServiceKept
    BY StaffOtherRings
<1>1. /\ LineBooks' /\ x \in InLine /\ InLine' = InLine \ {x}
      /\ Distinct(lq, LineStock, LINEUP_MAX)'
    BY <1>a, <1>x, LineRingTake DEF TakeOrderTake
<1>2. /\ \A p \in Procs \ {k} : pc'[p] = pc[p] /\ order'[p] = order[p]
      /\ pc[k] = "pop_take" /\ pc'[k] = "pop_post" /\ order'[k] = x
    BY <1>a, Disjoint DEF Goto, Hold
<1>3. Free' = Free /\ TokenStock' = TokenStock /\ InService' = InService
    BY <1>b DEF TokenKept, ServiceKept
<1>4. Rings'
    BY <1>1, <1>b DEF TokenKept, ServiceKept, Inv, Rings, StoredOnce
<1>5. ClientsAlone
    BY <1>a, <1>2, <1>3, Disjoint DEF ClientsAlone
<1>6. Owned' /\ Assigned'
    BY <1>5, StaffSide
<1>7. order[k] = NoOrder /\ x \in Carried /\ x # NoOrder
    BY <1>1, <1>2, Facts DEF Inv, Hands, CashierHolds, HandUnreceived, HandUnprocessed, HandUnserved
<1>8. Carried' = Carried
  <2>1. {order'[s] : s \in Staff} \ {NoOrder} =
          ({order[s] : s \in Staff} \ {NoOrder}) \union {x}
      BY <1>2, <1>7, Disjoint
  <2>2. QED
      BY <1>a, <1>1, <1>3, <2>1 DEF Carried
<1>9. OneCopy'
  <2>1. x \notin InLine' \union InService'
      BY <1>1, <1>3 DEF Inv, OneCopy
  <2>2. \A s \in Staff : order[s] # x
      BY <1>1, <1>7 DEF Inv, OneCopy
  <2>3. \A th \in threads : th.order # x
      BY <1>1 DEF Inv, OneCopy
  <2>4. \A s \in Staff : s # k => order'[s] = order[s]
      BY <1>2, Disjoint
  <2>5. QED
      BY <1>a, <1>1, <1>2, <1>3, <2>1, <2>2, <2>3, <2>4 DEF Inv, OneCopy
<1>10. /\ Awaited'
       /\ \A o \in Carried : Signals(o)' = Signals(o)
       /\ \A t \in Free' : sem_arr'[t] = 1
       /\ \A c \in Holders' \ Waiting' :
             sem_arr'[order'[c].token] =
                IF pc'[c] \in Unassigned \union {"enter", "return"} THEN 1 ELSE 0
       /\ \A c \in Waiting' : order'[c] \notin Carried' => Signals(order[c])' = 3
    BY <1>a, <1>5, <1>8, HandedOn
<1>11. Balanced'
  <2>1. Signals(x)' = 0
      BY <1>1, <1>7, <1>10 DEF Inv, Balanced
  <2>2. \A p \in InLine \union InService : Signals(p)' = Signals(p)
      BY <1>10, Facts
  <2>3. \A th \in threads : Signals(th.order)' = Signals(th.order)
      BY <1>10, Facts
  <2>4. \A s \in Staff \ {k} :
           /\ order'[s] = order[s] /\ pc'[s] = pc[s]
           /\ order[s] # NoOrder => Signals(order[s])' = Signals(order[s])
      BY <1>2, <1>10, Facts, Disjoint
  <2>5. \A j \in Cashiers \ {k} :
          /\ pc'[j] \in HandUnreceived  => Signals(order[j])' = 0
          /\ pc'[j] \in HandUnprocessed => Signals(order[j])' = 1
          /\ pc'[j] \in HandUnserved    => Signals(order[j])' = 2
      BY <2>4, Disjoint DEF Inv, Hands, Balanced, CashierHolds
  <2>6. /\ pc'[k] \in HandUnreceived  => Signals(order[k])' = 0
        /\ pc'[k] \notin HandUnprocessed /\ pc'[k] \notin HandUnserved
    <3>1. Signals(order[k])' = Signals(x)'
        BY <1>2
    <3>2. QED
        BY <1>2, <2>1, <3>1 DEF HandUnprocessed, HandUnserved
  <2>7. \A s \in Servers : pc'[s] \in ServerHolds => Signals(order[s])' = 2
      BY <2>4, Disjoint DEF Inv, Hands, Balanced
  <2>8. QED
      BY <1>a, <1>1, <1>3, <1>10, <2>2, <2>3, <2>5, <2>6, <2>7 DEF Inv, Balanced
<1>12. QED
    BY <1>4, <1>6, <1>9, <1>10, <1>11 DEF Accounts

LEMMA OrderPassed ==
    ASSUME Inv, NEW k \in Cashiers, PassOrderPut(k)
    PROVE  Accounts'
<1>x. PICK x : x = order[k]
    OBVIOUS
<1>a. /\ DOMAIN pc = Procs /\ DOMAIN order = Procs
      /\ Goto(k, "pass_put", "pass_post") /\ Hold(k, NoOrder)
      /\ UNCHANGED <<sem_arr, ct_assns, threads>>
    BY DEF Inv, TypeOK, PassOrderPut, CashierUsesQueue, tokenVars
<1>b. TokenKept /\ LineKept
    BY StaffOtherRings
<1>1. /\ \A p \in Procs \ {k} : pc'[p] = pc[p] /\ order'[p] = order[p]
      /\ pc[k] = "pass_put" /\ pc'[k] = "pass_post" /\ order'[k] = NoOrder
    BY <1>a, Disjoint DEF Goto, Hold
<1>2. x # NoOrder /\ x \in Carried /\ x \in OrderType /\ x \notin InLine \union InService
    BY <1>x, <1>1, Facts, Disjoint DEF Inv, Hands, CashierHolds, HandUnserved, OneCopy
<1>3. /\ ServiceBooks' /\ InService' = InService \union {x}
      /\ Distinct(sq, ServiceStock, LINEUP_MAX)'
    BY <1>a, <1>x, <1>2, ServiceRingPut DEF PassOrderPut
<1>4. Free' = Free /\ TokenStock' = TokenStock /\ InLine' = InLine
    BY <1>b DEF TokenKept, LineKept
<1>5. Rings'
    BY <1>3, <1>b DEF TokenKept, LineKept, Inv, Rings, StoredOnce
<1>6. ClientsAlone
    BY <1>a, <1>1, <1>4, Disjoint DEF ClientsAlone
<1>7. Owned' /\ Assigned'
    BY <1>6, StaffSide
<1>8. Carried' = Carried
  <2>1. {order[s] : s \in Staff} \ {NoOrder} =
          ({order'[s] : s \in Staff} \ {NoOrder}) \union {x}
      BY <1>x, <1>1, <1>2, Disjoint
  <2>2. QED
      BY <1>a, <1>3, <1>4, <2>1 DEF Carried
<1>9. OneCopy'
  <2>1. \A s \in Staff \ {k} : order[s] # x /\ order'[s] = order[s]
      BY <1>x, <1>1, <1>2, Disjoint DEF Inv, OneCopy
  <2>2. \A th \in threads : th.order # x
      BY <1>x, Disjoint DEF Inv, OneCopy
  <2>3. InLine' \intersect InService' = {}
      BY <1>2, <1>3, <1>4 DEF Inv, OneCopy
  <2>4. \A s \in Staff : order'[s] # NoOrder =>
          /\ order'[s] \notin InLine' \union InService'
          /\ \A r \in Staff : order'[r] = order'[s] => r = s
      BY <1>1, <1>3, <1>4, <2>1 DEF Inv, OneCopy
  <2>5. \A th \in threads' :
          /\ th.order \notin InLine' \union InService'
          /\ \A s \in Staff : order'[s] # th.order
    <3>1. \A th \in threads : th.order # NoOrder
        BY Facts
    <3>2. QED
        BY <1>a, <1>1, <1>3, <1>4, <2>1, <2>2, <3>1 DEF Inv, OneCopy
  <2>6. \A th, other \in threads' : other.order = th.order => other = th
      BY <1>a DEF Inv, OneCopy
  <2>7. QED
      BY <2>3, <2>4, <2>5, <2>6 DEF OneCopy
<1>10. /\ Awaited'
       /\ \A o \in Carried : Signals(o)' = Signals(o)
       /\ \A t \in Free' : sem_arr'[t] = 1
       /\ \A c \in Holders' \ Waiting' :
             sem_arr'[order'[c].token] =
                IF pc'[c] \in Unassigned \union {"enter", "return"} THEN 1 ELSE 0
       /\ \A c \in Waiting' : order'[c] \notin Carried' => Signals(order[c])' = 3
    BY <1>a, <1>6, <1>8, HandedOn
<1>11. Balanced'
  <2>1. Signals(x) = 2
      BY <1>x, <1>1 DEF Inv, Balanced, HandUnserved
  <2>2. Signals(x)' = 2
      BY <1>2, <1>10, <2>1
  <2>3. \A p \in InLine \union InService : Signals(p)' = Signals(p)
      BY <1>10, Facts
  <2>4. \A th \in threads : Signals(th.order)' = Signals(th.order)
      BY <1>10, Facts
  <2>5. \A s \in Staff \ {k} :
           /\ order'[s] = order[s] /\ pc'[s] = pc[s]
           /\ order[s] # NoOrder => Signals(order[s])' = Signals(order[s])
      BY <1>1, <1>10, Facts, Disjoint
  <2>6. \A j \in Cashiers \ {k} :
          /\ pc'[j] \in HandUnreceived  => Signals(order[j])' = 0
          /\ pc'[j] \in HandUnprocessed => Signals(order[j])' = 1
          /\ pc'[j] \in HandUnserved    => Signals(order[j])' = 2
      BY <2>5, Disjoint DEF Inv, Hands, Balanced, CashierHolds
  <2>7. pc'[k] \notin HandUnreceived \union HandUnprocessed \union HandUnserved
      BY <1>1 DEF HandUnreceived, HandUnprocessed, HandUnserved
  <2>8. \A s \in Servers : pc'[s] \in ServerHolds => Signals(order[s])' = 2
      BY <2>5, Disjoint DEF Inv, Hands, Balanced
  <2>9. QED
      BY <1>a, <1>3, <1>4, <1>10, <2>2, <2>3, <2>4, <2>6, <2>7, <2>8 DEF Inv, Balanced
<1>12. QED
    BY <1>5, <1>7, <1>9, <1>10, <1>11 DEF Accounts

-----------------------------------------------------------------------------
(* The server takes an order, starts a thread for it, and the thread tells *)
(* the client.                                                             *)

LEMMA OrderPopped ==
    ASSUME Inv, NEW k \in Servers, ServerPopTake(k)
    PROVE  Accounts'
<1>x. PICK x : x = ReadSlot(sq)
    OBVIOUS
<1>a. /\ DOMAIN pc = Procs /\ DOMAIN order = Procs
      /\ Goto(k, "pop_take", "pop_post") /\ Hold(k, x)
      /\ UNCHANGED <<sem_arr, ct_assns, threads>>
    BY <1>x DEF Inv, TypeOK, ServerPopTake, ServerUsesQueue, tokenVars
<1>b. TokenKept /\ LineKept
    BY StaffOtherRings
<1>1. /\ ServiceBooks' /\ x \in InService /\ InService' = InService \ {x}
      /\ Distinct(sq, ServiceStock, LINEUP_MAX)'
    BY <1>a, <1>x, ServiceRingTake DEF ServerPopTake
<1>2. /\ \A p \in Procs \ {k} : pc'[p] = pc[p] /\ order'[p] = order[p]
      /\ pc[k] = "pop_take" /\ pc'[k] = "pop_post" /\ order'[k] = x
    BY <1>a, Disjoint DEF Goto, Hold
<1>3. Free' = Free /\ TokenStock' = TokenStock /\ InLine' = InLine
    BY <1>b DEF TokenKept, LineKept
<1>4. Rings'
    BY <1>1, <1>b DEF TokenKept, LineKept, Inv, Rings, StoredOnce
<1>5. ClientsAlone
    BY <1>a, <1>2, <1>3, Disjoint DEF ClientsAlone
<1>6. Owned' /\ Assigned'
    BY <1>5, StaffSide
<1>7. order[k] = NoOrder /\ x \in Carried /\ x # NoOrder
    BY <1>1, <1>2, Facts DEF Inv, Hands, ServerHolds
<1>8. Carried' = Carried
  <2>1. {order'[s] : s \in Staff} \ {NoOrder} =
          ({order[s] : s \in Staff} \ {NoOrder}) \union {x}
      BY <1>2, <1>7, Disjoint
  <2>2. QED
      BY <1>a, <1>1, <1>3, <2>1 DEF Carried
<1>9. OneCopy'
  <2>1. x \notin InLine' \union InService'
      BY <1>1, <1>3 DEF Inv, OneCopy
  <2>2. \A s \in Staff : order[s] # x
      BY <1>1, <1>7 DEF Inv, OneCopy
  <2>3. \A th \in threads : th.order # x
      BY <1>1 DEF Inv, OneCopy
  <2>4. \A s \in Staff : s # k => order'[s] = order[s]
      BY <1>2, Disjoint
  <2>5. QED
      BY <1>a, <1>1, <1>2, <1>3, <2>1, <2>2, <2>3, <2>4 DEF Inv, OneCopy
<1>10. /\ Awaited'
       /\ \A o \in Carried : Signals(o)' = Signals(o)
       /\ \A t \in Free' : sem_arr'[t] = 1
       /\ \A c \in Holders' \ Waiting' :
             sem_arr'[order'[c].token] =
                IF pc'[c] \in Unassigned \union {"enter", "return"} THEN 1 ELSE 0
       /\ \A c \in Waiting' : order'[c] \notin Carried' => Signals(order[c])' = 3
    BY <1>a, <1>5, <1>8, HandedOn
<1>11. Balanced'
  <2>1. Signals(x)' = 2
      BY <1>1, <1>7, <1>10 DEF Inv, Balanced
  <2>2. \A p \in InLine \union InService : Signals(p)' = Signals(p)
      BY <1>10, Facts
  <2>3. \A th \in threads : Signals(th.order)' = Signals(th.order)
      BY <1>10, Facts
  <2>4. \A s \in Staff \ {k} :
           /\ order'[s] = order[s] /\ pc'[s] = pc[s]
           /\ order[s] # NoOrder => Signals(order[s])' = Signals(order[s])
      BY <1>2, <1>10, Facts, Disjoint
  <2>5. \A j \in Cashiers :
          /\ pc'[j] \in HandUnreceived  => Signals(order[j])' = 0
          /\ pc'[j] \in HandUnprocessed => Signals(order[j])' = 1
          /\ pc'[j] \in HandUnserved    => Signals(order[j])' = 2
      BY <2>4, Disjoint DEF Inv, Hands, Balanced, CashierHolds
  <2>6. \A s \in Servers \ {k} : pc'[s] \in ServerHolds => Signals(order[s])' = 2
      BY <2>4, Disjoint DEF Inv, Hands, Balanced
  <2>7. Signals(order[k])' = 2
    <3>1. Signals(order[k])' = Signals(x)'
        BY <1>2
    <3>2. QED
        BY <2>1, <3>1
  <2>8. QED
      BY <1>a, <1>1, <1>3, <1>10, <2>2, <2>3, <2>5, <2>6, <2>7 DEF Inv, Balanced
<1>12. QED
    BY <1>4, <1>6, <1>9, <1>10, <1>11 DEF Accounts

LEMMA ThreadStarted ==
    ASSUME Inv, NEW k \in Servers, Spawn(k)
    PROVE  Accounts'
<1>x. PICK x : x = order[k]
    OBVIOUS
<1>t. PICK new : new = [server |-> k, order |-> x, at |-> "served_sender"]
    OBVIOUS
<1>a. /\ DOMAIN pc = Procs /\ DOMAIN order = Procs
      /\ Goto(k, "spawn", "pop_wait") /\ Hold(k, NoOrder)
      /\ UNCHANGED <<sem_arr, ct_assns>> /\ threads' = threads \union {new}
    BY <1>x, <1>t DEF Inv, TypeOK, Spawn, ServerUsesQueue, tokenVars
<1>b. RingsKept
    BY StaffOtherRings
<1>n. new.order = x
    BY <1>t
<1>1. /\ \A p \in Procs \ {k} : pc'[p] = pc[p] /\ order'[p] = order[p]
      /\ pc[k] = "spawn" /\ pc'[k] = "pop_wait" /\ order'[k] = NoOrder
    BY <1>a, Disjoint DEF Goto, Hold
<1>2. x # NoOrder /\ x \in Carried /\ x \in OrderType /\ x \notin InLine \union InService
    BY <1>x, <1>1, Facts, Disjoint DEF Inv, Hands, ServerHolds, OneCopy
<1>3. /\ Free' = Free /\ InLine' = InLine /\ InService' = InService
      /\ TokenStock' = TokenStock /\ Rings'
    BY <1>b DEF RingsKept, TokenKept, LineKept, ServiceKept, Inv, Rings, StoredOnce
<1>4. ClientsAlone
    BY <1>a, <1>1, <1>3, Disjoint DEF ClientsAlone
<1>5. Owned' /\ Assigned'
    BY <1>4, StaffSide
<1>6. Carried' = Carried
  <2>1. {order[s] : s \in Staff} \ {NoOrder} =
          ({order'[s] : s \in Staff} \ {NoOrder}) \union {x}
      BY <1>x, <1>1, <1>2, Disjoint
  <2>2. {th.order : th \in threads'} = {th.order : th \in threads} \union {x}
      BY <1>a, <1>n
  <2>3. QED
      BY <1>a, <1>3, <2>1, <2>2 DEF Carried
<1>7. OneCopy'
  <2>1. \A s \in Staff \ {k} : order[s] # x /\ order'[s] = order[s]
      BY <1>x, <1>1, <1>2, Disjoint DEF Inv, OneCopy
  <2>2. \A th \in threads : th.order # x
      BY <1>x, Disjoint DEF Inv, OneCopy
  <2>3. InLine' \intersect InService' = {}
      BY <1>3 DEF Inv, OneCopy
  <2>4. \A s \in Staff : order'[s] # NoOrder =>
          /\ order'[s] \notin InLine' \union InService'
          /\ \A r \in Staff : order'[r] = order'[s] => r = s
      BY <1>1, <1>3, <2>1 DEF Inv, OneCopy
  <2>5. \A th \in threads' :
          /\ th.order \notin InLine' \union InService'
          /\ \A s \in Staff : order'[s] # th.order
    <3>1. \A th \in threads : th.order # NoOrder
        BY Facts
    <3>2. QED
        BY <1>a, <1>n, <1>1, <1>2, <1>3, <2>1, <2>2, <3>1 DEF Inv, OneCopy
  <2>6. \A th, other \in threads' : other.order = th.order => other = th
      BY <1>a, <1>n, <2>2 DEF Inv, OneCopy
  <2>7. QED
      BY <2>3, <2>4, <2>5, <2>6 DEF OneCopy
<1>8. /\ Awaited'
      /\ \A o \in Carried : Signals(o)' = Signals(o)
      /\ \A t \in Free' : sem_arr'[t] = 1
      /\ \A c \in Holders' \ Waiting' :
            sem_arr'[order'[c].token] =
               IF pc'[c] \in Unassigned \union {"enter", "return"} THEN 1 ELSE 0
      /\ \A c \in Waiting' : order'[c] \notin Carried' => Signals(order[c])' = 3
    BY <1>a, <1>4, <1>6, HandedOn
<1>9. Balanced'
  <2>1. Signals(x) = 2
      BY <1>x, <1>1 DEF Inv, Balanced, ServerHolds
  <2>2. Signals(x)' = 2
      BY <1>2, <1>8, <2>1
  <2>3. \A p \in InLine \union InService : Signals(p)' = Signals(p)
      BY <1>8, Facts
  <2>4. \A th \in threads' : Signals(th.order)' = 2
      BY <1>a, <1>n, <1>8, <2>2, Facts DEF Inv, Balanced
  <2>5. \A s \in Staff \ {k} :
           /\ order'[s] = order[s] /\ pc'[s] = pc[s]
           /\ order[s] # NoOrder => Signals(order[s])' = Signals(order[s])
      BY <1>1, <1>8, Facts, Disjoint
  <2>6. \A j \in Cashiers :
          /\ pc'[j] \in HandUnreceived  => Signals(order[j])' = 0
          /\ pc'[j] \in HandUnprocessed => Signals(order[j])' = 1
          /\ pc'[j] \in HandUnserved    => Signals(order[j])' = 2
      BY <2>5, Disjoint DEF Inv, Hands, Balanced, CashierHolds
  <2>7. pc'[k] \notin ServerHolds
      BY <1>1 DEF ServerHolds
  <2>8. \A s \in Servers : pc'[s] \in ServerHolds => Signals(order[s])' = 2
      BY <2>5, <2>7, Disjoint DEF Inv, Hands, Balanced
  <2>9. QED
      BY <1>3, <1>8, <2>3, <2>4, <2>6, <2>8 DEF Inv, Balanced
<1>10. QED
    BY <1>3, <1>5, <1>7, <1>8, <1>9 DEF Accounts

LEMMA ThreadSignals ==
    ASSUME Inv, NEW th \in threads, ServeOrder(th)
    PROVE  Accounts'
<1> USE DEF ServeOrder
<1>x. PICK x : x = th.order
    OBVIOUS
<1>a. UNCHANGED <<pc, tq, lq, sq, order, ct_assns>>
    BY DEF ServedSender, ServedSignal, localVars
<1>b. RingsKept
    BY <1>a, UntouchedIsKept
<1>1. x \in Carried
    BY <1>x, Facts
<1>2. /\ Free' = Free /\ InLine' = InLine /\ InService' = InService
      /\ TokenStock' = TokenStock /\ Rings'
    BY <1>b DEF RingsKept, TokenKept, LineKept, ServiceKept, Inv, Rings, StoredOnce
<1>3. ClientsAlone
    BY <1>a, <1>2 DEF ClientsAlone
<1>4. Holders' = Holders /\ Waiting' = Waiting /\ Owned' /\ Assigned'
    BY <1>3, StaffSide
<1>5. /\ x \notin InLine \union InService
      /\ \A s \in Staff : order[s] # x
      /\ \A other \in threads : other.order = x => other = th
    BY <1>x DEF Inv, OneCopy
<1>6. CASE ServedSender(th)
  <2>n. PICK new : new = [th EXCEPT !.at = "served_signal"]
      OBVIOUS
  <2>1. /\ threads' = (threads \ {th}) \union {new} /\ sem_arr' = sem_arr
      BY <1>6, <2>n DEF ServedSender
  <2>2. new.order = x
    <3>1. th \in [server : Servers, order : OrderType,
                  at : {"served_sender", "served_signal"}]
        BY DEF Inv, TypeOK
    <3>2. QED
        BY <1>x, <2>n, <3>1
  <2>3. Carried' = Carried
    <3>1. {t.order : t \in threads'} = {t.order : t \in threads}
        BY <1>x, <2>1, <2>2
    <3>2. QED
        BY <1>a, <1>2, <3>1 DEF Carried
  <2>4. OneCopy'
      BY <1>a, <1>2, <1>5, <2>1, <2>2 DEF Inv, OneCopy
  <2>5. /\ Awaited'
        /\ \A o \in Carried : Signals(o)' = Signals(o)
        /\ \A t \in Free' : sem_arr'[t] = 1
        /\ \A c \in Holders' \ Waiting' :
              sem_arr'[order'[c].token] =
                 IF pc'[c] \in Unassigned \union {"enter", "return"} THEN 1 ELSE 0
        /\ \A c \in Waiting' : order'[c] \notin Carried' => Signals(order[c])' = 3
      BY <1>3, <2>1, <2>3, HandedOn
  <2>6. Balanced'
    <3>1. Signals(x)' = 2
        BY <1>x, <1>1, <2>5 DEF Inv, Balanced
    <3>2. \A p \in InLine \union InService : Signals(p)' = Signals(p)
        BY <2>5, Facts
    <3>3. \A t \in threads' : Signals(t.order)' = 2
        BY <2>1, <2>2, <2>5, <3>1, Facts DEF Inv, Balanced
    <3>4. \A s \in Staff : order[s] # NoOrder => Signals(order[s])' = Signals(order[s])
        BY <1>a, <2>5, Facts
    <3>5. \A j \in Cashiers :
          /\ pc'[j] \in HandUnreceived  => Signals(order[j])' = 0
          /\ pc'[j] \in HandUnprocessed => Signals(order[j])' = 1
          /\ pc'[j] \in HandUnserved    => Signals(order[j])' = 2
        BY <1>a, <3>4, Disjoint DEF Inv, Hands, Balanced, CashierHolds
    <3>6. \A s \in Servers : pc'[s] \in ServerHolds => Signals(order[s])' = 2
        BY <1>a, <3>4, Disjoint DEF Inv, Hands, Balanced
    <3>7. QED
        BY <1>2, <2>5, <3>2, <3>3, <3>5, <3>6 DEF Inv, Balanced
  <2>7. QED
      BY <1>2, <1>4, <2>4, <2>5, <2>6 DEF Accounts
<1>7. CASE ServedSignal(th)
  <2>1. threads' = threads \ {th} /\ sem_arr' = [sem_arr EXCEPT ![x.token] = @ + 1]
      BY <1>x, <1>7 DEF ServedSignal, PostSignal
  <2>2. Carried' = Carried \ {x}
    <3>1. {t.order : t \in threads'} = {t.order : t \in threads} \ {x}
        BY <1>x, <1>5, <2>1
    <3>2. QED
        BY <1>a, <1>2, <1>5, <3>1 DEF Carried
  <2>3. OneCopy'
      BY <1>a, <1>2, <2>1 DEF Inv, OneCopy
  <2>4. Awaited'
      BY <1>a, <1>4, <2>2 DEF Inv, Awaited
  <2>5. /\ Signals(x)' = Signals(x) + 1
        /\ \A p \in Carried \ {x} : Signals(p)' = Signals(p)
        /\ \A t \in Free' : sem_arr'[t] = 1
        /\ \A c \in Holders' \ Waiting' :
              sem_arr'[order'[c].token] =
                IF pc'[c] \in Unassigned \union {"enter", "return"} THEN 1 ELSE 0
        /\ \A c \in Waiting' : order[c] \notin Carried => Signals(order[c])' = 3
      BY <1>a, <1>1, <1>3, <2>1, SignalPosted
  <2>6. Balanced'
    <3>1. Signals(x)' = 3
        BY <1>x, <2>5 DEF Inv, Balanced
    <3>2. \A p \in InLine \union InService : Signals(p)' = Signals(p)
        BY <1>5, <2>5, Facts
    <3>3. \A t \in threads' : Signals(t.order)' = 2
        BY <1>5, <2>1, <2>5, Facts DEF Inv, Balanced
    <3>4. \A s \in Staff : order[s] # NoOrder => Signals(order[s])' = Signals(order[s])
        BY <1>a, <1>5, <2>5, Facts
    <3>5. \A j \in Cashiers :
          /\ pc'[j] \in HandUnreceived  => Signals(order[j])' = 0
          /\ pc'[j] \in HandUnprocessed => Signals(order[j])' = 1
          /\ pc'[j] \in HandUnserved    => Signals(order[j])' = 2
        BY <1>a, <3>4, Disjoint DEF Inv, Hands, Balanced, CashierHolds
    <3>6. \A s \in Servers : pc'[s] \in ServerHolds => Signals(order[s])' = 2
        BY <1>a, <3>4, Disjoint DEF Inv, Hands, Balanced
    <3>7. \A c \in Waiting' : order[c] \notin Carried' => Signals(order[c])' = 3
        BY <1>a, <2>2, <2>5, <3>1
    <3>8. QED
        BY <1>a, <1>2, <2>5, <3>2, <3>3, <3>5, <3>6, <3>7 DEF Inv, Balanced
  <2>7. QED
      BY <1>2, <1>4, <2>3, <2>4, <2>6 DEF Accounts
<1>8. QED
    BY <1>6, <1>7

-----------------------------------------------------------------------------
(* Every process moves among its own places, and holds an order at those *)
(* where it has one in hand.                                             *)

MovesAlone(p) ==
    /\ DOMAIN pc' = Procs /\ DOMAIN order' = Procs
    /\ \A r \in Procs \ {p} : pc'[r] = pc[r] /\ order'[r] = order[r]
    /\ UNCHANGED testVars

ClientMoves(c) ==
    /\ MovesAlone(c)
    /\ pc[c] # "done" /\ pc'[c] \in ClientPlaces
    /\ order'[c].client = order[c].client

CashierMoves(k) ==
    /\ MovesAlone(k)
    /\ pc'[k] \in CashierPlaces \ {"exited"}
    /\ order'[k] # NoOrder <=> pc'[k] \in CashierHolds

ServerMoves(s) ==
    /\ MovesAlone(s)
    /\ pc'[s] \in ServerPlaces \ {"exited"}
    /\ order'[s] # NoOrder <=> pc'[s] \in ServerHolds

LEMMA ClientFrame ==
    ASSUME Inv, NEW c \in Clients, Client(c)
    PROVE  ClientMoves(c)
<1> USE Disjoint DEF Goto, Hold, testVars, localVars, ClientMoves, ClientPlaces
<1>a. DOMAIN pc = Procs /\ DOMAIN order = Procs
    BY DEF Inv, TypeOK
<1>b. order[c] \in OrderType
    BY Facts
<1>1. CASE GetTokenWait(c)
    BY <1>a, <1>b, <1>1 DEF GetTokenWait, UsesTokenQueue, MovesAlone
<1>2. CASE GetTokenLock(c)
    BY <1>a, <1>b, <1>2 DEF GetTokenLock, UsesTokenQueue, MovesAlone
<1>3. CASE GetTokenTake(c)
    BY <1>a, <1>b, <1>3 DEF OrderType, GetTokenTake, UsesTokenQueue, MovesAlone
<1>4. CASE GetTokenPost(c)
    BY <1>a, <1>b, <1>4 DEF GetTokenPost, UsesTokenQueue, MovesAlone
<1>5. CASE AssignToken(c)
    BY <1>a, <1>b, <1>5 DEF AssignToken, MovesAlone
<1>6. CASE Enter(c)
    BY <1>a, <1>b, <1>6 DEF Enter, WaitForSignal, MovesAlone
<1>7. CASE LineUp(c)
    BY <1>a, <1>b, <1>7 DEF LineUp, UsesLineupQueue, MovesAlone
<1>8. CASE TurnAway(c)
    BY <1>a, <1>b, <1>8 DEF TurnAway, UsesLineupQueue, MovesAlone
<1>9. CASE LineUpLock(c)
    BY <1>a, <1>b, <1>9 DEF LineUpLock, UsesLineupQueue, MovesAlone
<1>10. CASE LineUpPut(c)
    BY <1>a, <1>b, <1>10 DEF LineUpPut, UsesLineupQueue, MovesAlone
<1>11. CASE LineUpPost(c)
    BY <1>a, <1>b, <1>11 DEF LineUpPost, UsesLineupQueue, MovesAlone
<1>12. CASE WaitReceived(c)
    BY <1>a, <1>b, <1>12 DEF WaitReceived, WaitForSignal, MovesAlone
<1>13. CASE ReadReceived(c)
    BY <1>a, <1>b, <1>13 DEF ReadReceived, ReadSender, MovesAlone
<1>14. CASE WaitProcessed(c)
    BY <1>a, <1>b, <1>14 DEF WaitProcessed, WaitForSignal, MovesAlone
<1>15. CASE ReadProcessed(c)
    BY <1>a, <1>b, <1>15 DEF ReadProcessed, ReadSender, MovesAlone
<1>16. CASE WaitServed(c)
    BY <1>a, <1>b, <1>16 DEF WaitServed, WaitForSignal, MovesAlone
<1>17. CASE ReadServed(c)
    BY <1>a, <1>b, <1>17 DEF ReadServed, ReadSender, MovesAlone
<1>18. CASE RestoreSender(c)
    BY <1>a, <1>b, <1>18 DEF RestoreSender, GiveSender, SetSender, MovesAlone
<1>19. CASE RestoreSignal(c)
    BY <1>a, <1>b, <1>19 DEF RestoreSignal, GiveSignal, PostSignal, MovesAlone
<1>20. CASE ReturnToken(c)
    BY <1>a, <1>b, <1>20 DEF ReturnToken, MovesAlone
<1>21. CASE ReturnTokenWait(c)
    BY <1>a, <1>b, <1>21 DEF ReturnTokenWait, UsesTokenQueue, MovesAlone
<1>22. CASE ReturnTokenLock(c)
    BY <1>a, <1>b, <1>22 DEF ReturnTokenLock, UsesTokenQueue, MovesAlone
<1>23. CASE ReturnTokenPut(c)
    BY <1>a, <1>b, <1>23 DEF ReturnTokenPut, UsesTokenQueue, MovesAlone
<1>24. CASE ReturnTokenPost(c)
    BY <1>a, <1>b, <1>24 DEF ReturnTokenPost, UsesTokenQueue, MovesAlone
<1>25. CASE RecordServed(c)
    BY <1>a, <1>b, <1>25 DEF RecordServed, MovesAlone
<1>26. CASE RecordEntered(c)
    BY <1>a, <1>b, <1>26 DEF RecordEntered, MovesAlone
<1>27. QED
    BY <1>1, <1>2, <1>3, <1>4, <1>5, <1>6, <1>7, <1>8, <1>9, <1>10, <1>11, 
       <1>12, <1>13, <1>14, <1>15, <1>16, <1>17, <1>18, <1>19, <1>20, <1>21, 
       <1>22, <1>23, <1>24, <1>25, <1>26 DEF Client

LEMMA CashierFrame ==
    ASSUME Inv, NEW k \in Cashiers, Cashier(k)
    PROVE  CashierMoves(k)
<1> USE Disjoint DEF Goto, Hold, testVars, localVars, CashierMoves, CashierPlaces, CashierHolds,
        HandUnreceived, HandUnprocessed, HandUnserved
<1>a. DOMAIN pc = Procs /\ DOMAIN order = Procs
    BY DEF Inv, TypeOK
<1>b. order[k] # NoOrder <=> pc[k] \in CashierHolds
    BY DEF Inv, Hands
<1>c. TakeOrderTake(k) => ReadSlot(lq) # NoOrder
  <2>1. TakeOrderTake(k) => ReadSlot(lq) \in Carried
      BY LineRingTake, Facts DEF TakeOrderTake
  <2>2. QED
      BY <2>1, Facts
<1>1. CASE TakeOrder(k)
    BY <1>a, <1>b, <1>1 DEF TakeOrder, CashierUsesQueue, MovesAlone
<1>2. CASE TakeBreak(k)
    BY <1>a, <1>b, <1>2 DEF TakeBreak, CashierUsesQueue, MovesAlone
<1>3. CASE EndBreak(k)
    BY <1>a, <1>b, <1>3 DEF EndBreak, CashierUsesQueue, MovesAlone
<1>4. CASE TakeOrderLock(k)
    BY <1>a, <1>b, <1>4 DEF TakeOrderLock, CashierUsesQueue, MovesAlone
<1>5. CASE TakeOrderTake(k)
    BY <1>a, <1>b, <1>c, <1>5 DEF TakeOrderTake, CashierUsesQueue, MovesAlone
<1>6. CASE TakeOrderPost(k)
    BY <1>a, <1>b, <1>6 DEF TakeOrderPost, CashierUsesQueue, MovesAlone
<1>7. CASE ReceivedSender(k)
    BY <1>a, <1>b, <1>7 DEF ReceivedSender, GiveSender, SetSender, MovesAlone
<1>8. CASE ReceivedSignal(k)
    BY <1>a, <1>b, <1>8 DEF ReceivedSignal, GiveSignal, PostSignal, MovesAlone
<1>9. CASE ProcessedSender(k)
    BY <1>a, <1>b, <1>9 DEF ProcessedSender, GiveSender, SetSender, MovesAlone
<1>10. CASE ProcessedSignal(k)
    BY <1>a, <1>b, <1>10 DEF ProcessedSignal, GiveSignal, PostSignal, MovesAlone
<1>11. CASE RecordPurchase(k)
    BY <1>a, <1>b, <1>11 DEF RecordPurchase, MovesAlone
<1>12. CASE PassOrderWait(k)
    BY <1>a, <1>b, <1>12 DEF PassOrderWait, CashierUsesQueue, MovesAlone
<1>13. CASE PassOrderLock(k)
    BY <1>a, <1>b, <1>13 DEF PassOrderLock, CashierUsesQueue, MovesAlone
<1>14. CASE PassOrderPut(k)
    BY <1>a, <1>b, <1>14 DEF PassOrderPut, CashierUsesQueue, MovesAlone
<1>15. CASE PassOrderPost(k)
    BY <1>a, <1>b, <1>15 DEF PassOrderPost, CashierUsesQueue, MovesAlone
<1>16. QED
    BY <1>1, <1>2, <1>3, <1>4, <1>5, <1>6, <1>7, <1>8, <1>9, <1>10, <1>11, 
       <1>12, <1>13, <1>14, <1>15 DEF Cashier

LEMMA ServerFrame ==
    ASSUME Inv, NEW s \in Servers, Server(s)
    PROVE  ServerMoves(s)
<1> USE Disjoint DEF Goto, Hold, testVars, localVars, ServerMoves, ServerPlaces, ServerHolds
<1>a. DOMAIN pc = Procs /\ DOMAIN order = Procs
    BY DEF Inv, TypeOK
<1>b. order[s] # NoOrder <=> pc[s] \in ServerHolds
    BY DEF Inv, Hands
<1>c. ServerPopTake(s) => ReadSlot(sq) # NoOrder
  <2>1. ServerPopTake(s) => ReadSlot(sq) \in Carried
      BY ServiceRingTake, Facts DEF ServerPopTake
  <2>2. QED
      BY <2>1, Facts
<1>1. CASE ServerPopWait(s)
    BY <1>a, <1>b, <1>1 DEF ServerPopWait, ServerUsesQueue, MovesAlone
<1>2. CASE ServerPopLock(s)
    BY <1>a, <1>b, <1>2 DEF ServerPopLock, ServerUsesQueue, MovesAlone
<1>3. CASE ServerPopTake(s)
    BY <1>a, <1>b, <1>c, <1>3 DEF ServerPopTake, ServerUsesQueue, MovesAlone
<1>4. CASE ServerPopPost(s)
    BY <1>a, <1>b, <1>4 DEF ServerPopPost, ServerUsesQueue, MovesAlone
<1>5. CASE Spawn(s)
    BY <1>a, <1>b, <1>5 DEF Spawn, ServerUsesQueue, MovesAlone
<1>6. QED
    BY <1>1, <1>2, <1>3, <1>4, <1>5 DEF Server

-----------------------------------------------------------------------------
(* The test driver; and SIGUSR1, which finds the staff idle. *)

LEMMA KilledIdle ==
    ASSUME Inv, NEW s \in Staff, HandleUSR1(s)
    PROVE  /\ Quiet /\ MovesAlone(s) /\ pc'[s] = "exited" /\ order[s] = NoOrder
           /\ pc[s] \in {"trypop", "break", "pop_wait"}
           /\ threads = {} /\ threads' = {} /\ order' = order
<1>a. /\ DOMAIN pc = Procs /\ DOMAIN order = Procs
      /\ UNCHANGED <<tq, lq, sq, sem_arr, ct_assns, order>> /\ UNCHANGED testVars
    BY DEF Inv, TypeOK, HandleUSR1, tokenVars, localVars
<1>1. tester # "reap"
    BY DEF HandleUSR1, Inv, Closing
<1>2. /\ threads = {} /\ order[s] = NoOrder
      /\ s \in Cashiers => pc[s] \in {"trypop", "break"}
      /\ s \in Servers => pc[s] = "pop_wait"
    BY <1>1, IdleAtClosing, Disjoint DEF HandleUSR1
<1>3. threads' = {}
    BY <1>2 DEF HandleUSR1
<1>4. s \in Procs /\ Goto(s, pc[s], "exited")
    BY Disjoint DEF HandleUSR1, Goto
<1>5. MovesAlone(s) /\ pc'[s] = "exited"
    BY <1>a, <1>4 DEF MovesAlone, Goto
<1>6. RingsUsed(s)
    BY <1>a, <1>2, <1>4, <1>5, Disjoint
    DEF RingsUsed, TokenRing, LineRing, ServiceRing, RingStep
<1>7. RingsKept
    BY <1>4, <1>6, UsedIsKept
<1>8. SamePlaces /\ SameTaken
    BY <1>2, <1>5, Disjoint
    DEF MovesAlone, SamePlaces, SameTaken, Holders, Waiting, AnyOf, Unassigned,
        Taken, HandUnreceived, HandUnprocessed, HandUnserved, ServerHolds
<1>9. SameSignals
    BY <1>a, <1>8, SameSemaphores
<1>10. QED
    BY <1>a, <1>2, <1>3, <1>5, <1>7, <1>8, <1>9, Disjoint DEF Quiet

Driver == Reap \/ \E s \in Staff : Kill(s)

LEMMA DriverQuiet ==
    ASSUME Inv, Driver \/ UNCHANGED vars
    PROVE  Quiet /\ UNCHANGED <<pc, order, threads>>
<1>1. UNCHANGED <<pc, tq, lq, sq, sem_arr, ct_assns, order, threads>>
    BY DEF Driver, Reap, Kill, vars, tokenVars, localVars
<1>2. RingsKept
    BY <1>1, UntouchedIsKept
<1>3. SamePlaces /\ SameTaken
    BY <1>1 DEF SamePlaces, SameTaken, Holders, Waiting, AnyOf, Taken
<1>4. SameSignals
    BY <1>1, <1>3, SameSemaphores
<1>5. QED
    BY <1>1, <1>2, <1>3, <1>4 DEF Quiet

Someone ==
    \/ \E c \in Clients : Client(c)
    \/ \E k \in Cashiers : Cashier(k)
    \/ \E s \in Servers : Server(s)
    \/ \E th \in threads : ServeOrder(th)

LEMMA NextSplits ==
    ASSUME [Next]_vars
    PROVE  Someone \/ Driver \/ (\E s \in Staff : HandleUSR1(s)) \/ UNCHANGED vars
BY DEF Next, Terminated, Someone, Driver

-----------------------------------------------------------------------------
(* The invariant is kept, part by part. *)

LEMMA AccountsKept ==
    ASSUME Inv, [Next]_vars
    PROVE  Accounts'
<1>1. ASSUME NEW c \in Clients, Client(c)
      PROVE  Accounts'
  <2>1. CASE AssignToken(c) \/ ReturnToken(c)
      BY <2>1, Reassigned
  <2>2. CASE Enter(c) \/ RestoreSignal(c)
      BY <2>2, OwnSignal
  <2>3. CASE WaitReceived(c) \/ WaitProcessed(c)
      BY <2>3, SignalTaken, QuietKeeps
  <2>4. CASE WaitServed(c)
      BY <2>4, MealTaken
  <2>5. CASE GetTokenTake(c)
      BY <2>5, TokenTaken
  <2>6. CASE ReturnTokenPut(c)
      BY <2>6, TokenReturned
  <2>7. CASE LineUpPut(c)
      BY <2>7, LinedUpNow
  <2>8. CASE Quiet
      BY <2>8, QuietKeeps
  <2>9. QED
      BY <1>1, <2>1, <2>2, <2>3, <2>4, <2>5, <2>6, <2>7, <2>8, ClientQuiet DEF Client
<1>2. ASSUME NEW k \in Cashiers, Cashier(k)
      PROVE  Accounts'
    BY <1>2, Signalled, OrderTaken, OrderPassed, CashierQuiet, QuietKeeps DEF Cashier
<1>3. ASSUME NEW s \in Servers, Server(s)
      PROVE  Accounts'
    BY <1>3, OrderPopped, ThreadStarted, ServerQuiet, QuietKeeps DEF Server
<1>4. ASSUME NEW th \in threads, ServeOrder(th)
      PROVE  Accounts'
    BY <1>4, ThreadSignals
<1>5. ASSUME NEW s \in Staff, HandleUSR1(s)
      PROVE  Accounts'
    BY <1>5, KilledIdle, QuietKeeps
<1>6. CASE Driver \/ UNCHANGED vars
    BY <1>6, DriverQuiet, QuietKeeps
<1>7. QED
    BY <1>1, <1>2, <1>3, <1>4, <1>5, <1>6, NextSplits DEF Someone

LEMMA PlacesKept ==
    ASSUME Inv, [Next]_vars
    PROVE  Placed' /\ Hands' /\ Closing'
<1> USE Disjoint DEF Inv, Placed, Hands, Closing, MovesAlone, testVars
<1>1. ASSUME NEW c \in Clients, Client(c)
      PROVE  Placed' /\ Hands' /\ Closing'
    BY <1>1, ClientFrame DEF ClientMoves
<1>2. ASSUME NEW k \in Cashiers, Cashier(k)
      PROVE  Placed' /\ Hands' /\ Closing'
    BY <1>2, CashierFrame DEF CashierMoves
<1>3. ASSUME NEW s \in Servers, Server(s)
      PROVE  Placed' /\ Hands' /\ Closing'
    BY <1>3, ServerFrame DEF ServerMoves
<1>4. ASSUME NEW th \in threads, ServeOrder(th)
      PROVE  Placed' /\ Hands' /\ Closing'
    BY <1>4 DEF ServeOrder, ServedSender, ServedSignal, localVars
<1>5. ASSUME NEW s \in Staff, HandleUSR1(s)
      PROVE  Placed' /\ Hands' /\ Closing'
  <2>1. /\ MovesAlone(s) /\ pc'[s] = "exited" /\ order'[s] = NoOrder
      BY <1>5, KilledIdle
  <2>2. "exited" \in CashierPlaces \ CashierHolds /\ "exited" \in ServerPlaces \ ServerHolds
      BY DEF CashierPlaces, CashierHolds, HandUnreceived, HandUnprocessed,
             HandUnserved, ServerPlaces, ServerHolds
  <2>3. QED
      BY <2>1, <2>2
<1>6. CASE Driver \/ UNCHANGED vars
  <2>1. UNCHANGED <<pc, order>>
      BY <1>6, DriverQuiet
  <2>2. Closing'
      BY <1>6, <2>1 DEF Driver, Reap, Kill, vars
  <2>3. QED
      BY <2>1, <2>2
<1>7. QED
    BY <1>1, <1>2, <1>3, <1>4, <1>5, <1>6, NextSplits DEF Someone

QueuesTyped ==
    /\ tq \in QueueType(NO_OF_TOKENS, Tokens)
    /\ lq \in QueueType(LINEUP_MAX, OrderType \union {NoOrder})
    /\ sq \in QueueType(LINEUP_MAX, OrderType \union {NoOrder})

LEMMA KeptTyped ==
    ASSUME RingsKept
    PROVE  QueuesTyped'
BY DEF RingsKept, TokenKept, LineKept, ServiceKept, QueuesTyped

LEMMA QueuesStayTyped ==
    ASSUME Inv, [Next]_vars
    PROVE  QueuesTyped'
<1>1. ASSUME NEW c \in Clients, Client(c)
      PROVE  QueuesTyped'
  <2>1. CASE GetTokenTake(c)
      BY <2>1, OtherRings, TokenRingTake
      DEF GetTokenTake, LineKept, ServiceKept, QueuesTyped
  <2>2. CASE ReturnTokenPut(c)
    <3>1. order[c].token \in Tokens
        BY <2>2, Facts DEF ReturnTokenPut, Goto, Holders, AnyOf
    <3>2. QED
        BY <2>2, <3>1, OtherRings, TokenRingPut
        DEF ReturnTokenPut, LineKept, ServiceKept, QueuesTyped
  <2>3. CASE LineUpPut(c)
      BY <2>3, Facts, OtherRings, LineRingPut
      DEF LineUpPut, TokenKept, ServiceKept, QueuesTyped
  <2>4. CASE RingsKept
      BY <2>4, KeptTyped
  <2>5. QED
      BY <1>1, <2>1, <2>2, <2>3, <2>4, ClientQuiet, ClientRingsKept DEF Client, Quiet
<1>2. ASSUME NEW k \in Cashiers, Cashier(k)
      PROVE  QueuesTyped'
  <2>1. CASE TakeOrderTake(k)
      BY <2>1, StaffOtherRings, LineRingTake
      DEF TakeOrderTake, TokenKept, ServiceKept, QueuesTyped
  <2>2. CASE PassOrderPut(k)
    <3>1. order[k] \in OrderType \union {NoOrder}
        BY Disjoint DEF Inv, TypeOK
    <3>2. QED
        BY <2>2, <3>1, StaffOtherRings, ServiceRingPut
        DEF PassOrderPut, TokenKept, LineKept, QueuesTyped
  <2>3. CASE ReceivedSignal(k) \/ ProcessedSignal(k)
      BY <2>3 DEF Inv, TypeOK, QueuesTyped, ReceivedSignal, ProcessedSignal, GiveSignal
  <2>4. CASE RingsKept
      BY <2>4, KeptTyped
  <2>5. QED
      BY <1>2, <2>1, <2>2, <2>3, <2>4, CashierQuiet DEF Cashier, Quiet
<1>3. ASSUME NEW s \in Servers, Server(s)
      PROVE  QueuesTyped'
  <2>1. CASE ServerPopTake(s)
      BY <2>1, StaffOtherRings, ServiceRingTake
      DEF ServerPopTake, TokenKept, LineKept, QueuesTyped
  <2>2. CASE RingsKept
      BY <2>2, KeptTyped
  <2>3. QED
      BY <1>3, <2>1, <2>2, ServerQuiet, StaffOtherRings DEF Server, Quiet
<1>4. ASSUME NEW th \in threads, ServeOrder(th)
      PROVE  QueuesTyped'
    BY <1>4 DEF Inv, TypeOK, QueuesTyped, ServeOrder, ServedSender, ServedSignal
<1>5. ASSUME NEW s \in Staff, HandleUSR1(s)
      PROVE  QueuesTyped'
    BY <1>5, KilledIdle, KeptTyped DEF Quiet
<1>6. CASE Driver \/ UNCHANGED vars
    BY <1>6, DriverQuiet, KeptTyped DEF Quiet
<1>7. QED
    BY <1>1, <1>2, <1>3, <1>4, <1>5, <1>6, NextSplits DEF Someone

RestTyped ==
    /\ sem_arr \in [Tokens -> Nat]
    /\ ct_assns \in [Tokens -> Clients \union {Nobody}]
    /\ sig_senders \in [Tokens -> Procs \union {Nobody}]
    /\ st_p \in [MenuItems -> Nat]
    /\ total_served \in Nat /\ total_entered \in Nat
    /\ order \in [Procs -> OrderType \union {NoOrder}]
    /\ \A c \in Clients : order[c] # NoOrder
    /\ staff_id \in [Clients -> Procs \union {Nobody}]
    /\ is_served \in [Clients -> BOOLEAN]
    /\ threads \subseteq [server : Servers, order : OrderType,
                          at : {"served_sender", "served_signal"}]
    /\ tester \in {"reap", "kill", "done"}
    /\ signalled \subseteq Staff

LEMMA ClientTyped ==
    ASSUME Inv, NEW c \in Clients, Client(c)
    PROVE  RestTyped'
<1> USE Disjoint DEF RestTyped, Hold, tokenVars, statVars, localVars, testVars
<1>a. RestTyped
    BY DEF Inv, TypeOK
<1>b. Enter(c) \/ WaitReceived(c) \/ WaitProcessed(c) \/ WaitServed(c)
        => sem_arr' \in [Tokens -> Nat]
    BY Waits DEF Enter, WaitReceived, WaitProcessed, WaitServed
<1>c. GetTokenTake(c) => [order[c] EXCEPT !.token = ReadSlot(tq)] \in OrderType
    BY Facts, TokenTaken DEF OrderType
<1>d. ReadReceived(c) \/ ReadProcessed(c) \/ ReadServed(c) \/ RestoreSignal(c)
        => order[c].token \in Tokens
  <2>1. ReadReceived(c) \/ ReadProcessed(c) \/ ReadServed(c) \/ RestoreSignal(c)
          => c \in Holders
      BY DEF ReadReceived, ReadProcessed, ReadServed, ReadSender,
             RestoreSignal, GiveSignal, Goto, Holders, AnyOf
  <2>2. QED
      BY <2>1, Facts
<1>e. \A t \in Tokens : sem_arr[t] \in Nat /\ sem_arr[t] + 1 \in Nat
    BY <1>a
<1>1. CASE GetTokenWait(c)
    BY <1>a, <1>1 DEF GetTokenWait, UsesTokenQueue
<1>2. CASE GetTokenLock(c)
    BY <1>a, <1>2 DEF GetTokenLock, UsesTokenQueue
<1>3. CASE GetTokenTake(c)
    BY <1>a, <1>c, OrderAssumption, <1>3 DEF GetTokenTake, UsesTokenQueue
<1>4. CASE GetTokenPost(c)
    BY <1>a, <1>4 DEF GetTokenPost, UsesTokenQueue
<1>5. CASE AssignToken(c)
    BY <1>a, <1>5 DEF AssignToken
<1>6. CASE Enter(c)
    BY <1>a, <1>b, <1>6 DEF Enter, WaitForSignal
<1>7. CASE LineUp(c)
    BY <1>a, <1>7 DEF LineUp, UsesLineupQueue
<1>8. CASE TurnAway(c)
    BY <1>a, <1>8 DEF TurnAway, UsesLineupQueue
<1>9. CASE LineUpLock(c)
    BY <1>a, <1>9 DEF LineUpLock, UsesLineupQueue
<1>10. CASE LineUpPut(c)
    BY <1>a, <1>10 DEF LineUpPut, UsesLineupQueue
<1>11. CASE LineUpPost(c)
    BY <1>a, <1>11 DEF LineUpPost, UsesLineupQueue
<1>12. CASE WaitReceived(c)
    BY <1>a, <1>b, <1>12 DEF WaitReceived, WaitForSignal
<1>13. CASE ReadReceived(c)
    BY <1>a, <1>d, <1>13 DEF ReadReceived, ReadSender
<1>14. CASE WaitProcessed(c)
    BY <1>a, <1>b, <1>14 DEF WaitProcessed, WaitForSignal
<1>15. CASE ReadProcessed(c)
    BY <1>a, <1>d, <1>15 DEF ReadProcessed, ReadSender
<1>16. CASE WaitServed(c)
    BY <1>a, <1>b, <1>16 DEF WaitServed, WaitForSignal
<1>17. CASE ReadServed(c)
    BY <1>a, <1>d, <1>17 DEF ReadServed, ReadSender
<1>18. CASE RestoreSender(c)
    BY <1>a, <1>18 DEF RestoreSender, GiveSender, SetSender
<1>19. CASE RestoreSignal(c)
    BY <1>a, <1>d, <1>e, <1>19 DEF RestoreSignal, GiveSignal, PostSignal
<1>20. CASE ReturnToken(c)
    BY <1>a, <1>20 DEF ReturnToken
<1>21. CASE ReturnTokenWait(c)
    BY <1>a, <1>21 DEF ReturnTokenWait, UsesTokenQueue
<1>22. CASE ReturnTokenLock(c)
    BY <1>a, <1>22 DEF ReturnTokenLock, UsesTokenQueue
<1>23. CASE ReturnTokenPut(c)
    BY <1>a, <1>23 DEF ReturnTokenPut, UsesTokenQueue
<1>24. CASE ReturnTokenPost(c)
    BY <1>a, <1>24 DEF ReturnTokenPost, UsesTokenQueue
<1>25. CASE RecordServed(c)
    BY <1>a, <1>25 DEF RecordServed
<1>26. CASE RecordEntered(c)
    BY <1>a, <1>26 DEF RecordEntered
<1>27. QED
    BY <1>1, <1>2, <1>3, <1>4, <1>5, <1>6, <1>7, <1>8, <1>9, <1>10, <1>11, 
       <1>12, <1>13, <1>14, <1>15, <1>16, <1>17, <1>18, <1>19, <1>20, <1>21, 
       <1>22, <1>23, <1>24, <1>25, <1>26 DEF Client

LEMMA CashierTyped ==
    ASSUME Inv, NEW k \in Cashiers, Cashier(k)
    PROVE  RestTyped'
<1> USE Disjoint DEF RestTyped, Hold, tokenVars, statVars, localVars, testVars
<1>a. RestTyped
    BY DEF Inv, TypeOK
<1>b. TakeOrderTake(k) => ReadSlot(lq) \in OrderType \union {NoOrder}
    BY LineRingTake DEF TakeOrderTake
<1>c. ReceivedSignal(k) \/ ProcessedSignal(k) \/ RecordPurchase(k)
        => order[k].token \in Tokens /\ order[k].item \in MenuItems
  <2>1. ReceivedSignal(k) \/ ProcessedSignal(k) \/ RecordPurchase(k)
          => order[k] # NoOrder
      BY DEF ReceivedSignal, ProcessedSignal, RecordPurchase, GiveSignal, Goto,
             Inv, Hands, CashierHolds, HandUnreceived, HandUnprocessed, HandUnserved
  <2>2. order[k] # NoOrder => order[k] \in Carried
      BY Facts
  <2>3. order[k] \in Carried =>
           /\ order[k] \in OrderType /\ order[k].client \in Holders
           /\ order[k] = order[order[k].client]
      BY Facts
  <2>4. order[k] \in Carried => order[k].token \in Tokens
      BY <2>3, Facts
  <2>5. QED
      BY <2>1, <2>2, <2>3, <2>4 DEF OrderType
<1>d. /\ \A t \in Tokens : sem_arr[t] \in Nat /\ sem_arr[t] + 1 \in Nat
      /\ \A i \in MenuItems : st_p[i] \in Nat /\ st_p[i] + 1 \in Nat
    BY <1>a
<1>1. CASE TakeOrder(k)
    BY <1>a, <1>1 DEF TakeOrder, CashierUsesQueue
<1>2. CASE TakeBreak(k)
    BY <1>a, <1>2 DEF TakeBreak, CashierUsesQueue
<1>3. CASE EndBreak(k)
    BY <1>a, <1>3 DEF EndBreak, CashierUsesQueue
<1>4. CASE TakeOrderLock(k)
    BY <1>a, <1>4 DEF TakeOrderLock, CashierUsesQueue
<1>5. CASE TakeOrderTake(k)
    BY <1>a, <1>b, <1>5 DEF TakeOrderTake, CashierUsesQueue
<1>6. CASE TakeOrderPost(k)
    BY <1>a, <1>6 DEF TakeOrderPost, CashierUsesQueue
<1>7. CASE ReceivedSender(k)
    BY <1>a, <1>7 DEF ReceivedSender, GiveSender, SetSender
<1>8. CASE ReceivedSignal(k)
    BY <1>a, <1>c, <1>d, <1>8 DEF ReceivedSignal, GiveSignal, PostSignal
<1>9. CASE ProcessedSender(k)
    BY <1>a, <1>9 DEF ProcessedSender, GiveSender, SetSender
<1>10. CASE ProcessedSignal(k)
    BY <1>a, <1>c, <1>d, <1>10 DEF ProcessedSignal, GiveSignal, PostSignal
<1>11. CASE RecordPurchase(k)
    BY <1>a, <1>c, <1>d, <1>11 DEF RecordPurchase
<1>12. CASE PassOrderWait(k)
    BY <1>a, <1>12 DEF PassOrderWait, CashierUsesQueue
<1>13. CASE PassOrderLock(k)
    BY <1>a, <1>13 DEF PassOrderLock, CashierUsesQueue
<1>14. CASE PassOrderPut(k)
    BY <1>a, <1>14 DEF PassOrderPut, CashierUsesQueue
<1>15. CASE PassOrderPost(k)
    BY <1>a, <1>15 DEF PassOrderPost, CashierUsesQueue
<1>16. QED
    BY <1>1, <1>2, <1>3, <1>4, <1>5, <1>6, <1>7, <1>8, <1>9, <1>10, <1>11, 
       <1>12, <1>13, <1>14, <1>15 DEF Cashier

LEMMA ServerTyped ==
    ASSUME Inv, NEW s \in Servers, Server(s)
    PROVE  RestTyped'
<1> USE Disjoint DEF RestTyped, Hold, tokenVars, statVars, localVars, testVars
<1>a. RestTyped
    BY DEF Inv, TypeOK
<1>b. ServerPopTake(s) => ReadSlot(sq) \in OrderType \union {NoOrder}
    BY ServiceRingTake DEF ServerPopTake
<1>c. Spawn(s) => order[s] \in OrderType
    BY <1>a DEF Spawn, Goto, Inv, Hands, ServerHolds
<1>1. CASE ServerPopWait(s)
    BY <1>a, <1>1 DEF ServerPopWait, ServerUsesQueue
<1>2. CASE ServerPopLock(s)
    BY <1>a, <1>2 DEF ServerPopLock, ServerUsesQueue
<1>3. CASE ServerPopTake(s)
    BY <1>a, <1>b, <1>3 DEF ServerPopTake, ServerUsesQueue
<1>4. CASE ServerPopPost(s)
    BY <1>a, <1>4 DEF ServerPopPost, ServerUsesQueue
<1>5. CASE Spawn(s)
    BY <1>a, <1>c, <1>5 DEF Spawn, ServerUsesQueue
<1>6. QED
    BY <1>1, <1>2, <1>3, <1>4, <1>5 DEF Server

LEMMA RestStaysTyped ==
    ASSUME Inv, [Next]_vars
    PROVE  RestTyped'
<1>a. RestTyped
    BY DEF Inv, TypeOK, RestTyped
<1> USE DEF RestTyped, tokenVars, statVars, localVars, testVars
<1>1. ASSUME NEW th \in threads, ServeOrder(th)
      PROVE  RestTyped'
  <2>1. CASE ServedSender(th)
      BY <1>a, <2>1, Disjoint DEF ServedSender, SetSender
  <2>2. CASE ServedSignal(th)
    <3>1. th.order \in Carried
        BY Facts
    <3>2. th.order.client \in Holders /\ th.order = order[th.order.client]
        BY <3>1, Facts
    <3>3. th.order.token \in Tokens
        BY <3>2, Facts
    <3>4. sem_arr[th.order.token] \in Nat /\ sem_arr[th.order.token] + 1 \in Nat
        BY <1>a, <3>3
    <3>5. QED
        BY <1>a, <2>2, <3>3, <3>4 DEF ServedSignal, PostSignal
  <2>3. QED
      BY <1>1, <2>1, <2>2 DEF ServeOrder
<1>2. ASSUME NEW s \in Staff, HandleUSR1(s)
      PROVE  RestTyped'
    BY <1>a, <1>2 DEF HandleUSR1
<1>3. CASE Driver
    BY <1>a, <1>3 DEF Driver, Reap, Kill
<1>4. CASE UNCHANGED vars
    BY <1>a, <1>4 DEF vars
<1>5. QED
    BY <1>1, <1>2, <1>3, <1>4, NextSplits, ClientTyped, CashierTyped, ServerTyped
    DEF Someone

LEMMA TypesKept ==
    ASSUME Inv, [Next]_vars
    PROVE  TypeOK'
<1>1. DOMAIN pc' = Procs
  <2>1. DOMAIN pc = Procs
      BY DEF Inv, TypeOK
  <2>2. ASSUME NEW th \in threads, ServeOrder(th)
        PROVE  pc' = pc
      BY <2>2 DEF ServeOrder, ServedSender, ServedSignal
  <2>3. QED
      BY <2>1, <2>2, NextSplits, ClientFrame, CashierFrame, ServerFrame, KilledIdle,
         DriverQuiet
      DEF Someone, ClientMoves, CashierMoves, ServerMoves, MovesAlone
<1>2. QED
    BY <1>1, QueuesStayTyped, RestStaysTyped DEF TypeOK, QueuesTyped, RestTyped

-----------------------------------------------------------------------------
(* The initial state. *)

LEMMA AllQueued ==
    /\ AllTokensQueued \in QueueType(NO_OF_TOKENS, Tokens)
    /\ Books(AllTokensQueued, NO_OF_TOKENS, 0, 0, 0, 0, {})
    /\ Stock(AllTokensQueued, 0, 0) = NO_OF_TOKENS
    /\ Stored(AllTokensQueued, NO_OF_TOKENS, NO_OF_TOKENS) = Tokens
    /\ Distinct(AllTokensQueued, NO_OF_TOKENS, NO_OF_TOKENS)
<1> DEFINE n == NO_OF_TOKENS
           q == AllTokensQueued
<1>1. n \in Nat \ {0} /\ n \in Nat /\ n > 0 /\ Tokens = 0 .. n - 1
    BY RestaurantAssumption DEF Tokens
<1> HIDE DEF n
<1>2. /\ q.buffer = [i \in Tokens |-> i] /\ q.fill = 0 /\ q.use = 0
      /\ q.empty = 0 /\ q.full = n /\ q.lock = 1
    BY DEF AllTokensQueued, NewQueue, n
<1>3. q \in QueueType(n, Tokens)
  <2>1. PICK r : r = NewQueue(n, 0)
      OBVIOUS
  <2>2. r \in QueueType(n, Tokens)
      BY <1>1, <2>1, NewBooks
  <2>3. q = [r EXCEPT !.buffer = [i \in Tokens |-> i], !.empty = 0, !.full = n]
      BY <2>1 DEF AllTokensQueued, n
  <2>4. [i \in Tokens |-> i] \in [0 .. n - 1 -> Tokens] /\ 0 \in 0 .. n /\ n \in 0 .. n
      BY <1>1
  <2>5. QED
      BY <2>2, <2>3, <2>4 DEF QueueType
<1>4. Stock(q, 0, 0) = n
    BY <1>1, <1>2 DEF Stock
<1>5. n % n = 0
    BY <1>1, WrapOnce
<1>6. FillAt(q, n, n)
  <2>1. q.use + n = n
      BY <1>1, <1>2
  <2>2. QED
      BY <1>2, <1>5, <2>1 DEF FillAt
<1>7. Books(q, n, 0, 0, 0, 0, {})
    BY <1>1, <1>2, <1>4, <1>6 DEF Books
<1>8. \A i \in 1 .. n : Items(q, n, n)[i] = i - 1
  <2>1. SUFFICES ASSUME NEW i \in 1 .. n
                 PROVE  Items(q, n, n)[i] = i - 1
      OBVIOUS
  <2>2. /\ i - 1 \in Nat /\ i - 1 < n /\ i - 1 \in Tokens
        /\ q.use + i - 1 = i - 1
      BY <1>1, <1>2
  <2>3. (i - 1) % n = i - 1
      BY <1>1, <2>2, WrapOnce
  <2>4. Items(q, n, n)[i] = q.buffer[(q.use + i - 1) % n]
      BY DEF Items
  <2>5. QED
      BY <1>2, <2>2, <2>3, <2>4
<1>9. Stored(q, n, n) = Tokens
  <2>1. \A i \in 1 .. n : i - 1 \in Tokens
      BY <1>1
  <2>2. \A t \in Tokens : t + 1 \in 1 .. n /\ (t + 1) - 1 = t
      BY <1>1
  <2>3. QED
      BY <1>8, <2>1, <2>2 DEF Stored
<1>10. Distinct(q, n, n)
    BY <1>1, <1>8 DEF Distinct
<1>11. QED
    BY <1>3, <1>4, <1>7, <1>9, <1>10 DEF n

LEMMA InitInv == Init => Inv
<1> SUFFICES ASSUME Init PROVE Inv
    OBVIOUS
<1> USE Disjoint
<1>1. /\ DOMAIN pc = Procs
      /\ \A c \in Clients : pc[c] = "get_wait"
      /\ \A k \in Cashiers : pc[k] = "trypop"
      /\ \A s \in Servers : pc[s] = "pop_wait"
    BY DEF Init
<1>2. /\ order \in [Procs -> OrderType \union {NoOrder}]
      /\ \A c \in Clients : order[c] \in OrderType /\ order[c].client = c
      /\ \A s \in Staff : order[s] = NoOrder
  <2>1. PICK choice \in [Clients -> MenuItems] :
          order = [p \in Procs |->
                     IF p \in Clients
                     THEN [item |-> choice[p], token |-> Nobody, client |-> p]
                     ELSE NoOrder]
      BY DEF Init
  <2>2. \A c \in Clients : /\ order[c] = [item |-> choice[c], token |-> Nobody, client |-> c]
                           /\ order[c] \in OrderType
      BY <2>1 DEF OrderType
  <2>3. \A s \in Staff : s \in Procs /\ order[s] = NoOrder
      BY <2>1
  <2>4. \A p \in Procs : order[p] \in OrderType \union {NoOrder}
      BY <2>1, <2>2
  <2>5. QED
      BY <2>1, <2>2, <2>3, <2>4
<1>3. \A places : "get_wait" \notin places => AnyOf(Clients, places) = {}
    BY <1>1 DEF AnyOf
<1>4. \A places : "trypop" \notin places => AnyOf(Cashiers, places) = {}
    BY <1>1 DEF AnyOf
<1>5. \A places : "pop_wait" \notin places => AnyOf(Servers, places) = {}
    BY <1>1 DEF AnyOf
<1>6. Cardinality({}) = 0
    BY FS_EmptySet
<1>7. NoOrder \in OrderType \union {NoOrder}
    OBVIOUS
<1>q. /\ NewQueue(LINEUP_MAX, NoOrder) \in QueueType(LINEUP_MAX, OrderType \union {NoOrder})
      /\ Books(NewQueue(LINEUP_MAX, NoOrder), LINEUP_MAX, 0, 0, 0, 0, {})
      /\ Stored(NewQueue(LINEUP_MAX, NoOrder), 0, LINEUP_MAX) = {}
      /\ Distinct(NewQueue(LINEUP_MAX, NoOrder), 0, LINEUP_MAX)
    BY <1>7, NewBooks, RestaurantAssumption
<1>8. /\ tq \in QueueType(NO_OF_TOKENS, Tokens)
      /\ lq \in QueueType(LINEUP_MAX, OrderType \union {NoOrder})
      /\ sq \in QueueType(LINEUP_MAX, OrderType \union {NoOrder})
    BY <1>q, AllQueued DEF Init
<1>9. TypeOK
  <2>1. \A c \in Clients : order[c] # NoOrder
      BY <1>2, OrderAssumption
  <2>2. QED
      BY <1>1, <1>2, <1>8, <2>1 DEF Init, TypeOK
<1>10. Placed
    BY <1>1 DEF Placed, ClientPlaces, CashierPlaces, ServerPlaces
<1>11. Hands
    BY <1>1, <1>2 DEF Hands, CashierHolds, HandUnreceived, HandUnprocessed,
                      HandUnserved, ServerHolds
<1>n. /\ \A places : "get_wait" \notin places => N(Clients, places) = 0
      /\ \A places : "trypop" \notin places => N(Cashiers, places) = 0
      /\ \A places : "pop_wait" \notin places => N(Servers, places) = 0
    BY <1>3, <1>4, <1>5, <1>6 DEF N
<1>12. /\ N(Clients, {"return_post"}) = 0 /\ N(Clients, {"get_lock", "get_take"}) = 0
       /\ N(Clients, {"return_lock", "return_put"}) = 0 /\ N(Clients, {"get_post"}) = 0
       /\ AnyOf(Clients, {"return_put"}) \union AnyOf(Clients, {"get_take"}) = {}
    BY <1>n, <1>3
<1>13. /\ N(Clients, {"push_post"}) = 0 /\ N(Clients, {"push_lock", "push_put"}) = 0
       /\ N(Cashiers, {"pop_lock", "pop_take"}) = 0 /\ N(Cashiers, {"pop_post"}) = 0
       /\ AnyOf(Clients, {"push_put"}) \union AnyOf(Cashiers, {"pop_take"}) = {}
    BY <1>n, <1>3, <1>4
<1>14. /\ N(Cashiers, {"pass_post"}) = 0 /\ N(Cashiers, {"pass_lock", "pass_put"}) = 0
       /\ N(Servers, {"pop_lock", "pop_take"}) = 0 /\ N(Servers, {"pop_post"}) = 0
       /\ AnyOf(Cashiers, {"pass_put"}) \union AnyOf(Servers, {"pop_take"}) = {}
    BY <1>n, <1>4, <1>5
<1>15. /\ TokenBooks /\ TokenStock = NO_OF_TOKENS /\ Free = Tokens
       /\ Distinct(tq, TokenStock, NO_OF_TOKENS)
    BY <1>12, AllQueued DEF Init, TokenBooks, TokenStock, Free
<1>16. /\ LineBooks /\ LineStock = 0 /\ InLine = {}
       /\ Distinct(lq, LineStock, LINEUP_MAX)
  <2>1. /\ Books(lq, LINEUP_MAX, 0, 0, 0, 0, {}) /\ lq.full = 0
        /\ Stored(lq, 0, LINEUP_MAX) = {} /\ Distinct(lq, 0, LINEUP_MAX)
      BY <1>q DEF Init, NewQueue
  <2>2. LineStock = 0
      BY <1>13, <2>1 DEF LineStock, Stock
  <2>3. QED
      BY <1>13, <2>1, <2>2 DEF LineBooks, InLine
<1>17. /\ ServiceBooks /\ ServiceStock = 0 /\ InService = {}
       /\ Distinct(sq, ServiceStock, LINEUP_MAX)
  <2>1. /\ Books(sq, LINEUP_MAX, 0, 0, 0, 0, {}) /\ sq.full = 0
        /\ Stored(sq, 0, LINEUP_MAX) = {} /\ Distinct(sq, 0, LINEUP_MAX)
      BY <1>q DEF Init, NewQueue
  <2>2. ServiceStock = 0
      BY <1>14, <2>1 DEF ServiceStock, Stock
  <2>3. QED
      BY <1>14, <2>1, <2>2 DEF ServiceBooks, InService
<1>18. Rings
    BY <1>15, <1>16, <1>17 DEF Rings, StoredOnce
<1>19. Holders = {} /\ Waiting = {}
    BY <1>1 DEF Holders, Waiting, AnyOf
<1>20. Carried = {}
    BY <1>2, <1>16, <1>17 DEF Init, Carried
<1>21. Owned
  <2>1. NO_OF_TOKENS + 0 = NO_OF_TOKENS
      BY RestaurantAssumption
  <2>2. QED
      BY <1>6, <1>15, <1>19, <2>1 DEF Owned
<1>22. Assigned
    BY <1>15, <1>19 DEF Init, Assigned
<1>23. Awaited /\ OneCopy
    BY <1>2, <1>16, <1>17, <1>20 DEF Init, Awaited, OneCopy
<1>24. Balanced
    BY <1>1, <1>15, <1>16, <1>17, <1>19
    DEF Init, Balanced, HandUnreceived, HandUnprocessed, HandUnserved, ServerHolds
<1>25. Closing
    BY DEF Init, Closing
<1>26. QED
    BY <1>9, <1>10, <1>11, <1>18, <1>21, <1>22, <1>23, <1>24, <1>25 DEF Inv

-----------------------------------------------------------------------------
(* The invariant holds in every state the restaurant reaches: the books of *)
(* the three rings, the ownership of the tokens, the whereabouts of every  *)
(* order and the balance of its signals.                                   *)
THEOREM RestaurantInvariant == Spec => []Inv
<1>1. Init => Inv
    BY InitInv
<1>2. Inv /\ [Next]_vars => Inv'
    BY AccountsKept, PlacesKept, TypesKept DEF Inv, Accounts
<1>3. QED
    BY <1>1, <1>2, PTL DEF Spec

(* Every variable keeps its type; no semaphore goes below 0. *)
THEOREM RestaurantTyped == Spec => []TypeOK
<1>1. Inv => TypeOK
    BY DEF Inv
<1>2. QED
    BY <1>1, RestaurantInvariant, PTL

-----------------------------------------------------------------------------
(* Counting. *)

LEMMA ImageCount ==
    ASSUME NEW S, IsFiniteSet(S), NEW T, NEW f \in [S -> T],
           \A x, y \in S : f[x] = f[y] => x = y,
           \A t \in T : \E x \in S : f[x] = t
    PROVE  IsFiniteSet(T) /\ Cardinality(T) = Cardinality(S)
<1>1. f \in Bijection(S, T)
    BY DEF Bijection, Injection, Surjection, IsInjective
<1>2. QED
    BY <1>1, FS_Bijection DEF ExistsBijection

(* A ring that stores nothing twice stores as many items as it counts. *)
LEMMA StoredCount ==
    ASSUME NEW q, NEW size, NEW n \in Nat, Distinct(q, n, size)
    PROVE  IsFiniteSet(Stored(q, n, size)) /\ Cardinality(Stored(q, n, size)) = n
<1> DEFINE f == Items(q, n, size)
           S == Stored(q, n, size)
<1>1. f \in [1 .. n -> S]
    BY DEF Items, Stored
<1>2. IsFiniteSet(1 .. n) /\ Cardinality(1 .. n) = n
    BY FS_Interval
<1>3. /\ \A i, j \in 1 .. n : f[i] = f[j] => i = j
      /\ \A o \in S : \E i \in 1 .. n : f[i] = o
    BY DEF Distinct, Stored
<1> HIDE DEF f, S
<1>4. IsFiniteSet(S) /\ Cardinality(S) = n
    BY <1>1, <1>2, <1>3, ImageCount
<1>5. QED
    BY <1>4 DEF S

(* Three sets without a common member, and one member more. *)
LEMMA ThreeParts ==
    ASSUME NEW U, IsFiniteSet(U),
           NEW A \in SUBSET U, NEW B \in SUBSET U, NEW C \in SUBSET U,
           A \intersect B = {}, A \intersect C = {}, B \intersect C = {}
    PROVE  /\ IsFiniteSet(A \union B \union C)
           /\ Cardinality(A \union B \union C) =
                Cardinality(A) + Cardinality(B) + Cardinality(C)
           /\ Cardinality(A) + Cardinality(B) + Cardinality(C) <= Cardinality(U)
<1>1. /\ IsFiniteSet(A) /\ IsFiniteSet(B) /\ IsFiniteSet(C)
      /\ Cardinality(A) \in Nat /\ Cardinality(B) \in Nat /\ Cardinality(C) \in Nat
      /\ Cardinality(U) \in Nat
    BY FS_Subset, FS_CardinalityType
<1>2. IsFiniteSet(A \union B) /\ Cardinality(A \union B) = Cardinality(A) + Cardinality(B)
  <2>1. /\ IsFiniteSet(A \union B)
        /\ Cardinality(A \union B) =
             Cardinality(A) + Cardinality(B) - Cardinality(A \intersect B)
      BY <1>1, FS_Union
  <2>2. Cardinality(A \intersect B) = 0
      BY FS_EmptySet
  <2>3. QED
      BY <1>1, <2>1, <2>2
<1>3. /\ IsFiniteSet(A \union B \union C)
      /\ Cardinality(A \union B \union C) = Cardinality(A \union B) + Cardinality(C)
  <2>1. /\ IsFiniteSet((A \union B) \union C)
        /\ Cardinality((A \union B) \union C) =
             Cardinality(A \union B) + Cardinality(C)
               - Cardinality((A \union B) \intersect C)
      BY <1>1, <1>2, FS_Union
  <2>2. (A \union B) \intersect C = {}
      OBVIOUS
  <2>3. Cardinality((A \union B) \intersect C) = 0
      BY <2>2, FS_EmptySet
  <2>4. QED
      BY <1>1, <1>2, <2>1, <2>3
<1>4. A \union B \union C \in SUBSET U
    OBVIOUS
<1>5. Cardinality(A \union B \union C) <= Cardinality(U)
    BY <1>4, FS_Subset
<1>6. QED
    BY <1>1, <1>2, <1>3, <1>5

LEMMA ThreeApart ==
    ASSUME NEW U, IsFiniteSet(U),
           NEW A \in SUBSET U, NEW B \in SUBSET U, NEW C \in SUBSET U,
           A \intersect B = {}, A \intersect C = {}, B \intersect C = {},
           NEW x \in U, x \notin A \union B \union C
    PROVE  Cardinality(A) + Cardinality(B) + Cardinality(C) + 1 <= Cardinality(U)
<1>1. /\ IsFiniteSet(U \ {x}) /\ Cardinality(U \ {x}) = Cardinality(U) - 1
      /\ Cardinality(U) \in Nat
    BY FS_RemoveElement, FS_CardinalityType
<1>2. A \in SUBSET (U \ {x}) /\ B \in SUBSET (U \ {x}) /\ C \in SUBSET (U \ {x})
    OBVIOUS
<1>3. Cardinality(A) + Cardinality(B) + Cardinality(C) <= Cardinality(U \ {x})
    BY <1>1, <1>2, ThreeParts
<1>4. Cardinality(A) \in Nat /\ Cardinality(B) \in Nat /\ Cardinality(C) \in Nat
    BY FS_Subset, FS_CardinalityType
<1>5. QED
    BY <1>1, <1>3, <1>4

(* The orders of processes that have one each. *)
LEMMA OrdersCount ==
    ASSUME NEW ps \in SUBSET Procs, NEW places,
           \A p, r \in AnyOf(ps, places) : order[p] = order[r] => p = r
    PROVE  /\ IsFiniteSet({order[p] : p \in AnyOf(ps, places)})
           /\ Cardinality({order[p] : p \in AnyOf(ps, places)}) = N(ps, places)
<1> DEFINE S == AnyOf(ps, places)
           T == {order[p] : p \in S}
           f == [p \in S |-> order[p]]
<1>1. IsFiniteSet(S)
    BY AnyOfFinite
<1>2. f \in [S -> T] /\ (\A p, r \in S : f[p] = f[r] => p = r)
      /\ \A t \in T : \E p \in S : f[p] = t
    OBVIOUS
<1> HIDE DEF S, T, f
<1>3. IsFiniteSet(T) /\ Cardinality(T) = Cardinality(S)
    BY <1>1, <1>2, ImageCount
<1>4. QED
    BY <1>3 DEF S, T, N

-----------------------------------------------------------------------------
(* The properties the runs check. *)

LEMMA QueuesSeen ==
    ASSUME Inv
    PROVE  /\ FreeTokens = Items(tq, TokenStock, NO_OF_TOKENS)
           /\ LinedUp = Items(lq, LineStock, LINEUP_MAX)
           /\ ToServe = Items(sq, ServiceStock, LINEUP_MAX)
           /\ OrdersIn(LinedUp) = InLine /\ OrdersIn(ToServe) = InService
           /\ DOMAIN FreeTokens = 1 .. TokenStock
           /\ \A i \in DOMAIN FreeTokens : FreeTokens[i] \in Free
<1>1. /\ FreeTokens = Items(tq, TokenStock, NO_OF_TOKENS)
      /\ LinedUp = Items(lq, LineStock, LINEUP_MAX)
      /\ ToServe = Items(sq, ServiceStock, LINEUP_MAX)
    BY DEF FreeTokens, LinedUp, ToServe, TokenStock, LineStock, ServiceStock, Stock, N
<1>2. \A q, n, size : DOMAIN Items(q, n, size) = 1 .. n
    BY DEF Items
<1>3. OrdersIn(LinedUp) = InLine /\ OrdersIn(ToServe) = InService
    BY <1>1, <1>2 DEF OrdersIn, InLine, InService, Stored
<1>4. DOMAIN FreeTokens = 1 .. TokenStock
    BY <1>1, <1>2
<1>5. \A i \in DOMAIN FreeTokens : FreeTokens[i] \in Free
    BY <1>1, <1>4 DEF Free, Stored
<1>6. QED
    BY <1>1, <1>3, <1>4, <1>5

(* A token is in the queue once or held by one client, never both and never *)
(* lost, for any number of clients and tokens.                              *)
THEOREM NoTokenLostOrShared == Spec => []TokensConserved
<1>1. ASSUME Inv PROVE TokensConserved
  <2>1. \A c, d \in Holders : order[c].token = order[d].token => c = d
      BY <1>1, Facts
  <2>2. \A i, j \in DOMAIN FreeTokens : FreeTokens[i] = FreeTokens[j] => i = j
      BY <1>1, QueuesSeen DEF Inv, Rings, StoredOnce, Distinct
  <2>3. \A i \in DOMAIN FreeTokens : \A c \in Holders : FreeTokens[i] # order[c].token
      BY <1>1, QueuesSeen, Facts
  <2>4. Len(FreeTokens) = TokenStock
      BY <1>1, QueuesSeen, TokenStockNat DEF Items
  <2>5. QED
      BY <1>1, <2>1, <2>2, <2>3, <2>4 DEF TokensConserved, Inv, Owned
<1>2. QED
    BY <1>1, RestaurantInvariant, PTL

(* Staff never signal a token that went on to somebody else: the client of *)
(* an order on its way still waits and still has the token it names.       *)
THEOREM OrdersFindTheirClients == Spec => []OrdersAwaited
<1>1. ASSUME Inv PROVE OrdersAwaited
  <2>1. OrdersInSystem = Carried
      BY <1>1, QueuesSeen DEF OrdersInSystem, Carried
  <2>2. \A o \in Carried : o.client \in Waiting /\ o = order[o.client]
      BY <1>1, Facts
  <2>3. \A c \in Waiting : c \in Holders /\ pc[c] \notin Unassigned
      BY <1>1, Facts DEF Waiting, AnyOf, Unassigned
  <2>4. \A c \in Waiting : ct_assns[order[c].token] = c
      BY <1>1, <2>3, Mine
  <2>5. QED
      BY <2>1, <2>2, <2>4 DEF OrdersAwaited
<1>2. QED
    BY <1>1, RestaurantInvariant, PTL

(* A token's semaphore counts the signals posted and not yet taken by its  *)
(* holder, and is 1 again before the next holder gets the token.           *)
THEOREM SignalsDoNotLeak == Spec => []SignalsBalanced
<1>1. ASSUME Inv PROVE SignalsBalanced
  <2>1. \A i \in DOMAIN FreeTokens : sem_arr[FreeTokens[i]] = 1
      BY <1>1, QueuesSeen DEF Inv, Balanced
  <2>2. ASSUME NEW c \in Waiting
        PROVE  sem_arr[order[c].token] = Posted(c) - Taken(c)
    <3> DEFINE o == order[c]
    <3>1. /\ c \in Clients /\ o.client = c /\ o.token \in Tokens
          /\ sem_arr[o.token] \in Nat /\ Taken(c) \in Nat
        BY <1>1, Facts, TakenRange DEF Inv, TypeOK
    <3>2. Signals(o) = sem_arr[o.token] + Taken(c)
        BY <3>1 DEF Signals
    <3>3. \A p \in Carried : p.client = c => p = o
        BY <1>1, Facts
    <3>4. c \in Unreceived => Signals(o) = 0
      <4>1. ClientsIn(LinedUp) = {p.client : p \in InLine}
          BY <1>1, QueuesSeen DEF ClientsIn
      <4>2. c \in ClientsIn(LinedUp) => o \in InLine
          BY <1>1, <3>3, <4>1, Facts
      <4>3. \A k \in Cashiers : pc[k] \in HandUnreceived => order[k] \in Carried
          BY <1>1, Facts, Disjoint DEF Inv, Hands, CashierHolds
      <4>4. c \in OrdersAt(Cashiers, HandUnreceived) =>
              \E k \in Cashiers : pc[k] \in HandUnreceived /\ order[k] = o
          BY <3>3, <4>3 DEF OrdersAt, AnyOf
      <4>5. QED
          BY <1>1, <4>2, <4>4 DEF Unreceived, Inv, Balanced, HandUnreceived
    <3>5. c \in Unprocessed => Signals(o) = 1
      <4>1. \A k \in Cashiers : pc[k] \in HandUnprocessed => order[k] \in Carried
          BY <1>1, Facts, Disjoint DEF Inv, Hands, CashierHolds
      <4>2. c \in OrdersAt(Cashiers, HandUnprocessed) =>
              \E k \in Cashiers : pc[k] \in HandUnprocessed /\ order[k] = o
          BY <3>3, <4>1 DEF OrdersAt, AnyOf
      <4>3. QED
          BY <1>1, <4>2 DEF Unprocessed, Inv, Balanced, HandUnprocessed
    <3>6. c \in Unserved => Signals(o) = 2
      <4>1. ClientsIn(ToServe) = {p.client : p \in InService}
          BY <1>1, QueuesSeen DEF ClientsIn
      <4>2. c \in ClientsIn(ToServe) => o \in InService
          BY <1>1, <3>3, <4>1, Facts
      <4>3. \A k \in Cashiers : pc[k] \in HandUnserved => order[k] \in Carried
          BY <1>1, Facts, Disjoint DEF Inv, Hands, CashierHolds
      <4>4. c \in OrdersAt(Cashiers, HandUnserved) =>
              \E k \in Cashiers : pc[k] \in HandUnserved /\ order[k] = o
          BY <3>3, <4>3 DEF OrdersAt, AnyOf
      <4>5. \A s \in Servers : pc[s] \in ServerHolds => order[s] \in Carried
          BY <1>1, Facts, Disjoint DEF Inv, Hands
      <4>6. c \in OrdersAt(Servers, ServerHolds) =>
              \E s \in Servers : pc[s] \in ServerHolds /\ order[s] = o
          BY <3>3, <4>5 DEF OrdersAt, AnyOf
      <4>7. c \in {th.order.client : th \in threads} =>
              \E th \in threads : th.order = o
          BY <1>1, <3>3, Facts
      <4>8. QED
          BY <1>1, <4>2, <4>4, <4>6, <4>7
          DEF Unserved, Inv, Balanced, HandUnserved, ServerHolds
    <3>7. o \in Carried => c \in Unreceived \union Unprocessed \union Unserved
      <4>1. o \in InLine => c \in Unreceived
          BY <1>1, <3>1, QueuesSeen DEF ClientsIn, Unreceived
      <4>2. o \in InService => c \in Unserved
          BY <1>1, <3>1, QueuesSeen DEF ClientsIn, Unserved
      <4>3. \A k \in Cashiers : order[k] = o /\ o # NoOrder =>
              c \in Unreceived \union Unprocessed \union Unserved
          BY <1>1, <3>1 DEF Inv, Hands, CashierHolds, HandUnreceived, HandUnprocessed,
             HandUnserved, Unreceived, Unprocessed, Unserved, OrdersAt, AnyOf
      <4>4. \A s \in Servers : order[s] = o /\ o # NoOrder => c \in Unserved
          BY <1>1, <3>1 DEF Inv, Hands, ServerHolds, Unserved, OrdersAt, AnyOf
      <4>5. \A th \in threads : th.order = o => c \in Unserved
          BY <1>1, <3>1 DEF Unserved
      <4>6. QED
          BY <4>1, <4>2, <4>3, <4>4, <4>5, Disjoint DEF Carried
    <3>8. o \notin Carried => Signals(o) = 3
        BY <1>1 DEF Inv, Balanced
    <3>9. Signals(o) = Posted(c)
        BY <3>4, <3>5, <3>6, <3>7, <3>8 DEF Posted
    <3>10. QED
        BY <3>1, <3>2, <3>9
  <2>3. \A c \in Waiting :
          pc[c] \notin {"get_post", "assign", "enter",
                        "return", "return_wait", "return_lock", "return_put"}
      BY DEF Waiting, AnyOf
  <2>4. \A c \in Holders \ Waiting :
          sem_arr[order[c].token] =
            IF pc[c] \in {"get_post", "assign", "enter",
                          "return", "return_wait", "return_lock", "return_put"}
            THEN 1 ELSE 0
      BY <1>1 DEF Inv, Balanced, Unassigned
  <2>5. QED
      BY <2>1, <2>2, <2>3, <2>4 DEF SignalsBalanced
<1>2. QED
    BY <1>1, RestaurantInvariant, PTL

(* SIGUSR1 ends no staff process inside an operation, with a lock or an  *)
(* order in its hands or a customer's meal in one of its threads.        *)
THEOREM KilledWhenIdle == Spec => StaffLeaveIdle
<1> DEFINE Leaves ==
             \A s \in Staff : (pc[s] # "exited" /\ pc'[s] = "exited") =>
                /\ pc[s] \in {"trypop", "break", "pop_wait"}
                /\ order[s] = NoOrder
                /\ \A th \in threads : th.server # s
<1>1. ASSUME Inv, [Next]_vars PROVE Leaves
  <2>1. ASSUME NEW c \in Clients, Client(c)
        PROVE  Leaves
      BY <1>1, <2>1, ClientFrame, Disjoint DEF ClientMoves, MovesAlone
  <2>2. ASSUME NEW k \in Cashiers, Cashier(k)
        PROVE  Leaves
      BY <1>1, <2>2, CashierFrame, Disjoint DEF CashierMoves, MovesAlone
  <2>3. ASSUME NEW s \in Servers, Server(s)
        PROVE  Leaves
      BY <1>1, <2>3, ServerFrame, Disjoint DEF ServerMoves, MovesAlone
  <2>4. ASSUME NEW th \in threads, ServeOrder(th)
        PROVE  Leaves
      BY <2>4 DEF ServeOrder, ServedSender, ServedSignal
  <2>5. ASSUME NEW s \in Staff, HandleUSR1(s)
        PROVE  Leaves
      BY <1>1, <2>5, KilledIdle, Disjoint DEF MovesAlone
  <2>6. CASE Driver \/ UNCHANGED vars
      BY <1>1, <2>6, DriverQuiet
  <2>7. QED
      BY <1>1, <2>1, <2>2, <2>3, <2>4, <2>5, <2>6, NextSplits DEF Someone
<1>2. QED
    BY <1>1, RestaurantInvariant, PTL DEF Spec, StaffLeaveIdle


LEMMA RingSizes ==
    ASSUME Inv
    PROVE  /\ tq.full \in Nat /\ tq.empty \in Nat /\ lq.full \in Nat /\ lq.empty \in Nat
           /\ sq.full \in Nat /\ sq.empty \in Nat
           /\ NO_OF_TOKENS \in Nat /\ LINEUP_MAX \in Nat
BY RestaurantAssumption DEF Inv, TypeOK, QueueType

(* A client that returns its token never waits for room in the token queue: *)
(* the places taken, being written or being read belong to other holders.   *)
THEOREM ReturnIsFree == Spec => []ReturnNeverWaits
<1>1. ASSUME Inv, NEW c \in AnyOf(Clients, {"return_wait"})
      PROVE  tq.empty > 0
  <2> DEFINE A == AnyOf(Clients, {"return_lock", "return_put"})
             B == AnyOf(Clients, {"get_post"})
  <2>1. /\ A \in SUBSET Holders /\ B \in SUBSET Holders /\ c \in Holders
        /\ A \intersect B = {} /\ c \notin A \union B
      BY DEF Holders, AnyOf
  <2>2. {} \in SUBSET Holders /\ A \intersect {} = {} /\ B \intersect {} = {}
        /\ c \notin A \union B \union {}
      BY <2>1
  <2> HIDE DEF A, B
  <2>3. Cardinality(A) + Cardinality(B) + Cardinality({}) + 1 <= Cardinality(Holders)
      BY <2>1, <2>2, HoldersFinite, ThreeApart
  <2>4. tq.empty + Cardinality(A) + TokenStock + Cardinality(B) = NO_OF_TOKENS
      BY <1>1 DEF Inv, Rings, TokenBooks, Books, TokenStock, N, A, B
  <2>5. TokenStock + Cardinality(Holders) = NO_OF_TOKENS
      BY <1>1 DEF Inv, Owned
  <2>6. /\ Cardinality(A) \in Nat /\ Cardinality(B) \in Nat
        /\ Cardinality(Holders) \in Nat /\ Cardinality({}) = 0
      BY <2>1, HoldersFinite, FS_Subset, FS_CardinalityType, FS_EmptySet
  <2>7. tq.empty \in Nat /\ TokenStock \in Nat /\ NO_OF_TOKENS \in Nat
      BY <1>1, TokenStockNat, RingSizes
  <2>8. QED
      BY <2>3, <2>4, <2>5, <2>6, <2>7
<1>2. Inv => ReturnNeverWaits
    BY <1>1 DEF ReturnNeverWaits
<1>3. QED
    BY <1>2, RestaurantInvariant, PTL

(* Each holder's order is one order. *)
LEMMA HeldOrders ==
    ASSUME Inv
    PROVE  /\ IsFiniteSet({order[c] : c \in Holders})
           /\ Cardinality({order[c] : c \in Holders}) = Cardinality(Holders)
           /\ Carried \in SUBSET {order[c] : c \in Holders}
<1> DEFINE T == {order[c] : c \in Holders}
           f == [c \in Holders |-> order[c]]
<1>1. f \in [Holders -> T] /\ (\A t \in T : \E c \in Holders : f[c] = t)
    OBVIOUS
<1>2. \A c, d \in Holders : f[c] = f[d] => c = d
    BY Facts
<1>3. Carried \in SUBSET T
  <2>1. \A o \in Carried : o.client \in Holders /\ o = order[o.client]
      BY Facts
  <2>2. QED
      BY <2>1
<1> HIDE DEF T, f
<1>4. IsFiniteSet(T) /\ Cardinality(T) = Cardinality(Holders)
    BY <1>1, <1>2, HoldersFinite, ImageCount
<1>5. QED
    BY <1>3, <1>4 DEF T

(* The orders being put into a queue, stored in it and being taken from it  *)
(* are three kinds of orders of clients with a token; one client more, and  *)
(* there is a slot for it.                                                  *)
LEMMA SlotLeft ==
    ASSUME Inv, NO_OF_TOKENS <= LINEUP_MAX,
           NEW W \in SUBSET Procs, NEW places, NEW R \in SUBSET Procs, NEW goals,
           NEW S, NEW n \in Nat, IsFiniteSet(S), Cardinality(S) = n,
           NEW x \in Holders, NEW empty \in Nat,
           empty + N(W, places) + n + N(R, goals) = LINEUP_MAX,
           \A p, r \in AnyOf(W, places) : order[p] = order[r] => p = r,
           \A p, r \in AnyOf(R, goals) : order[p] = order[r] => p = r,
           \A p \in AnyOf(W, places) :
              order[p] \notin S /\ \E c \in Holders : order[p] = order[c],
           \A p \in AnyOf(R, goals) :
              order[p] \notin S /\ \E c \in Holders : order[p] = order[c],
           \A p \in AnyOf(W, places), r \in AnyOf(R, goals) : order[p] # order[r],
           S \in SUBSET {order[c] : c \in Holders},
           order[x] \notin S,
           \A p \in AnyOf(W, places) : order[p] # order[x],
           \A p \in AnyOf(R, goals) : order[p] # order[x]
    PROVE  empty > 0
<1> DEFINE U == {order[c] : c \in Holders}
           A == {order[p] : p \in AnyOf(W, places)}
           C == {order[p] : p \in AnyOf(R, goals)}
<1>1. /\ Cardinality(A) = N(W, places) /\ Cardinality(C) = N(R, goals)
      /\ N(W, places) \in Nat /\ N(R, goals) \in Nat
    BY OrdersCount, AnyOfFinite
<1>2. /\ A \in SUBSET U /\ S \in SUBSET U /\ C \in SUBSET U
      /\ A \intersect S = {} /\ A \intersect C = {} /\ S \intersect C = {}
      /\ order[x] \in U /\ order[x] \notin A \union S \union C
    OBVIOUS
<1>3. IsFiniteSet(U) /\ Cardinality(U) = Cardinality(Holders)
    BY HeldOrders
<1> HIDE DEF U, A, C
<1>4. Cardinality(A) + Cardinality(S) + Cardinality(C) + 1 <= Cardinality(U)
    BY <1>2, <1>3, ThreeApart
<1>5. /\ TokenStock + Cardinality(Holders) = NO_OF_TOKENS
      /\ TokenStock \in Nat /\ Cardinality(Holders) \in Nat
      /\ NO_OF_TOKENS \in Nat /\ LINEUP_MAX \in Nat
    BY TokenStockNat, HoldersFinite, RestaurantAssumption DEF Inv, Owned
<1>6. QED
    BY <1>1, <1>3, <1>4, <1>5

(* With a place in line for every token, nobody is turned away, and no    *)
(* cashier waits for the server: each slot that is not free is a client's. *)
THEOREM RoomForAll == Spec => []RoomForEveryToken
<1>1. ASSUME Inv, NO_OF_TOKENS <= LINEUP_MAX,
             NEW c \in AnyOf(Clients, {"trypush"})
      PROVE  lq.empty > 0
  <2> DEFINE A == AnyOf(Clients, {"push_lock", "push_put"})
             C == AnyOf(Cashiers, {"pop_post"})
  <2>1. lq.empty \in Nat /\ LineStock \in Nat
    <3>1. /\ N(Clients, {"push_post"}) \in Nat
          /\ N(Cashiers, {"pop_lock", "pop_take"}) \in Nat
        BY AnyOfFinite, KindsFinite
    <3>2. QED
        BY <1>1, <3>1, RingSizes DEF LineStock, Stock
  <2>2. IsFiniteSet(InLine) /\ Cardinality(InLine) = LineStock
      BY <1>1, <2>1, StoredCount DEF Inv, Rings, StoredOnce, InLine
  <2>3. lq.empty + N(Clients, {"push_lock", "push_put"}) + LineStock
          + N(Cashiers, {"pop_post"}) = LINEUP_MAX
      BY <1>1 DEF Inv, Rings, LineBooks, Books, LineStock
  <2>4. /\ c \in Clients /\ c \in Holders /\ c \notin Waiting
        /\ A \in SUBSET Holders /\ A \intersect Waiting = {} /\ c \notin A
        /\ A \in SUBSET Clients
      BY DEF Holders, Waiting, AnyOf
  <2>5. /\ C \in SUBSET Cashiers
        /\ \A k \in C : k \in Staff /\ order[k] # NoOrder /\ order[k] \in Carried
      BY <1>1, Facts, Disjoint DEF Inv, Hands, CashierHolds, HandUnreceived, AnyOf
  <2>6. \A d \in Holders \ Waiting : order[d] \notin Carried
      BY <1>1, Facts
  <2>7. \A p, r \in A : order[p] = order[r] => p = r
      BY <1>1, <2>4, Facts
  <2>8. \A p, r \in C : order[p] = order[r] => p = r
      BY <1>1, <2>5 DEF Inv, OneCopy
  <2>9. \A k \in C : order[k] \notin InLine
      BY <1>1, <2>5 DEF Inv, OneCopy
  <2>10. /\ \A p \in A : order[p] \notin Carried /\ order[p] # order[c]
         /\ order[c] \notin Carried
      BY <1>1, <2>4, <2>6, Facts
  <2>11. \A k \in C : \E d \in Holders : order[k] = order[d]
      BY <1>1, <2>5, Facts
  <2>12. InLine \in SUBSET {order[d] : d \in Holders} /\ InLine \in SUBSET Carried
      BY <1>1, HeldOrders, Facts
  <2>13. \A p \in A : \E d \in Holders : order[p] = order[d]
      BY <2>4
  <2> HIDE DEF A, C
  <2>14. /\ \A p \in A : order[p] \notin InLine /\ \E d \in Holders : order[p] = order[d]
         /\ \A p \in C : order[p] \notin InLine /\ \E d \in Holders : order[p] = order[d]
      BY <2>9, <2>10, <2>11, <2>12, <2>13
  <2>15. \A p \in A, r \in C : order[p] # order[r]
      BY <2>5, <2>10
  <2>16. /\ \A p \in A : order[p] # order[c]
         /\ \A p \in C : order[p] # order[c]
         /\ order[c] \notin InLine
      BY <2>5, <2>10, <2>12
  <2>17. c \in Holders /\ Clients \in SUBSET Procs /\ Cashiers \in SUBSET Procs
      BY <2>4, KindsFinite
  <2>18. InLine \in SUBSET {order[d] : d \in Holders}
      BY <2>12
  <2>19. QED
      BY <1>1, <2>1, <2>2, <2>3, <2>7, <2>8, <2>14, <2>15, <2>16, <2>17, <2>18,
         SlotLeft DEF A, C
<1>2. ASSUME Inv, NO_OF_TOKENS <= LINEUP_MAX,
             NEW k \in AnyOf(Cashiers, {"pass_wait"})
      PROVE  sq.empty > 0
  <2> DEFINE A == AnyOf(Cashiers, {"pass_lock", "pass_put"})
             C == AnyOf(Servers, {"pop_post"})
  <2>1. sq.empty \in Nat /\ ServiceStock \in Nat
    <3>1. /\ N(Cashiers, {"pass_post"}) \in Nat
          /\ N(Servers, {"pop_lock", "pop_take"}) \in Nat
        BY AnyOfFinite, KindsFinite
    <3>2. QED
        BY <1>2, <3>1, RingSizes DEF ServiceStock, Stock
  <2>2. IsFiniteSet(InService) /\ Cardinality(InService) = ServiceStock
      BY <1>2, <2>1, StoredCount DEF Inv, Rings, StoredOnce, InService
  <2>3. sq.empty + N(Cashiers, {"pass_lock", "pass_put"}) + ServiceStock
          + N(Servers, {"pop_post"}) = LINEUP_MAX
      BY <1>2 DEF Inv, Rings, ServiceBooks, Books, ServiceStock
  <2>4. /\ \A p \in A \union {k} : p \in Staff /\ order[p] # NoOrder /\ order[p] \in Carried
        /\ k \notin A /\ A \intersect C = {} /\ k \notin C
      BY <1>2, Facts, Disjoint DEF Inv, Hands, CashierHolds, HandUnserved, AnyOf
  <2>5. \A s \in C : s \in Staff /\ order[s] # NoOrder /\ order[s] \in Carried
      BY <1>2, Facts, Disjoint DEF Inv, Hands, ServerHolds, AnyOf
  <2>6. \A p, r \in A \union C \union {k} : order[p] = order[r] => p = r
      BY <1>2, <2>4, <2>5 DEF Inv, OneCopy
  <2>7. \A p \in A \union C \union {k} : order[p] \notin InService
      BY <1>2, <2>4, <2>5 DEF Inv, OneCopy
  <2>8. \A p \in A \union C \union {k} : \E d \in Holders : order[p] = order[d]
      BY <1>2, <2>4, <2>5, Facts
  <2>9. InService \in SUBSET {order[d] : d \in Holders}
      BY <1>2, HeldOrders, Facts
  <2>10. PICK x \in Holders : order[k] = order[x]
      BY <2>8
  <2> HIDE DEF A, C
  <2>11. /\ \A p, r \in A : order[p] = order[r] => p = r
         /\ \A p, r \in C : order[p] = order[r] => p = r
         /\ \A p \in A, r \in C : order[p] # order[r]
      BY <2>4, <2>6
  <2>12. /\ \A p \in A : order[p] # order[x]
         /\ \A p \in C : order[p] # order[x]
         /\ order[x] \notin InService
      BY <2>4, <2>6, <2>7, <2>10
  <2>13. QED
      BY <1>2, <2>1, <2>2, <2>3, <2>7, <2>8, <2>9, <2>11, <2>12, SlotLeft, KindsFinite
      DEF A, C
<1>3. Inv => RoomForEveryToken
    BY <1>1, <1>2 DEF RoomForEveryToken
<1>4. QED
    BY <1>3, RestaurantInvariant, PTL

(* Once every client has left, the shared segment is as it was before the *)
(* first came.                                                            *)
THEOREM ShopLeftClean == Spec => []CleanAtClosing
<1>1. ASSUME Inv, tester # "reap"
      PROVE  /\ tq.full = NO_OF_TOKENS /\ tq.empty = 0 /\ tq.lock = 1
             /\ lq.full = 0 /\ lq.empty = LINEUP_MAX /\ lq.lock = 1
             /\ sq.full = 0 /\ sq.empty = LINEUP_MAX /\ sq.lock = 1
             /\ \A t \in Tokens : sem_arr[t] = 1 /\ ct_assns[t] = Nobody
  <2>1. /\ \A c \in Clients : pc[c] = "done"
        /\ \A k \in Cashiers : pc[k] \in {"trypop", "break", "exited"}
        /\ \A s \in Servers : pc[s] \in {"pop_wait", "exited"}
      BY <1>1, IdleAtClosing DEF Inv, Closing
  <2>2. \A ps, places : AnyOf(ps, places) = {} => N(ps, places) = 0
      BY FS_EmptySet DEF N
  <2>3. /\ N(Clients, {"return_lock", "return_put"}) = 0 /\ N(Clients, {"return_post"}) = 0
        /\ N(Clients, {"get_lock", "get_take"}) = 0 /\ N(Clients, {"get_post"}) = 0
        /\ N(Clients, {"push_lock", "push_put"}) = 0 /\ N(Clients, {"push_post"}) = 0
        /\ AnyOf(Clients, {"return_put"}) = {} /\ AnyOf(Clients, {"get_take"}) = {}
        /\ AnyOf(Clients, {"push_put"}) = {}
      BY <2>1, <2>2 DEF AnyOf
  <2>4. /\ N(Cashiers, {"pop_lock", "pop_take"}) = 0 /\ N(Cashiers, {"pop_post"}) = 0
        /\ N(Cashiers, {"pass_lock", "pass_put"}) = 0 /\ N(Cashiers, {"pass_post"}) = 0
        /\ AnyOf(Cashiers, {"pop_take"}) = {} /\ AnyOf(Cashiers, {"pass_put"}) = {}
      BY <2>1, <2>2 DEF AnyOf
  <2>5. /\ N(Servers, {"pop_lock", "pop_take"}) = 0 /\ N(Servers, {"pop_post"}) = 0
        /\ AnyOf(Servers, {"pop_take"}) = {}
      BY <2>1, <2>2 DEF AnyOf
  <2>6. /\ tq.full \in Nat /\ tq.empty \in Nat /\ lq.full \in Nat /\ lq.empty \in Nat
        /\ sq.full \in Nat /\ sq.empty \in Nat
        /\ NO_OF_TOKENS \in Nat /\ LINEUP_MAX \in Nat
      BY <1>1, RingSizes
  <2>7. TokenStock = NO_OF_TOKENS
    <3>1. Cardinality(Holders) = 0
        BY <1>1, IdleAtClosing, FS_EmptySet
    <3>2. QED
        BY <1>1, <2>6, <3>1, TokenStockNat DEF Inv, Owned
  <2>8. tq.full = NO_OF_TOKENS /\ tq.empty = 0
    <3>1. TokenStock = tq.full + 0 + 0
        BY <2>3 DEF TokenStock, Stock
    <3>2. tq.empty + 0 + TokenStock + 0 = NO_OF_TOKENS
        BY <1>1, <2>3 DEF Inv, Rings, TokenBooks, Books, TokenStock
    <3>3. QED
        BY <2>6, <2>7, <3>1, <3>2
  <2>9. lq.full = 0 /\ lq.empty = LINEUP_MAX
    <3>1. LineStock = lq.full + 0 + 0 /\ LineStock = 0
        BY <1>1, <2>3, <2>4, IdleAtClosing DEF LineStock, Stock
    <3>2. lq.empty + 0 + LineStock + 0 = LINEUP_MAX
        BY <1>1, <2>3, <2>4 DEF Inv, Rings, LineBooks, Books, LineStock
    <3>3. QED
        BY <2>6, <3>1, <3>2
  <2>10. sq.full = 0 /\ sq.empty = LINEUP_MAX
    <3>1. ServiceStock = sq.full + 0 + 0 /\ ServiceStock = 0
        BY <1>1, <2>4, <2>5, IdleAtClosing DEF ServiceStock, Stock
    <3>2. sq.empty + 0 + ServiceStock + 0 = LINEUP_MAX
        BY <1>1, <2>4, <2>5 DEF Inv, Rings, ServiceBooks, Books, ServiceStock
    <3>3. QED
        BY <2>6, <3>1, <3>2
  <2>11. tq.lock = 1 /\ lq.lock = 1 /\ sq.lock = 1
      BY <1>1, <2>3, <2>4, <2>5 DEF Inv, Rings, TokenBooks, LineBooks, ServiceBooks, Books
  <2>12. Free = Tokens
    <3>1. IsFiniteSet(Free) /\ Cardinality(Free) = NO_OF_TOKENS
      <4>1. Distinct(tq, TokenStock, NO_OF_TOKENS)
          BY <1>1 DEF Inv, Rings, StoredOnce
      <4>2. QED
          BY <1>1, <2>7, <4>1, TokenStockNat, StoredCount DEF Free
    <3>2. Free \in SUBSET Tokens
        BY <1>1, StoredItems, RestaurantAssumption DEF Inv, TypeOK, Free
    <3>3. IsFiniteSet(Tokens) /\ Cardinality(Tokens) = NO_OF_TOKENS
      <4>1. 0 \in Int /\ NO_OF_TOKENS - 1 \in Int /\ NO_OF_TOKENS > 0
          BY RestaurantAssumption
      <4>2. IsFiniteSet(Tokens)
            /\ Cardinality(Tokens) = IF 0 > NO_OF_TOKENS - 1 THEN 0
                                     ELSE (NO_OF_TOKENS - 1) - 0 + 1
          BY <4>1, FS_Interval DEF Tokens
      <4>3. QED
          BY <2>6, <4>1, <4>2
    <3>4. QED
        BY <3>1, <3>2, <3>3, FS_Subset
  <2>13. \A t \in Tokens : sem_arr[t] = 1 /\ ct_assns[t] = Nobody
      BY <1>1, <2>12 DEF Inv, Balanced, Assigned
  <2>14. QED
      BY <2>8, <2>9, <2>10, <2>11, <2>13
<1>2. Inv => CleanAtClosing
    BY <1>1 DEF CleanAtClosing
<1>3. QED
    BY <1>2, RestaurantInvariant, PTL

-----------------------------------------------------------------------------
(* What a visit comes to: the report of the test driver, and the promise   *)
(* of Dining.                                                              *)
(*                                                                         *)
(* To the invariant this adds who has been served and whose purchase is on *)
(* the books.  A purchase is recorded before the order is passed on and    *)
(* the client's last signal is posted after that, so that a client never   *)
(* eats what is not on the books.                                          *)

(* Where a client stands in its visit. *)
Arriving == {"get_wait", "get_lock", "get_take", "get_post", "assign", "enter",
             "trypush", "push_lock", "push_put", "push_post"}
Eating   == {"wait_received", "read_received", "wait_processed",
             "read_processed", "wait_served", "read_served"}
Leaving  == {"restore_sender", "restore_signal", "return", "return_wait",
             "return_lock", "return_put"}
Gone     == {"return_post", "record_served", "record_entered", "done"}

Joining == {"push_lock", "push_put", "push_post"}

(* is_served is set once the client is in line. *)
Flags ==
    \A c \in Clients : /\ pc[c] \in Arriving => ~ is_served[c]
                       /\ pc[c] \in Eating   => is_served[c]

(* A cashier has these orders in hand before it records the purchase. *)
BeforeTill == HandUnreceived \union HandUnprocessed \union {"purchase"}

Unsold == InLine \union {order[k] : k \in AnyOf(Cashiers, BeforeTill)}

Sold == {c \in Clients : IF c \in Waiting THEN order[c] \notin Unsold
                                          ELSE is_served[c]}

SoldOf(i) == {c \in Sold : order[c].item = i}

(* The statistics say how many purchases there were, how many clients were *)
(* served, and how many came.                                              *)
Entered == AnyOf(Clients, {"done"})
Served  == {c \in AnyOf(Clients, {"record_entered", "done"}) : is_served[c]}

Counted ==
    /\ \A i \in MenuItems : st_p[i] = Cardinality(SoldOf(i))
    /\ total_entered = Cardinality(Entered)
    /\ total_served = Cardinality(Served)

(* Nobody is turned away but by clients that stay. *)
Refused == {c \in Clients : pc[c] \in Leaving \union Gone /\ ~ is_served[c]}

SomebodyStays ==
    Refused # {} => \E d \in Clients : is_served[d] \/ pc[d] \in Joining

Report == Flags /\ Counted /\ SomebodyStays

-----------------------------------------------------------------------------
(* What a client's step may change of what is counted. *)

Onward(here, there) ==
    \/ here = "get_wait" /\ there = "get_lock"
    \/ here = "get_lock" /\ there = "get_take"
    \/ here = "get_take" /\ there = "get_post"
    \/ here = "get_post" /\ there = "assign"
    \/ here = "assign" /\ there = "enter"
    \/ here = "enter" /\ there = "trypush"
    \/ here = "trypush" /\ there \in {"push_lock", "restore_sender"}
    \/ here = "push_lock" /\ there = "push_put"
    \/ here = "push_put" /\ there = "push_post"
    \/ here = "push_post" /\ there = "wait_received"
    \/ here = "wait_received" /\ there = "read_received"
    \/ here = "read_received" /\ there = "wait_processed"
    \/ here = "wait_processed" /\ there = "read_processed"
    \/ here = "read_processed" /\ there = "wait_served"
    \/ here = "wait_served" /\ there = "read_served"
    \/ here = "read_served" /\ there = "restore_sender"
    \/ here = "restore_sender" /\ there = "restore_signal"
    \/ here = "restore_signal" /\ there = "return"
    \/ here = "return" /\ there = "return_wait"
    \/ here = "return_wait" /\ there = "return_lock"
    \/ here = "return_lock" /\ there = "return_put"
    \/ here = "return_put" /\ there = "return_post"
    \/ here = "return_post" /\ there = "record_served"
    \/ here = "record_served" /\ there = "record_entered"
    \/ here = "record_entered" /\ there = "done"

VisitStep(c) ==
    /\ Onward(pc[c], pc'[c])
    /\ pc'[c] = "restore_sender" => pc[c] = "read_served" \/ lq.empty = 0
    /\ order'[c].item = order[c].item
    /\ pc[c] # "get_take" => order'[c] = order[c]
    /\ st_p' = st_p
    /\ \A d \in Clients \ {c} : is_served'[d] = is_served[d]
    /\ is_served'[c] = (is_served[c] \/ pc[c] = "push_post")
    /\ total_entered' = IF pc[c] = "record_entered" THEN total_entered + 1
                                                   ELSE total_entered
    /\ total_served' = IF pc[c] = "record_served" /\ is_served[c]
                         THEN total_served + 1 ELSE total_served

LEMMA ClientVisits ==
    ASSUME Inv, NEW c \in Clients, Client(c)
    PROVE  VisitStep(c)
<1> USE Disjoint DEF Goto, Hold, statVars, localVars, VisitStep, Onward
<1>a. /\ DOMAIN pc = Procs /\ DOMAIN order = Procs
      /\ is_served \in [Clients -> BOOLEAN] /\ c \in Procs
      /\ total_served \in Nat /\ total_entered \in Nat
    BY DEF Inv, TypeOK
<1>b. order[c] \in OrderType
    BY Facts
<1>c. pc[c] = "return" => ct_assns[order[c].token] = c
    BY Mine DEF Holders, AnyOf, Unassigned
<1>1. CASE GetTokenWait(c)
    BY <1>a, <1>b, <1>1 DEF GetTokenWait, UsesTokenQueue
<1>2. CASE GetTokenLock(c)
    BY <1>a, <1>b, <1>2 DEF GetTokenLock, UsesTokenQueue
<1>3. CASE GetTokenTake(c)
    BY <1>a, <1>b, <1>3 DEF GetTokenTake, UsesTokenQueue, Hold, OrderType
<1>4. CASE GetTokenPost(c)
    BY <1>a, <1>b, <1>4 DEF GetTokenPost, UsesTokenQueue
<1>5. CASE AssignToken(c)
    BY <1>a, <1>b, <1>5 DEF AssignToken
<1>6. CASE Enter(c)
    BY <1>a, <1>b, <1>6 DEF Enter, WaitForSignal
<1>7. CASE LineUp(c)
    BY <1>a, <1>b, <1>7 DEF LineUp, UsesLineupQueue
<1>8. CASE TurnAway(c)
    BY <1>a, <1>b, <1>8 DEF TurnAway, UsesLineupQueue
<1>9. CASE LineUpLock(c)
    BY <1>a, <1>b, <1>9 DEF LineUpLock, UsesLineupQueue
<1>10. CASE LineUpPut(c)
    BY <1>a, <1>b, <1>10 DEF LineUpPut, UsesLineupQueue
<1>11. CASE LineUpPost(c)
    BY <1>a, <1>b, <1>11 DEF LineUpPost, UsesLineupQueue
<1>12. CASE WaitReceived(c)
    BY <1>a, <1>b, <1>12 DEF WaitReceived, WaitForSignal
<1>13. CASE ReadReceived(c)
    BY <1>a, <1>b, <1>13 DEF ReadReceived, ReadSender
<1>14. CASE WaitProcessed(c)
    BY <1>a, <1>b, <1>14 DEF WaitProcessed, WaitForSignal
<1>15. CASE ReadProcessed(c)
    BY <1>a, <1>b, <1>15 DEF ReadProcessed, ReadSender
<1>16. CASE WaitServed(c)
    BY <1>a, <1>b, <1>16 DEF WaitServed, WaitForSignal
<1>17. CASE ReadServed(c)
    BY <1>a, <1>b, <1>17 DEF ReadServed, ReadSender
<1>18. CASE RestoreSender(c)
    BY <1>a, <1>b, <1>18 DEF RestoreSender, GiveSender
<1>19. CASE RestoreSignal(c)
    BY <1>a, <1>b, <1>19 DEF RestoreSignal, GiveSignal
<1>20. CASE ReturnToken(c)
    BY <1>a, <1>b, <1>c, <1>20 DEF ReturnToken
<1>21. CASE ReturnTokenWait(c)
    BY <1>a, <1>b, <1>21 DEF ReturnTokenWait, UsesTokenQueue
<1>22. CASE ReturnTokenLock(c)
    BY <1>a, <1>b, <1>22 DEF ReturnTokenLock, UsesTokenQueue
<1>23. CASE ReturnTokenPut(c)
    BY <1>a, <1>b, <1>23 DEF ReturnTokenPut, UsesTokenQueue
<1>24. CASE ReturnTokenPost(c)
    BY <1>a, <1>b, <1>24 DEF ReturnTokenPost, UsesTokenQueue
<1>25. CASE RecordServed(c)
    BY <1>a, <1>b, <1>25 DEF RecordServed
<1>26. CASE RecordEntered(c)
    BY <1>a, <1>b, <1>26 DEF RecordEntered
<1>27. QED
    BY <1>1, <1>2, <1>3, <1>4, <1>5, <1>6, <1>7, <1>8, <1>9,
       <1>10, <1>11, <1>12, <1>13, <1>14, <1>15, <1>16, <1>17, <1>18,
       <1>19, <1>20, <1>21, <1>22, <1>23, <1>24, <1>25, <1>26 DEF Client

-----------------------------------------------------------------------------
(* A cashier's step: an order comes into its hand, stays there, or leaves  *)
(* it for the till.                                                        *)

TillStep(k) ==
    /\ \/ pc[k] \in BeforeTill \ {"purchase"} /\ pc'[k] \in BeforeTill
          /\ order'[k] = order[k]
       \/ pc[k] = "purchase" /\ pc'[k] \notin BeforeTill
       \/ pc[k] = "pop_take" /\ pc'[k] \in BeforeTill
       \/ pc[k] \notin BeforeTill \union {"pop_take"} /\ pc'[k] \notin BeforeTill
    /\ st_p' = IF pc[k] = "purchase" THEN [st_p EXCEPT ![order[k].item] = @ + 1]
                                     ELSE st_p
    /\ UNCHANGED <<is_served, total_served, total_entered>>

LEMMA CashierTills ==
    ASSUME Inv, NEW k \in Cashiers, Cashier(k)
    PROVE  TillStep(k)
<1> USE Disjoint DEF Goto, Hold, statVars, localVars, TillStep, BeforeTill,
        HandUnreceived, HandUnprocessed
<1>a. /\ DOMAIN pc = Procs /\ DOMAIN order = Procs
    BY DEF Inv, TypeOK
<1>1. CASE TakeOrder(k)
    BY <1>a, <1>1 DEF TakeOrder, CashierUsesQueue
<1>2. CASE TakeBreak(k)
    BY <1>a, <1>2 DEF TakeBreak, CashierUsesQueue
<1>3. CASE EndBreak(k)
    BY <1>a, <1>3 DEF EndBreak, CashierUsesQueue
<1>4. CASE TakeOrderLock(k)
    BY <1>a, <1>4 DEF TakeOrderLock, CashierUsesQueue
<1>5. CASE TakeOrderTake(k)
    BY <1>a, <1>5 DEF TakeOrderTake, CashierUsesQueue
<1>6. CASE TakeOrderPost(k)
    BY <1>a, <1>6 DEF TakeOrderPost, CashierUsesQueue
<1>7. CASE ReceivedSender(k)
    BY <1>a, <1>7 DEF ReceivedSender, GiveSender
<1>8. CASE ReceivedSignal(k)
    BY <1>a, <1>8 DEF ReceivedSignal, GiveSignal
<1>9. CASE ProcessedSender(k)
    BY <1>a, <1>9 DEF ProcessedSender, GiveSender
<1>10. CASE ProcessedSignal(k)
    BY <1>a, <1>10 DEF ProcessedSignal, GiveSignal
<1>11. CASE RecordPurchase(k)
    BY <1>a, <1>11 DEF RecordPurchase
<1>12. CASE PassOrderWait(k)
    BY <1>a, <1>12 DEF PassOrderWait, CashierUsesQueue
<1>13. CASE PassOrderLock(k)
    BY <1>a, <1>13 DEF PassOrderLock, CashierUsesQueue
<1>14. CASE PassOrderPut(k)
    BY <1>a, <1>14 DEF PassOrderPut, CashierUsesQueue
<1>15. CASE PassOrderPost(k)
    BY <1>a, <1>15 DEF PassOrderPost, CashierUsesQueue
<1>16. QED
    BY <1>1, <1>2, <1>3, <1>4, <1>5, <1>6, <1>7, <1>8, <1>9,
       <1>10, <1>11, <1>12, <1>13, <1>14, <1>15 DEF Cashier

(* The rest of the system neither sells nor counts. *)
Uncounted ==
    /\ UNCHANGED <<st_p, total_served, total_entered, is_served>>
    /\ \A c \in Clients : pc'[c] = pc[c] /\ order'[c] = order[c]
    /\ \A k \in Cashiers : /\ order'[k] = order[k]
                           /\ pc'[k] \in BeforeTill <=> pc[k] \in BeforeTill

LEMMA OthersUncounted ==
    ASSUME Inv,
           \/ \E s \in Servers : Server(s)
           \/ \E th \in threads : ServeOrder(th)
           \/ \E s \in Staff : HandleUSR1(s)
           \/ Driver \/ UNCHANGED vars
    PROVE  Uncounted /\ InLine' = InLine
<1> USE Disjoint
<1>1. ASSUME NEW s \in Servers, Server(s)
      PROVE  Uncounted /\ InLine' = InLine
  <2>1. MovesAlone(s)
      BY <1>1, ServerFrame DEF ServerMoves
  <2>2. UNCHANGED <<st_p, total_served, total_entered, is_served>>
      BY <1>1 DEF Server, ServerPopWait, ServerPopLock, ServerPopTake, ServerPopPost,
                  Spawn, ServerUsesQueue, statVars
  <2>3. LineKept
      BY <1>1, ServerQuiet, StaffOtherRings DEF Server, Quiet, RingsKept
  <2>4. QED
      BY <2>1, <2>2, <2>3 DEF Uncounted, MovesAlone, LineKept
<1>2. ASSUME NEW th \in threads, ServeOrder(th)
      PROVE  Uncounted /\ InLine' = InLine
  <2>1. UNCHANGED <<st_p, total_served, total_entered, is_served, pc, order, tq, lq, sq>>
      BY <1>2 DEF ServeOrder, ServedSender, ServedSignal, statVars, localVars, tokenVars
  <2>2. RingsKept
      BY <2>1, UntouchedIsKept
  <2>3. QED
      BY <2>1, <2>2 DEF Uncounted, RingsKept, LineKept
<1>3. ASSUME NEW s \in Staff, HandleUSR1(s)
      PROVE  Uncounted /\ InLine' = InLine
  <2>1. /\ Quiet /\ MovesAlone(s) /\ pc'[s] = "exited" /\ order' = order
        /\ pc[s] \in {"trypop", "break", "pop_wait"}
      BY <1>3, KilledIdle
  <2>2. UNCHANGED <<st_p, total_served, total_entered, is_served>>
      BY <1>3 DEF HandleUSR1, statVars, localVars
  <2>3. QED
      BY <2>1, <2>2 DEF Uncounted, MovesAlone, Quiet, RingsKept, LineKept, BeforeTill,
                        HandUnreceived, HandUnprocessed
<1>4. CASE Driver \/ UNCHANGED vars
  <2>1. Quiet /\ UNCHANGED <<pc, order>>
      BY <1>4, DriverQuiet
  <2>2. UNCHANGED <<st_p, total_served, total_entered, is_served>>
      BY <1>4 DEF Driver, Reap, Kill, vars, statVars, localVars
  <2>3. QED
      BY <2>1, <2>2 DEF Uncounted, Quiet, RingsKept, LineKept
<1>5. QED
    BY <1>1, <1>2, <1>3, <1>4

(* How the line changes, and with it the orders not yet on the books. *)
LEMMA ClientLine ==
    ASSUME Inv, NEW c \in Clients, Client(c)
    PROVE  /\ InLine' = IF pc[c] = "push_put" THEN InLine \union {order[c]} ELSE InLine
           /\ Unsold' = IF pc[c] = "push_put" THEN Unsold \union {order[c]} ELSE Unsold
<1>1. pc[c] = "push_put" <=> LineUpPut(c)
    BY DEF Client, GetTokenWait, GetTokenLock, GetTokenTake, GetTokenPost, AssignToken,
       Enter, LineUp, TurnAway, LineUpLock, LineUpPut, LineUpPost, WaitReceived,
       ReadReceived, WaitProcessed, ReadProcessed, WaitServed, ReadServed,
       RestoreSender, RestoreSignal, ReturnToken, ReturnTokenWait, ReturnTokenLock,
       ReturnTokenPut, ReturnTokenPost, RecordServed, RecordEntered, WaitForSignal,
       ReadSender, GiveSender, GiveSignal, Goto
<1>2. InLine' = IF pc[c] = "push_put" THEN InLine \union {order[c]} ELSE InLine
  <2>1. CASE LineUpPut(c)
    <3>1. order[c] \in OrderType \union {NoOrder}
        BY Facts
    <3>2. InLine' = InLine \union {order[c]}
        BY <2>1, <3>1, LineRingPut DEF LineUpPut
    <3>3. QED
        BY <1>1, <2>1, <3>2
  <2>2. CASE ~ LineUpPut(c)
    <3>1. LineKept
        BY <2>2, ClientQuiet, ClientRingsKept, OtherRings DEF Client, Quiet, RingsKept
    <3>2. QED
        BY <1>1, <2>2, <3>1 DEF LineKept
  <2>3. QED
      BY <2>1, <2>2
<1>3. \A k \in Cashiers : pc'[k] = pc[k] /\ order'[k] = order[k]
    BY ClientFrame, Disjoint DEF ClientMoves, MovesAlone
<1>4. QED
    BY <1>2, <1>3 DEF Unsold, AnyOf

LEMMA CashierLine ==
    ASSUME Inv, NEW k \in Cashiers, Cashier(k)
    PROVE  Unsold' = IF pc[k] = "purchase" THEN Unsold \ {order[k]} ELSE Unsold
<1>1. pc[k] = "pop_take" <=> TakeOrderTake(k)
    BY DEF Cashier, TakeOrder, TakeBreak, EndBreak, TakeOrderLock, TakeOrderTake,
       TakeOrderPost, ReceivedSender, ReceivedSignal, ProcessedSender, ProcessedSignal,
       RecordPurchase, PassOrderWait, PassOrderLock, PassOrderPut, PassOrderPost,
       GiveSender, GiveSignal, Goto
<1>2. /\ pc[k] = "pop_take" => order'[k] \in InLine /\ InLine' = InLine \ {order'[k]}
      /\ pc[k] # "pop_take" => InLine' = InLine
  <2>1. CASE TakeOrderTake(k)
    <3>1. ReadSlot(lq) \in InLine /\ InLine' = InLine \ {ReadSlot(lq)}
        BY <2>1, LineRingTake DEF TakeOrderTake
    <3>2. order'[k] = ReadSlot(lq)
        BY <2>1, Disjoint DEF TakeOrderTake, Hold, Inv, TypeOK
    <3>3. QED
        BY <1>1, <2>1, <3>1, <3>2
  <2>2. CASE ReceivedSignal(k) \/ ProcessedSignal(k)
    <3>1. Goto(k, pc[k], pc'[k]) /\ LineRing(k, pc[k], pc'[k])
        BY <2>2, Disjoint DEF ReceivedSignal, ProcessedSignal, GiveSignal, Goto, LineRing,
           RingStep, Inv, TypeOK
    <3>2. LineKept
        BY <3>1, LineRingKept, Disjoint
    <3>3. QED
        BY <1>1, <2>2, <3>2 DEF LineKept, ReceivedSignal, ProcessedSignal, GiveSignal, Goto
  <2>3. CASE ~ (TakeOrderTake(k) \/ ReceivedSignal(k) \/ ProcessedSignal(k))
    <3>1. LineKept
        BY <2>3, CashierQuiet, StaffOtherRings DEF Cashier, Quiet, RingsKept
    <3>2. QED
        BY <1>1, <2>3, <3>1 DEF LineKept
  <2>4. QED
      BY <2>1, <2>2, <2>3
<1>3. /\ TillStep(k)
      /\ \A j \in Cashiers \ {k} : pc'[j] = pc[j] /\ order'[j] = order[j]
    BY CashierTills, CashierFrame, Disjoint DEF CashierMoves, MovesAlone
<1>4. pc[k] = "purchase" =>
         /\ order[k] \notin InLine
         /\ \A j \in Cashiers \ {k} : order[j] # order[k]
    BY Disjoint DEF Inv, Hands, CashierHolds, HandUnserved, OneCopy
<1>5. QED
    BY <1>2, <1>3, <1>4 DEF Unsold, AnyOf, TillStep, BeforeTill, HandUnreceived, HandUnprocessed

-----------------------------------------------------------------------------
(* Who is on the books. *)

LEMMA UnsoldCarried == ASSUME Inv PROVE Unsold \in SUBSET Carried
<1>1. \A k \in AnyOf(Cashiers, BeforeTill) : k \in Staff /\ order[k] # NoOrder
    BY Disjoint DEF AnyOf, BeforeTill, Inv, Hands, CashierHolds, HandUnserved
<1>2. QED
    BY <1>1, Facts DEF Unsold

(* The last signal comes when the order is on its way no more. *)
LEMMA LastSignal ==
    ASSUME Inv, NEW c \in Clients, WaitServed(c)
    PROVE  order[c] \notin Carried
<1>1. /\ c \in Holders /\ pc[c] = "wait_served"
      /\ sem_arr[order[c].token] \in Nat \ {0}
    BY Waits DEF WaitServed
<1>2. Taken(c) = 2
    BY <1>1 DEF Taken
<1>3. Signals(order[c]) = sem_arr[order[c].token] + 2
    BY <1>2, Facts DEF Signals
<1>4. QED
    BY <1>1, <1>3, SignalsSoFar

LEMMA AtWaitServed ==
    ASSUME NEW c \in Clients, Client(c), pc[c] = "wait_served"
    PROVE  WaitServed(c)
BY DEF Client, GetTokenWait, GetTokenLock, GetTokenTake, GetTokenPost,
       AssignToken, Enter, LineUp, TurnAway, LineUpLock, LineUpPut, LineUpPost,
       WaitReceived, ReadReceived, WaitProcessed, ReadProcessed, ReadServed,
       RestoreSender, RestoreSignal, ReturnToken, ReturnTokenWait, ReturnTokenLock,
       ReturnTokenPut, ReturnTokenPost, RecordServed, RecordEntered, WaitForSignal,
       ReadSender, GiveSender, GiveSignal, Goto

(* The purchases of a client's step are those of the state before. *)
LEMMA ClientSold ==
    ASSUME Inv, Flags, NEW c \in Clients, Client(c)
    PROVE  /\ Sold' = Sold
           /\ \A d \in Clients : order'[d].item = order[d].item
<1>1. VisitStep(c) /\ MovesAlone(c)
    BY ClientVisits, ClientFrame DEF ClientMoves
<1>2. \A d \in Clients \ {c} : pc'[d] = pc[d] /\ order'[d] = order[d]
    BY <1>1, Disjoint DEF MovesAlone
<1>3. \A d \in Clients : order'[d].item = order[d].item
    BY <1>1, <1>2 DEF VisitStep
<1>4. Unsold' = IF pc[c] = "push_put" THEN Unsold \union {order[c]} ELSE Unsold
    BY ClientLine
<1>5. \A d \in Clients \ {c} : d \in Sold' <=> d \in Sold
  <2>1. \A d \in Clients \ {c} : order[d] # order[c]
      BY Facts
  <2>2. QED
      BY <1>1, <1>2, <1>4, <2>1 DEF Sold, Waiting, AnyOf, VisitStep
<1>6. c \in Sold' <=> c \in Sold
  <2>1. CASE pc[c] = "push_put"
      BY <1>1, <1>4, <2>1 DEF Flags, Arriving, Sold, Waiting, AnyOf, VisitStep, Onward
  <2>2. CASE pc[c] = "wait_served"
    <3>1. WaitServed(c)
        BY <2>2, AtWaitServed
    <3>2. order[c] \notin Carried
        BY <3>1, LastSignal
    <3>3. c \in Sold
        BY <2>2, <3>2, UnsoldCarried DEF Sold, Waiting, AnyOf
    <3>4. c \in Sold'
        BY <1>1, <2>2 DEF Flags, Eating, Sold, Waiting, AnyOf, VisitStep, Onward
    <3>5. QED
        BY <3>3, <3>4
  <2>3. CASE pc[c] \notin {"push_put", "wait_served"}
    <3>1. Unsold' = Unsold
        BY <1>4, <2>3
    <3>2. c \in Waiting' <=> c \in Waiting
        BY <1>1, <2>3 DEF Waiting, AnyOf, VisitStep, Onward
    <3>3. c \in Waiting => order'[c] = order[c]
        BY <1>1 DEF VisitStep, Waiting, AnyOf
    <3>4. c \notin Waiting => is_served'[c] = is_served[c]
        BY <1>1 DEF VisitStep, Waiting, AnyOf, Inv, TypeOK
    <3>5. QED
        BY <3>1, <3>2, <3>3, <3>4 DEF Sold
  <2>4. QED
      BY <2>1, <2>2, <2>3
<1>7. Sold' = Sold
    BY <1>5, <1>6 DEF Sold
<1>8. QED
    BY <1>3, <1>7

(* A purchase is that of one client, who is not on the books yet. *)
LEMMA CashierSold ==
    ASSUME Inv, NEW k \in Cashiers, Cashier(k)
    PROVE  /\ pc[k] # "purchase" => Sold' = Sold
           /\ pc[k] = "purchase" =>
                /\ order[k].client \in Waiting \ Sold
                /\ Sold' = Sold \union {order[k].client}
                /\ order[order[k].client] = order[k]
           /\ \A d \in Clients : order'[d] = order[d] /\ pc'[d] = pc[d]
<1>1. TillStep(k) /\ MovesAlone(k)
    BY CashierTills, CashierFrame DEF CashierMoves
<1>2. \A d \in Clients : pc'[d] = pc[d] /\ order'[d] = order[d]
    BY <1>1, Disjoint DEF MovesAlone
<1>3. Waiting' = Waiting /\ is_served' = is_served
    BY <1>1, <1>2 DEF Waiting, AnyOf, TillStep
<1>4. Unsold' = IF pc[k] = "purchase" THEN Unsold \ {order[k]} ELSE Unsold
    BY CashierLine
<1>5. CASE pc[k] # "purchase"
    BY <1>2, <1>3, <1>4, <1>5 DEF Sold
<1>6. CASE pc[k] = "purchase"
  <2>1. order[k] \in Carried /\ order[k] \in Unsold
      BY <1>6, Facts, Disjoint
      DEF Inv, Hands, CashierHolds, HandUnserved, Unsold, AnyOf, BeforeTill
  <2>2. PICK c \in Waiting : c = order[k].client /\ order[c] = order[k]
      BY <2>1, Facts
  <2>3. c \notin Sold /\ c \in Clients
      BY <2>1, <2>2, Facts DEF Sold
  <2>4. \A d \in Clients \ {c} : order[d] # order[k]
      BY <2>2, <2>3, Facts
  <2>5. Sold' = Sold \union {c}
      BY <1>2, <1>3, <1>4, <1>6, <2>2, <2>3, <2>4 DEF Sold
  <2>6. QED
      BY <1>2, <1>6, <2>2, <2>3, <2>5
<1>7. QED
    BY <1>5, <1>6

LEMMA OthersSold ==
    ASSUME Inv, Uncounted, InLine' = InLine
    PROVE  Sold' = Sold /\ \A d \in Clients : order'[d].item = order[d].item
<1>1. Waiting' = Waiting
    BY DEF Uncounted, Waiting, AnyOf
<1>2. Unsold' = Unsold
    BY DEF Uncounted, Unsold, AnyOf
<1>3. QED
    BY <1>1, <1>2 DEF Uncounted, Sold

-----------------------------------------------------------------------------
(* A full line is full of clients that nobody has received. *)

InLineClients == AnyOf(Clients, Joining \union {"wait_received"})

LEMMA NotReceived ==
    ASSUME Inv, NEW o \in Carried, Signals(o) = 0
    PROVE  \E c \in InLineClients \ AnyOf(Clients, {"push_lock", "push_put"}) : o = order[c]
<1>1. PICK c \in Waiting : o = order[c] /\ o.client = c
    BY Facts
<1>2. c \in Clients /\ order[c].token \in Tokens
    BY Facts
<1>3. sem_arr[o.token] \in Nat /\ Taken(c) \in Nat
    BY <1>1, <1>2, TakenRange DEF Inv, TypeOK
<1>4. Taken(c) = 0
    BY <1>1, <1>3 DEF Signals
<1>5. pc[c] \in {"push_post", "wait_received"}
    BY <1>4 DEF Taken, Waiting, AnyOf
<1>6. QED
    BY <1>1, <1>2, <1>5 DEF InLineClients, Joining, AnyOf

LEMMA FullLine ==
    ASSUME Inv, lq.empty = 0
    PROVE  LINEUP_MAX <= Cardinality(InLineClients)
<1> DEFINE A == {order[c] : c \in AnyOf(Clients, {"push_lock", "push_put"})}
           C == {order[k] : k \in AnyOf(Cashiers, {"pop_post"})}
           U == {order[c] : c \in InLineClients}
<1>1. IsFiniteSet(U) /\ Cardinality(U) = Cardinality(InLineClients)
  <2>1. \A c, d \in AnyOf(Clients, Joining \union {"wait_received"}) :
           order[c] = order[d] => c = d
      BY Facts DEF AnyOf
  <2>2. QED
      BY <2>1, OrdersCount, KindsFinite DEF InLineClients, N
<1>2. Cardinality(A) = N(Clients, {"push_lock", "push_put"})
  <2>1. \A c, d \in AnyOf(Clients, {"push_lock", "push_put"}) :
           order[c] = order[d] => c = d
      BY Facts DEF AnyOf
  <2>2. QED
      BY <2>1, OrdersCount, KindsFinite
<1>3. \A k \in AnyOf(Cashiers, {"pop_post"}) :
         k \in Staff /\ order[k] # NoOrder /\ order[k] \in Carried /\ Signals(order[k]) = 0
    BY Facts, Disjoint DEF AnyOf, Inv, Hands, CashierHolds, HandUnreceived, Balanced
<1>4. Cardinality(C) = N(Cashiers, {"pop_post"})
  <2>1. \A j, k \in AnyOf(Cashiers, {"pop_post"}) : order[j] = order[k] => j = k
      BY <1>3 DEF Inv, OneCopy
  <2>2. QED
      BY <2>1, OrdersCount, KindsFinite
<1>5. /\ N(Clients, {"push_post"}) \in Nat /\ N(Cashiers, {"pop_lock", "pop_take"}) \in Nat
      /\ N(Clients, {"push_lock", "push_put"}) \in Nat /\ N(Cashiers, {"pop_post"}) \in Nat
    BY AnyOfFinite, KindsFinite
<1>6. LineStock \in Nat /\ LINEUP_MAX \in Nat
    BY <1>5, RingSizes DEF LineStock, Stock
<1>7. IsFiniteSet(InLine) /\ Cardinality(InLine) = LineStock
    BY <1>6, StoredCount DEF Inv, Rings, StoredOnce, InLine
<1>8. /\ \A o \in InLine : o \in Carried /\ Signals(o) = 0
      /\ \A k \in AnyOf(Cashiers, {"pop_post"}) : order[k] \notin InLine
    BY <1>3, Facts DEF Inv, Balanced, OneCopy
<1>9. A \in SUBSET U /\ A \intersect Carried = {}
  <2>1. \A c \in AnyOf(Clients, {"push_lock", "push_put"}) :
           c \in InLineClients /\ c \in Clients /\ c \notin Waiting
      BY DEF AnyOf, InLineClients, Joining, Waiting
  <2>2. \A c \in AnyOf(Clients, {"push_lock", "push_put"}) : order[c] \notin Carried
      BY <2>1, Facts
  <2>3. QED
      BY <2>1, <2>2
<1>10. InLine \in SUBSET U /\ C \in SUBSET U
    BY <1>3, <1>8, NotReceived
<1>11. A \intersect InLine = {} /\ A \intersect C = {} /\ InLine \intersect C = {}
    BY <1>3, <1>8, <1>9
<1> HIDE DEF A, C, U
<1>12. Cardinality(A) + Cardinality(InLine) + Cardinality(C) <= Cardinality(U)
    BY <1>1, <1>9, <1>10, <1>11, ThreeParts
<1>13. 0 + N(Clients, {"push_lock", "push_put"}) + LineStock + N(Cashiers, {"pop_post"})
         = LINEUP_MAX
    BY DEF Inv, Rings, LineBooks, Books, LineStock
<1>14. N(Clients, {"push_lock", "push_put"}) + LineStock + N(Cashiers, {"pop_post"})
         <= Cardinality(InLineClients)
    BY <1>1, <1>2, <1>4, <1>7, <1>12
<1>15. QED
    BY <1>5, <1>6, <1>13, <1>14

-----------------------------------------------------------------------------
(* The report grows with every step as the clients and the tills do. *)

LEMMA SoldFinite ==
    /\ IsFiniteSet(Sold) /\ \A i : IsFiniteSet(SoldOf(i))
    /\ IsFiniteSet(Entered) /\ IsFiniteSet(Served)
<1>1. IsFiniteSet(Clients)
    BY RestaurantAssumption
<1>2. /\ Sold \in SUBSET Clients /\ \A i : SoldOf(i) \in SUBSET Clients
      /\ Entered \in SUBSET Clients /\ Served \in SUBSET Clients
    BY DEF Sold, SoldOf, Entered, Served, AnyOf
<1>3. QED
    BY <1>1, <1>2, FS_Subset

LEMMA SameSales ==
    ASSUME Counted, Sold' = Sold, \A c \in Clients : order'[c].item = order[c].item,
           st_p' = st_p
    PROVE  \A i \in MenuItems : st_p'[i] = Cardinality(SoldOf(i)')
<1>1. \A i : SoldOf(i)' = SoldOf(i)
    BY DEF SoldOf, Sold
<1>2. QED
    BY <1>1 DEF Counted

LEMMA ClientReport ==
    ASSUME Inv, Report, NEW c \in Clients, Client(c)
    PROVE  Report'
<1>1. VisitStep(c) /\ MovesAlone(c)
    BY ClientVisits, ClientFrame DEF ClientMoves
<1>2. \A d \in Clients \ {c} :
         pc'[d] = pc[d] /\ order'[d] = order[d] /\ is_served'[d] = is_served[d]
    BY <1>1, Disjoint DEF MovesAlone, VisitStep
<1>3. Flags'
    BY <1>1, <1>2 DEF Report, Flags, VisitStep, Onward, Arriving, Eating
<1>4. \A i \in MenuItems : st_p'[i] = Cardinality(SoldOf(i)')
    BY <1>1, ClientSold, SameSales DEF Report, VisitStep
<1>5. total_entered' = Cardinality(Entered')
  <2>1. Entered' = IF pc[c] = "record_entered" THEN Entered \union {c} ELSE Entered
      BY <1>1, <1>2 DEF Entered, AnyOf, VisitStep, Onward
  <2>2. pc[c] = "record_entered" => c \notin Entered
      BY DEF Entered, AnyOf
  <2>3. pc[c] = "record_entered" => Cardinality(Entered \union {c}) = Cardinality(Entered) + 1
      BY <2>2, SoldFinite, FS_AddElement
  <2>4. QED
      BY <1>1, <2>1, <2>3 DEF Report, Counted, VisitStep
<1>6. total_served' = Cardinality(Served')
  <2>1. Served' = IF pc[c] = "record_served" /\ is_served[c] THEN Served \union {c} ELSE Served
    <3>1. \A d \in Clients \ {c} : d \in Served' <=> d \in Served
        BY <1>2 DEF Served, AnyOf
    <3>2. c \in Served' <=> c \in Served \/ (pc[c] = "record_served" /\ is_served[c])
        BY <1>1 DEF Served, AnyOf, VisitStep, Onward, Report, Flags, Eating, Arriving
    <3>3. QED
        BY <3>1, <3>2 DEF Served, AnyOf
  <2>2. pc[c] = "record_served" => c \notin Served
      BY DEF Served, AnyOf
  <2>3. pc[c] = "record_served" => Cardinality(Served \union {c}) = Cardinality(Served) + 1
      BY <2>2, SoldFinite, FS_AddElement
  <2>4. QED
      BY <1>1, <2>1, <2>3 DEF Report, Counted, VisitStep
<1>7. SomebodyStays'
  <2>1. ASSUME NEW d \in Clients, is_served[d] \/ pc[d] \in Joining
        PROVE  is_served'[d] \/ pc'[d] \in Joining
      BY <1>1, <1>2, <2>1 DEF VisitStep, Onward, Joining
  <2>2. CASE Refused # {}
      BY <2>1, <2>2 DEF Report, SomebodyStays
  <2>3. CASE lq.empty = 0
    <3>1. InLineClients # {}
      <4>1. LINEUP_MAX <= Cardinality(InLineClients) /\ LINEUP_MAX \in Nat /\ LINEUP_MAX > 0
          BY <2>3, FullLine, RestaurantAssumption
      <4>2. QED
          BY <4>1, FS_EmptySet
    <3>2. \E d \in Clients : is_served[d] \/ pc[d] \in Joining
        BY <3>1 DEF InLineClients, AnyOf, Report, Flags, Eating
    <3>3. QED
        BY <2>1, <3>2 DEF SomebodyStays
  <2>4. CASE Refused = {} /\ lq.empty # 0
    <3>1. \A d \in Clients \ {c} : d \notin Refused'
        BY <1>2, <2>4 DEF Refused
    <3>2. c \notin Refused'
        BY <1>1, <2>4 DEF Refused, VisitStep, Onward, Report, Flags, Eating, Leaving, Gone
    <3>3. Refused' = {}
        BY <3>1, <3>2 DEF Refused
    <3>4. QED
        BY <3>3 DEF SomebodyStays
  <2>5. QED
      BY <2>2, <2>3, <2>4
<1>8. QED
    BY <1>3, <1>4, <1>5, <1>6, <1>7 DEF Report, Counted

LEMMA SameVisits ==
    ASSUME Report, UNCHANGED <<total_served, total_entered, is_served>>,
           \A c \in Clients : pc'[c] = pc[c]
    PROVE  /\ Flags' /\ SomebodyStays'
           /\ total_entered' = Cardinality(Entered') /\ total_served' = Cardinality(Served')
<1>1. Flags'
    BY DEF Report, Flags
<1>2. Entered' = Entered /\ Served' = Served /\ Refused' = Refused
    BY DEF Entered, Served, Refused, AnyOf
<1>3. SomebodyStays'
    BY <1>2 DEF Report, SomebodyStays
<1>4. QED
    BY <1>1, <1>2, <1>3 DEF Report, Counted

LEMMA CashierReport ==
    ASSUME Inv, Report, NEW k \in Cashiers, Cashier(k)
    PROVE  Report'
<1>1. TillStep(k) /\ \A c \in Clients : order'[c] = order[c] /\ pc'[c] = pc[c]
    BY CashierTills, CashierSold
<1>2. /\ Flags' /\ SomebodyStays'
      /\ total_entered' = Cardinality(Entered') /\ total_served' = Cardinality(Served')
    BY <1>1, SameVisits DEF TillStep
<1>3. \A i \in MenuItems : st_p'[i] = Cardinality(SoldOf(i)')
  <2>1. CASE pc[k] # "purchase"
      BY <1>1, <2>1, CashierSold, SameSales DEF TillStep, Report
  <2>2. CASE pc[k] = "purchase"
    <3>1. PICK c \in Waiting \ Sold :
             Sold' = Sold \union {c} /\ order[c] = order[k]
        BY <2>2, CashierSold
    <3>2. c \in Clients /\ order[c] \in OrderType
        BY Facts DEF Waiting, AnyOf
    <3>3. order[k].item \in MenuItems /\ st_p \in [MenuItems -> Nat]
        BY <3>1, <3>2 DEF OrderType, Inv, TypeOK
    <3>4. st_p' = [st_p EXCEPT ![order[k].item] = @ + 1]
        BY <1>1, <2>2 DEF TillStep
    <3>5. \A i : SoldOf(i)' = IF i = order[k].item THEN SoldOf(i) \union {c} ELSE SoldOf(i)
      <4>1. \A i : SoldOf(i)' = {d \in Sold' : order[d].item = i}
          BY <1>1 DEF SoldOf, Sold
      <4>2. QED
          BY <3>1, <4>1 DEF SoldOf
    <3>6. \A i : Cardinality(SoldOf(i) \union {c}) = Cardinality(SoldOf(i)) + 1
      <4>1. \A i : c \notin SoldOf(i)
          BY <3>1 DEF SoldOf
      <4>2. QED
          BY <4>1, SoldFinite, FS_AddElement
    <3>7. QED
        BY <3>3, <3>4, <3>5, <3>6 DEF Report, Counted
  <2>3. QED
      BY <2>1, <2>2
<1>4. QED
    BY <1>2, <1>3 DEF Report, Counted

LEMMA InitReport == Init => Report
<1> SUFFICES ASSUME Init PROVE Report
    OBVIOUS
<1>1. \A c \in Clients : pc[c] = "get_wait" /\ is_served[c] = FALSE
    BY Disjoint DEF Init
<1>2. Sold = {} /\ Entered = {} /\ Served = {} /\ Refused = {}
    BY <1>1 DEF Sold, Entered, Served, Refused, Waiting, AnyOf, Leaving, Gone
<1>3. \A i : SoldOf(i) = {}
    BY <1>2 DEF SoldOf
<1>4. Flags /\ SomebodyStays
    BY <1>1, <1>2 DEF Flags, SomebodyStays, Arriving, Eating
<1>5. Counted
    BY <1>2, <1>3, FS_EmptySet DEF Init, Counted
<1>6. QED
    BY <1>4, <1>5 DEF Report

LEMMA ReportKept ==
    ASSUME Inv, Report, [Next]_vars
    PROVE  Report'
<1>1. CASE Someone
  <2>1. CASE \E c \in Clients : Client(c)
      BY <2>1, ClientReport
  <2>2. CASE \E k \in Cashiers : Cashier(k)
      BY <2>2, CashierReport
  <2>3. CASE (\E s \in Servers : Server(s)) \/ (\E th \in threads : ServeOrder(th))
    <3>1. Uncounted /\ InLine' = InLine
        BY <2>3, OthersUncounted
    <3>2. /\ Flags' /\ SomebodyStays'
          /\ total_entered' = Cardinality(Entered') /\ total_served' = Cardinality(Served')
        BY <3>1, SameVisits DEF Uncounted
    <3>3. \A i \in MenuItems : st_p'[i] = Cardinality(SoldOf(i)')
        BY <3>1, OthersSold, SameSales DEF Uncounted, Report
    <3>4. QED
        BY <3>2, <3>3 DEF Report, Counted
  <2>4. QED
      BY <1>1, <2>1, <2>2, <2>3 DEF Someone
<1>2. CASE (\E s \in Staff : HandleUSR1(s)) \/ Driver \/ UNCHANGED vars
  <2>1. Uncounted /\ InLine' = InLine
      BY <1>2, OthersUncounted
  <2>2. /\ Flags' /\ SomebodyStays'
        /\ total_entered' = Cardinality(Entered') /\ total_served' = Cardinality(Served')
      BY <2>1, SameVisits DEF Uncounted
  <2>3. \A i \in MenuItems : st_p'[i] = Cardinality(SoldOf(i)')
      BY <2>1, OthersSold, SameSales DEF Uncounted, Report
  <2>4. QED
      BY <2>2, <2>3 DEF Report, Counted
<1>3. QED
    BY <1>1, <1>2, NextSplits

(* At any moment the statistics are those of the clients on the books, of  *)
(* the clients counted as served and of those that have left; and whoever  *)
(* was turned away, somebody stays.                                        *)
THEOREM ReportInvariant == Spec => []Report
<1>1. Inv /\ Report /\ [Next]_vars => Report'
    BY ReportKept
<1>2. QED
    BY <1>1, InitReport, RestaurantInvariant, PTL DEF Spec

(* The report that the test driver prints is exact, and with any client at *)
(* all its average waiting time is a quotient by a number that is not 0.   *)
THEOREM ReportIsExact == Clients # {} => (Spec => []ReportExact)
<1> SUFFICES ASSUME Clients # {} PROVE Spec => []ReportExact
    OBVIOUS
<1>1. ASSUME Inv, Report, tester # "reap"
      PROVE  /\ total_entered = Cardinality(Clients)
             /\ total_served = Cardinality({c \in Clients : is_served[c]})
             /\ total_served > 0
             /\ \A i \in MenuItems :
                   st_p[i] = Cardinality({c \in Clients : is_served[c] /\ order[c].item = i})
  <2>1. \A c \in Clients : pc[c] = "done"
      BY <1>1 DEF Inv, Closing
  <2>2. /\ Entered = Clients
        /\ Served = {c \in Clients : is_served[c]} /\ Sold = {c \in Clients : is_served[c]}
      BY <2>1 DEF Entered, Served, Sold, Waiting, AnyOf
  <2>3. \A i : SoldOf(i) = {c \in Clients : is_served[c] /\ order[c].item = i}
      BY <2>2 DEF SoldOf
  <2>4. \E d \in Clients : is_served[d]
      BY <1>1, <2>1 DEF Report, SomebodyStays, Refused, Gone, Joining
  <2>5. Cardinality(Served) # 0 /\ Cardinality(Served) \in Nat
      BY <2>2, <2>4, SoldFinite, FS_EmptySet, FS_CardinalityType
  <2>6. total_entered = Cardinality(Clients) /\ total_served = Cardinality(Served)
      BY <1>1, <2>2 DEF Report, Counted
  <2>7. \A i \in MenuItems : st_p[i] = Cardinality(SoldOf(i))
      BY <1>1 DEF Report, Counted
  <2>8. \A i \in MenuItems :
          st_p[i] = Cardinality({c \in Clients : is_served[c] /\ order[c].item = i})
      BY <2>3, <2>7
  <2>9. total_served > 0
      BY <2>5, <2>6
  <2>10. QED
      BY <2>2, <2>6, <2>8, <2>9
<1>2. Inv /\ Report => ReportExact
    BY <1>1 DEF ReportExact
<1>3. QED
    BY <1>2, RestaurantInvariant, ReportInvariant, PTL

-----------------------------------------------------------------------------
(* The refinement mapping *)

Stages  == [c \in Clients |-> Stage(c)]
Choices == [c \in Clients |-> order[c].item]

(* The instance has its own copy of Cardinality. *)
LEMMA SameCardinality == \A S : Promise!Cardinality(S) = Cardinality(S)
BY DEF Promise!Cardinality, Cardinality

LEMMA StageIs ==
    ASSUME Inv, NEW c \in Clients
    PROVE  /\ Stage(c) = "outside" <=> pc[c] \in {"get_wait", "get_lock", "get_take"}
           /\ Stage(c) = "seated"  <=> pc[c] \in {"get_post", "assign", "enter", "trypush"}
           /\ Stage(c) = "inline"  <=> pc[c] \in Joining \union {"wait_received"}
           /\ Stage(c) = "received"  <=> pc[c] \in {"read_received", "wait_processed"}
           /\ Stage(c) = "processed" <=> pc[c] \in {"read_processed", "wait_served"}
           /\ Stage(c) = "served"  <=> pc[c] \in Leaving \union {"read_served"} /\ is_served[c]
           /\ Stage(c) = "refused" <=> pc[c] \in Leaving \union {"read_served"} /\ ~ is_served[c]
           /\ Stage(c) = "fed"     <=> pc[c] \in Gone /\ is_served[c]
           /\ Stage(c) = "unfed"   <=> pc[c] \in Gone /\ ~ is_served[c]
<1>1. pc[c] \in ClientPlaces /\ is_served[c] \in BOOLEAN
    BY DEF Inv, TypeOK, Placed
<1>2. QED
    BY <1>1 DEF Stage, ClientPlaces, Joining, Leaving, Gone

(* What the abstract state counts, in terms of the detailed one. *)
LEMMA StagesCount ==
    ASSUME Inv, Report
    PROVE  /\ Promise!Inside = Holders
           /\ Promise!At({"inline"}) = InLineClients
           /\ \A i : SoldOf(i) \subseteq
                Promise!Ordered(i, Promise!At({"inline", "received", "processed",
                                               "served", "fed"}))
           /\ \A i : Promise!Ordered(i, Promise!At({"served", "fed"})) \subseteq
                SoldOf(i) \ Waiting
<1>1. \A s : Promise!At(s) = {c \in Clients : Stage(c) \in s}
    BY DEF Promise!At
<1>2. \A i, s : Promise!Ordered(i, Promise!At(s)) =
                  {c \in Clients : Stage(c) \in s /\ order[c].item = i}
    BY <1>1 DEF Promise!Ordered
<1>3. Promise!Inside = Holders
  <2>1. \A c \in Clients : Stage(c) \in {"outside", "fed", "unfed"} <=>
          pc[c] \in {"get_wait", "get_lock", "get_take", "return_post",
                     "record_served", "record_entered", "done"}
      BY StageIs DEF Inv, TypeOK, Gone
  <2>2. QED
      BY <1>1, <2>1 DEF Promise!Inside, Holders, AnyOf
<1>4. Promise!At({"inline"}) = InLineClients
    BY <1>1, StageIs DEF InLineClients, AnyOf
<1>5. \A c \in Sold : Stage(c) \in {"inline", "received", "processed", "served", "fed"}
  <2>1. SUFFICES ASSUME NEW c \in Sold
                 PROVE  Stage(c) \in {"inline", "received", "processed", "served", "fed"}
      OBVIOUS
  <2>2. c \in Clients
      BY DEF Sold
  <2>3. CASE c \in Waiting
      BY <2>2, <2>3, StageIs DEF Waiting, AnyOf, Joining
  <2>4. CASE c \notin Waiting
    <3>1. is_served[c] /\ pc[c] \notin Arriving /\ pc[c] \in ClientPlaces
        BY <2>2, <2>4 DEF Sold, Report, Flags, Inv, Placed
    <3>2. pc[c] \in Leaving \union {"read_served"} \union Gone
        BY <2>2, <2>4, <3>1 DEF Waiting, AnyOf, ClientPlaces, Arriving, Leaving, Gone
    <3>3. QED
        BY <2>2, <3>1, <3>2, StageIs
  <2>5. QED
      BY <2>3, <2>4
<1>6. \A c \in Clients : Stage(c) \in {"served", "fed"} => c \in Sold \ Waiting
    BY StageIs DEF Sold, Waiting, AnyOf, Leaving, Gone
<1>7. \A i : SoldOf(i) \subseteq
         Promise!Ordered(i, Promise!At({"inline", "received", "processed", "served", "fed"}))
    BY <1>2, <1>5 DEF SoldOf, Sold
<1>8. \A i : Promise!Ordered(i, Promise!At({"served", "fed"})) \subseteq SoldOf(i) \ Waiting
    BY <1>2, <1>6 DEF SoldOf
<1>9. QED
    BY <1>3, <1>4, <1>7, <1>8

LEMMA InitDines == Init => Promise!Init
<1> SUFFICES ASSUME Init PROVE Promise!Init
    OBVIOUS
<1>1. Inv
    BY InitInv
<1>2. \A c \in Clients : pc[c] = "get_wait"
    BY Disjoint DEF Init
<1>3. Stages = [c \in Clients |-> "outside"]
    BY <1>1, <1>2, StageIs DEF Stages
<1>4. Choices \in [Clients -> MenuItems]
  <2>1. \A c \in Clients : order[c].item \in MenuItems
      BY <1>1, Facts DEF OrderType
  <2>2. QED
      BY <2>1 DEF Choices
<1>5. st_p = [i \in MenuItems |-> 0]
    BY DEF Init
<1>6. QED
    BY <1>3, <1>4, <1>5 DEF Promise!Init, Stages, Choices

-----------------------------------------------------------------------------
(* Steps *)

LEMMA Proceeds ==
    ASSUME NEW c \in Clients, VisitStep(c), MovesAlone(c),
           NEW from, NEW to, Stage(c) = from, Stage(c)' = to
    PROVE  /\ Promise!Proceed(c, from, to) /\ UNCHANGED st_p
           /\ from = to => UNCHANGED Promise!vars
<1>1. \A d \in Clients \ {c} :
         pc'[d] = pc[d] /\ order'[d].item = order[d].item /\ is_served'[d] = is_served[d]
    BY Disjoint DEF MovesAlone, VisitStep
<1>2. \A d \in Clients \ {c} : Stage(d)' = Stage(d)
    BY <1>1 DEF Stage
<1>3. Stages' = [Stages EXCEPT ![c] = to] /\ Stages[c] = from
    BY <1>2 DEF Stages
<1>4. Choices' = Choices
    BY <1>1 DEF Choices, VisitStep
<1>5. from = to => Stages' = Stages
    BY <1>3 DEF Stages
<1>6. st_p' = st_p
    BY DEF VisitStep
<1>7. Promise!Proceed(c, from, to)
    BY <1>3, <1>4 DEF Promise!Proceed, Stages, Choices
<1>8. from = to => UNCHANGED Promise!vars
    BY <1>4, <1>5, <1>6 DEF Promise!vars, Stages, Choices
<1>9. QED
    BY <1>6, <1>7, <1>8

LEMMA ClientDines ==
    ASSUME Inv, Inv', Report, NEW c \in Clients, Client(c)
    PROVE  Promise!Next \/ UNCHANGED Promise!vars
<1>1. VisitStep(c) /\ MovesAlone(c)
    BY ClientVisits, ClientFrame DEF ClientMoves
<1>2. ASSUME NEW from, NEW to, Stage(c) = from, Stage(c)' = to
      PROVE  /\ Promise!Proceed(c, from, to) /\ UNCHANGED st_p
             /\ from = to => UNCHANGED Promise!vars
    BY <1>1, <1>2, Proceeds
<1>3. CASE pc[c] = "get_take"
  <2>1. Stage(c) = "outside" /\ Stage(c)' = "seated"
      BY <1>1, <1>3 DEF Stage, VisitStep, Onward
  <2>2. Cardinality(Holders) < NO_OF_TOKENS
    <3>1. TokenStock > 0
      <4>1. c \in AnyOf(Clients, {"get_lock", "get_take"})
          BY <1>3 DEF AnyOf
      <4>2. N(Clients, {"get_lock", "get_take"}) # 0
          BY <4>1, AnyOfFinite, KindsFinite, FS_EmptySet DEF N
      <4>3. /\ N(Clients, {"get_lock", "get_take"}) \in Nat
            /\ N(Clients, {"return_post"}) \in Nat
          BY AnyOfFinite, KindsFinite
      <4>4. QED
          BY <4>2, <4>3, RingSizes DEF TokenStock, Stock
    <3>2. TokenStock + Cardinality(Holders) = NO_OF_TOKENS
        BY DEF Inv, Owned
    <3>3. QED
        BY <3>1, <3>2, TokenStockNat, HoldersFinite
  <2>3. Promise!Enter(c)
      BY <1>2, <2>1, <2>2, StagesCount, SameCardinality DEF Promise!Enter
  <2>4. QED
      BY <2>3 DEF Promise!Next
<1>4. CASE pc[c] = "trypush"
  <2>1. Stage(c) = "seated" /\ ~ is_served[c]
      BY <1>4 DEF Stage, Report, Flags, Arriving
  <2>2. CASE pc'[c] = "push_lock"
    <3>1. Stage(c)' = "inline"
        BY <2>2 DEF Stage
    <3>2. Promise!LineUp(c)
        BY <1>2, <2>1, <3>1 DEF Promise!LineUp
    <3>3. QED
        BY <3>2 DEF Promise!Next
  <2>3. CASE pc'[c] = "restore_sender"
    <3>1. lq.empty = 0 /\ ~ is_served'[c]
        BY <1>1, <1>4, <2>1, <2>3 DEF VisitStep
    <3>2. Stage(c)' = "refused"
        BY <2>3, <3>1 DEF Stage
    <3>3. Cardinality(InLineClients) >= LINEUP_MAX
      <4>1. Cardinality(InLineClients) \in Nat
          BY AnyOfFinite, KindsFinite DEF InLineClients, N
      <4>2. QED
          BY <3>1, <4>1, FullLine, RingSizes
    <3>4. Promise!TurnAway(c)
        BY <1>2, <2>1, <3>2, <3>3, StagesCount, SameCardinality DEF Promise!TurnAway
    <3>5. QED
        BY <3>4 DEF Promise!Next
  <2>4. QED
      BY <1>1, <1>4, <2>2, <2>3 DEF VisitStep, Onward
<1>5. CASE pc[c] = "wait_received"
  <2>1. Stage(c) = "inline" /\ Stage(c)' = "received"
      BY <1>1, <1>5 DEF Stage, VisitStep, Onward
  <2>2. Promise!Receive(c)
      BY <1>2, <2>1 DEF Promise!Receive
  <2>3. QED
      BY <2>2 DEF Promise!Next
<1>6. CASE pc[c] = "wait_processed"
  <2>1. Stage(c) = "received" /\ Stage(c)' = "processed"
      BY <1>1, <1>6 DEF Stage, VisitStep, Onward
  <2>2. Promise!Process(c)
      BY <1>2, <2>1 DEF Promise!Process
  <2>3. QED
      BY <2>2 DEF Promise!Next
<1>7. CASE pc[c] = "wait_served"
  <2>1. is_served[c] /\ is_served'[c]
      BY <1>1, <1>7 DEF Report, Flags, Eating, VisitStep
  <2>2. Stage(c) = "processed" /\ Stage(c)' = "served"
      BY <1>1, <1>7, <2>1 DEF Stage, VisitStep, Onward
  <2>x. PICK i : i = order[c].item
      OBVIOUS
  <2>3. c \in SoldOf(i) /\ c \in Waiting
    <3>1. WaitServed(c)
        BY <1>7, AtWaitServed
    <3>2. order[c] \notin Unsold
        BY <3>1, LastSignal, UnsoldCarried
    <3>3. QED
        BY <1>7, <2>x, <3>2 DEF SoldOf, Sold, Waiting, AnyOf
  <2>4. i \in MenuItems
      BY <2>x, Facts DEF OrderType
  <2>5. Cardinality(Promise!Ordered(i, Promise!At({"served", "fed"}))) < st_p[i]
    <3> DEFINE S == Promise!Ordered(i, Promise!At({"served", "fed"}))
    <3>1. S \in SUBSET (SoldOf(i) \ {c})
        BY <2>3, StagesCount
    <3>2. /\ IsFiniteSet(SoldOf(i) \ {c})
          /\ Cardinality(SoldOf(i) \ {c}) = Cardinality(SoldOf(i)) - 1
          /\ Cardinality(SoldOf(i)) \in Nat
        BY <2>3, SoldFinite, FS_RemoveElement, FS_CardinalityType
    <3> HIDE DEF S
    <3>3. Cardinality(S) <= Cardinality(SoldOf(i)) - 1 /\ Cardinality(S) \in Nat
        BY <3>1, <3>2, FS_Subset, FS_CardinalityType
    <3>4. st_p[i] = Cardinality(SoldOf(i))
        BY <2>4 DEF Report, Counted
    <3>5. QED
        BY <3>2, <3>3, <3>4 DEF S
  <2>6. Promise!Serve(c)
      BY <1>2, <2>x, <2>2, <2>5, SameCardinality DEF Promise!Serve
  <2>7. QED
      BY <2>6 DEF Promise!Next
<1>8. CASE pc[c] = "return_put"
  <2>1. pc'[c] = "return_post" /\ is_served'[c] = is_served[c] /\ is_served[c] \in BOOLEAN
      BY <1>1, <1>8 DEF VisitStep, Onward, Inv, TypeOK
  <2>2. \/ Stage(c) = "served" /\ Stage(c)' = "fed"
        \/ Stage(c) = "refused" /\ Stage(c)' = "unfed"
      BY <1>8, <2>1 DEF Stage
  <2>3. Promise!Leave(c)
      BY <1>2, <2>2 DEF Promise!Leave
  <2>4. QED
      BY <2>3 DEF Promise!Next
<1>9. CASE pc[c] \notin {"get_take", "trypush", "wait_received", "wait_processed",
                         "wait_served", "return_put"}
  <2>1. is_served[c] \in BOOLEAN
      BY DEF Inv, TypeOK
  <2>2. Stage(c)' = Stage(c)
      BY <1>1, <1>9, <2>1 DEF Stage, VisitStep, Onward
  <2>3. QED
      BY <1>2, <2>2
<1>10. QED
    BY <1>3, <1>4, <1>5, <1>6, <1>7, <1>8, <1>9

LEMMA CashierDines ==
    ASSUME Inv, Report, NEW k \in Cashiers, Cashier(k)
    PROVE  Promise!Next \/ UNCHANGED Promise!vars
<1>1. TillStep(k) /\ \A c \in Clients : order'[c] = order[c] /\ pc'[c] = pc[c]
    BY CashierTills, CashierSold
<1>2. Stages' = Stages /\ Choices' = Choices
    BY <1>1 DEF Stages, Stage, Choices, TillStep
<1>3. CASE pc[k] # "purchase"
    BY <1>1, <1>2, <1>3 DEF TillStep, Promise!vars, Stages, Choices
<1>4. CASE pc[k] = "purchase"
  <2>x. PICK i : i = order[k].item
      OBVIOUS
  <2>1. PICK c \in Waiting \ Sold : order[c] = order[k]
      BY <1>4, CashierSold
  <2>2. c \in Clients /\ i \in MenuItems
      BY <2>x, <2>1, Facts DEF OrderType, Waiting, AnyOf
  <2>3. st_p' = [st_p EXCEPT ![i] = @ + 1]
      BY <1>1, <1>4, <2>x DEF TillStep
  <2>4. st_p[i] < Cardinality(Promise!Ordered(i,
                    Promise!At({"inline", "received", "processed", "served", "fed"})))
    <3> DEFINE S == Promise!Ordered(i,
                      Promise!At({"inline", "received", "processed", "served", "fed"}))
    <3>1. c \in S
      <4>1. Stage(c) \in {"inline", "received", "processed"}
          BY <2>1, <2>2, StageIs DEF Waiting, AnyOf, Joining
      <4>2. QED
          BY <2>x, <2>1, <2>2, <4>1 DEF Promise!Ordered, Promise!At
    <3>2. SoldOf(i) \union {c} \in SUBSET S
        BY <3>1, StagesCount
    <3>3. Cardinality(SoldOf(i) \union {c}) = Cardinality(SoldOf(i)) + 1
      <4>1. c \notin SoldOf(i)
          BY <2>1 DEF SoldOf
      <4>2. IsFiniteSet(SoldOf(i))
          BY SoldFinite
      <4>3. QED
          BY <4>1, <4>2, FS_AddElement
    <3>4. IsFiniteSet(S)
      <4>1. S \in SUBSET Clients
          BY DEF Promise!Ordered, Promise!At
      <4>2. QED
          BY <4>1, RestaurantAssumption, FS_Subset
    <3> HIDE DEF S
    <3>5. /\ Cardinality(SoldOf(i)) + 1 <= Cardinality(S)
          /\ Cardinality(SoldOf(i)) \in Nat /\ Cardinality(S) \in Nat
        BY <3>2, <3>3, <3>4, SoldFinite, FS_Subset, FS_CardinalityType
    <3>6. st_p[i] = Cardinality(SoldOf(i))
        BY <2>2 DEF Report, Counted
    <3>7. QED
        BY <3>5, <3>6 DEF S
  <2>5. Promise!Sell(i)
      BY <1>2, <2>3, <2>4, SameCardinality DEF Promise!Sell, Stages, Choices
  <2>6. QED
      BY <2>2, <2>5 DEF Promise!Next
<1>5. QED
    BY <1>3, <1>4

LEMMA OthersDine ==
    ASSUME Uncounted
    PROVE  UNCHANGED Promise!vars
<1>1. Stages' = Stages /\ Choices' = Choices
    BY DEF Uncounted, Stages, Stage, Choices
<1>2. QED
    BY <1>1 DEF Uncounted, Promise!vars, Stages, Choices

(* Every step of the restaurant is one of Dining or none. *)
LEMMA StepDines ==
    ASSUME Inv, Inv', Report, [Next]_vars
    PROVE  Promise!Next \/ UNCHANGED Promise!vars
<1>1. CASE \E c \in Clients : Client(c)
    BY <1>1, ClientDines
<1>2. CASE \E k \in Cashiers : Cashier(k)
    BY <1>2, CashierDines
<1>3. CASE \/ \E s \in Servers : Server(s)
           \/ \E th \in threads : ServeOrder(th)
           \/ \E s \in Staff : HandleUSR1(s)
           \/ Driver \/ UNCHANGED vars
    BY <1>3, OthersUncounted, OthersDine
<1>4. QED
    BY <1>1, <1>2, <1>3, NextSplits DEF Someone

(* The restaurant keeps the promise of Dining: never more clients inside   *)
(* than tokens, each visit in order, nobody turned away but by a line of   *)
(* LINEUP_MAX clients, and no meal served that is not on the books.        *)
THEOREM RestaurantDines == Spec => ImplementsDining
<1>1. Init => Promise!Init
    BY InitDines
<1>2. Inv /\ Inv' /\ Report /\ [Next]_vars => [Promise!Next]_(Promise!vars)
    BY StepDines
<1>3. QED
    BY <1>1, <1>2, RestaurantInvariant, ReportInvariant, PTL
    DEF Spec, ImplementsDining, Promise!Spec
=============================================================================
