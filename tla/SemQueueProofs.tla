--------------------------- MODULE SemQueueProofs ---------------------------
(***************************************************************************)
(* Lemmas about the ring arithmetic of SemQueue, for a ring of any size.   *)
(* The proofs about the queue of any concrete component cite them.         *)
(***************************************************************************)
EXTENDS SemQueue, TLAPS

(* An index past the end of the ring by less than one turn wraps once. *)
LEMMA WrapOnce ==
    ASSUME NEW size \in Nat, size > 0, NEW n \in Nat, n < size + size
    PROVE  n % size = IF n < size THEN n ELSE n - size
<1>1. CASE n < size
    BY <1>1
<1>2. CASE n >= size
    BY <1>2
<1>3. QED
    BY <1>1, <1>2

(* (fill + 1) % LINEUP_MAX is a slot again, and moves one place on. *)
LEMMA NextSlotType ==
    ASSUME NEW size \in Nat \ {0}, NEW n \in 0 .. size - 1
    PROVE  /\ NextSlot(n, size) \in 0 .. size - 1
           /\ NextSlot(n, size) = IF n + 1 < size THEN n + 1 ELSE 0
<1>1. n + 1 \in Nat /\ n + 1 < size + size
    OBVIOUS
<1>2. (n + 1) % size = IF n + 1 < size THEN n + 1 ELSE n + 1 - size
    BY <1>1, WrapOnce
<1>3. QED
    BY <1>2 DEF NextSlot

(* One order more: the slot after the last one. *)
LEMMA FillAdvances ==
    ASSUME NEW size \in Nat \ {0}, NEW use \in 0 .. size - 1,
           NEW count \in 0 .. size - 1
    PROVE  NextSlot((use + count) % size, size) = (use + (count + 1)) % size
<1>1. /\ use + count \in Nat /\ use + count < size + size
      /\ use + (count + 1) \in Nat /\ use + (count + 1) < size + size
    OBVIOUS
<1>2. (use + count) % size =
        IF use + count < size THEN use + count ELSE use + count - size
    BY <1>1, WrapOnce
<1>3. (use + (count + 1)) % size =
        IF use + (count + 1) < size THEN use + (count + 1)
                                    ELSE use + (count + 1) - size
    BY <1>1, WrapOnce
<1>4. (use + count) % size \in 0 .. size - 1
    BY <1>2
<1>5. QED
    BY <1>2, <1>3, <1>4, NextSlotType

(* One order fewer: the last slot stays where it is. *)
LEMMA UseAdvances ==
    ASSUME NEW size \in Nat \ {0}, NEW use \in 0 .. size - 1,
           NEW count \in 1 .. size
    PROVE  (NextSlot(use, size) + (count - 1)) % size = (use + count) % size
<1>1. use + count \in Nat /\ use + count < size + size
    OBVIOUS
<1>2. (use + count) % size =
        IF use + count < size THEN use + count ELSE use + count - size
    BY <1>1, WrapOnce
<1>3. CASE use + 1 < size
  <2>1. NextSlot(use, size) = use + 1
      BY <1>3, NextSlotType
  <2>2. (use + 1) + (count - 1) = use + count
      OBVIOUS
  <2>3. QED
      BY <2>1, <2>2
<1>4. CASE ~ (use + 1 < size)
  <2>1. NextSlot(use, size) = 0
      BY <1>4, NextSlotType
  <2>2. 0 + (count - 1) \in Nat /\ 0 + (count - 1) < size
      OBVIOUS
  <2>3. (0 + (count - 1)) % size = count - 1
      BY <2>2, WrapOnce
  <2>4. QED
      BY <1>2, <1>4, <2>1, <2>3
<1>5. QED
    BY <1>3, <1>4

(* Slots at different distances from the read index are different. *)
LEMMA SlotsDistinct ==
    ASSUME NEW size \in Nat \ {0}, NEW use \in 0 .. size - 1,
           NEW count \in 0 .. size - 1, NEW n \in 0 .. count - 1
    PROVE  (use + n) % size # (use + count) % size
<1>1. /\ use + n \in Nat /\ use + n < size + size
      /\ use + count \in Nat /\ use + count < size + size
    OBVIOUS
<1>2. (use + n) % size = IF use + n < size THEN use + n ELSE use + n - size
    BY <1>1, WrapOnce
<1>3. (use + count) % size =
        IF use + count < size THEN use + count ELSE use + count - size
    BY <1>1, WrapOnce
<1>4. QED
    BY <1>1, <1>2, <1>3
-----------------------------------------------------------------------------
(* Accounting for a ring: every slot is empty, full, or in the hands of    *)
(* somebody at work on the queue.  Of these, w writers have waited for a   *)
(* slot, p have written it and not yet posted it, t readers have waited    *)
(* for an item, l have read it and not yet posted the slot; inside are     *)
(* those in a critical section.                                            *)
Stock(q, p, t) == q.full + p + t

(* The write index is n places after the read index. *)
FillAt(q, n, size) == q.fill = (q.use + n) % size

Books(q, size, w, p, t, l, inside) ==
    /\ q.empty + w + Stock(q, p, t) + l = size
    /\ FillAt(q, Stock(q, p, t), size)
    /\ \/ q.lock = 1 /\ inside = {}
       \/ q.lock = 0 /\ \E x \in inside : inside = {x}

(* What the ring stores, and that it stores nothing twice. *)
Stored(q, n, size)   == {Items(q, n, size)[i] : i \in 1 .. n}
Distinct(q, n, size) ==
    \A i, j \in 1 .. n : Items(q, n, size)[i] = Items(q, n, size)[j] => i = j

(* A ring stores items of its type. *)
LEMMA StoredItems ==
    ASSUME NEW size \in Nat \ {0}, NEW items, NEW q \in QueueType(size, items),
           NEW n
    PROVE  Stored(q, n, size) \in SUBSET items
<1>1. SUFFICES ASSUME NEW i \in 1 .. n
               PROVE  Items(q, n, size)[i] \in items
    BY DEF Stored
<1>2. q.use \in Nat /\ i \in Nat /\ q.use + i - 1 \in Nat
    BY DEF QueueType
<1>3. \A m \in Nat : m % size \in 0 .. size - 1
    OBVIOUS
<1>4. Items(q, n, size)[i] = q.buffer[(q.use + i - 1) % size]
    BY DEF Items
<1>5. QED
    BY <1>2, <1>3, <1>4 DEF QueueType

(* A new queue: nobody is at work on it and it stores nothing. *)
LEMMA NewBooks ==
    ASSUME NEW size \in Nat \ {0}, NEW items, NEW blank \in items
    PROVE  /\ NewQueue(size, blank) \in QueueType(size, items)
           /\ Books(NewQueue(size, blank), size, 0, 0, 0, 0, {})
           /\ Stored(NewQueue(size, blank), 0, size) = {}
           /\ Distinct(NewQueue(size, blank), 0, size)
<1>1. 0 % size = 0
    OBVIOUS
<1>2. NewQueue(size, blank) \in QueueType(size, items)
    BY DEF NewQueue, QueueType
<1>3. Books(NewQueue(size, blank), size, 0, 0, 0, 0, {})
    BY <1>1 DEF NewQueue, Books, Stock, FillAt
<1>4. QED
    BY <1>2, <1>3 DEF Stored, Distinct

(* Waiting for a semaphore: a slot or an item changes hands. *)
LEMMA BooksReserve ==
    ASSUME NEW size \in Nat \ {0}, NEW items, NEW q \in QueueType(size, items),
           NEW w \in Nat, NEW p \in Nat, NEW t \in Nat, NEW l \in Nat, NEW inside,
           Books(q, size, w, p, t, l, inside)
    PROVE  /\ q.empty > 0 =>
                 /\ ReserveSlot(q) \in QueueType(size, items)
                 /\ Books(ReserveSlot(q), size, w + 1, p, t, l, inside)
                 /\ Stock(ReserveSlot(q), p, t) = Stock(q, p, t)
           /\ q.full > 0 =>
                 /\ ReserveItem(q) \in QueueType(size, items)
                 /\ Books(ReserveItem(q), size, w, p, t + 1, l, inside)
                 /\ Stock(ReserveItem(q), p, t + 1) = Stock(q, p, t)
           /\ \A n : /\ Items(ReserveSlot(q), n, size) = Items(q, n, size)
                     /\ Items(ReserveItem(q), n, size) = Items(q, n, size)
<1>1. ASSUME q.empty > 0
      PROVE  /\ ReserveSlot(q) \in QueueType(size, items)
             /\ Books(ReserveSlot(q), size, w + 1, p, t, l, inside)
             /\ Stock(ReserveSlot(q), p, t) = Stock(q, p, t)
  <2>1. ReserveSlot(q) \in QueueType(size, items)
      BY SMTT(30), <1>1 DEF QueueType, ReserveSlot
  <2>2. /\ Stock(ReserveSlot(q), p, t) = Stock(q, p, t)
        /\ Stock(q, p, t) \in Nat
      BY DEF QueueType, ReserveSlot, Stock
  <2>3. FillAt(ReserveSlot(q), Stock(q, p, t), size) <=> FillAt(q, Stock(q, p, t), size)
      BY DEF FillAt, QueueType, ReserveSlot
  <2>4. /\ ReserveSlot(q).empty = q.empty - 1 /\ ReserveSlot(q).lock = q.lock
        /\ q.empty \in Nat
      BY DEF QueueType, ReserveSlot
  <2>5. QED
      BY <2>1, <2>2, <2>3, <2>4 DEF Books
<1>2. ASSUME q.full > 0
      PROVE  /\ ReserveItem(q) \in QueueType(size, items)
             /\ Books(ReserveItem(q), size, w, p, t + 1, l, inside)
             /\ Stock(ReserveItem(q), p, t + 1) = Stock(q, p, t)
  <2>1. ReserveItem(q) \in QueueType(size, items)
      BY SMTT(30), <1>2 DEF QueueType, ReserveItem
  <2>2. /\ Stock(ReserveItem(q), p, t + 1) = Stock(q, p, t)
        /\ Stock(q, p, t) \in Nat
      BY DEF QueueType, ReserveItem, Stock
  <2>3. FillAt(ReserveItem(q), Stock(q, p, t), size) <=> FillAt(q, Stock(q, p, t), size)
      BY DEF FillAt, QueueType, ReserveItem
  <2>4. QED
      BY <2>1, <2>2, <2>3 DEF Books, QueueType, ReserveItem
<1>3. \A n : /\ Items(ReserveSlot(q), n, size) = Items(q, n, size)
            /\ Items(ReserveItem(q), n, size) = Items(q, n, size)
    BY DEF Items, ReserveSlot, ReserveItem, QueueType
<1>4. QED
    BY <1>1, <1>2, <1>3

(* Posting: somebody is done with the queue. *)
LEMMA BooksPost ==
    ASSUME NEW size \in Nat \ {0}, NEW items, NEW q \in QueueType(size, items),
           NEW w \in Nat, NEW p \in Nat, NEW t \in Nat, NEW l \in Nat, NEW inside,
           Books(q, size, w, p, t, l, inside)
    PROVE  /\ p > 0 =>
                 /\ PostFull(q) \in QueueType(size, items)
                 /\ Books(PostFull(q), size, w, p - 1, t, l, inside)
                 /\ Stock(PostFull(q), p - 1, t) = Stock(q, p, t)
           /\ l > 0 =>
                 /\ PostEmpty(q) \in QueueType(size, items)
                 /\ Books(PostEmpty(q), size, w, p, t, l - 1, inside)
                 /\ Stock(PostEmpty(q), p, t) = Stock(q, p, t)
           /\ \A n : /\ Items(PostFull(q), n, size) = Items(q, n, size)
                     /\ Items(PostEmpty(q), n, size) = Items(q, n, size)
<1>1. ASSUME p > 0
      PROVE  /\ PostFull(q) \in QueueType(size, items)
             /\ Books(PostFull(q), size, w, p - 1, t, l, inside)
             /\ Stock(PostFull(q), p - 1, t) = Stock(q, p, t)
  <2>1. q.full + 1 \in 0 .. size
      BY SMTT(30), <1>1 DEF Books, Stock, QueueType
  <2>2. PostFull(q) \in QueueType(size, items)
      BY <2>1 DEF QueueType, PostFull
  <2>3. /\ Stock(PostFull(q), p - 1, t) = Stock(q, p, t)
        /\ Stock(q, p, t) \in Nat
      BY DEF QueueType, PostFull, Stock
  <2>4. FillAt(PostFull(q), Stock(q, p, t), size) <=> FillAt(q, Stock(q, p, t), size)
      BY DEF FillAt, QueueType, PostFull
  <2>5. QED
      BY <2>2, <2>3, <2>4 DEF Books, QueueType, PostFull
<1>2. ASSUME l > 0
      PROVE  /\ PostEmpty(q) \in QueueType(size, items)
             /\ Books(PostEmpty(q), size, w, p, t, l - 1, inside)
             /\ Stock(PostEmpty(q), p, t) = Stock(q, p, t)
  <2>1. q.empty + 1 \in 0 .. size
      BY SMTT(30), <1>2 DEF Books, Stock, QueueType
  <2>2. PostEmpty(q) \in QueueType(size, items)
      BY <2>1 DEF QueueType, PostEmpty
  <2>3. /\ Stock(PostEmpty(q), p, t) = Stock(q, p, t)
        /\ Stock(q, p, t) \in Nat
      BY DEF QueueType, PostEmpty, Stock
  <2>4. FillAt(PostEmpty(q), Stock(q, p, t), size) <=> FillAt(q, Stock(q, p, t), size)
      BY DEF FillAt, QueueType, PostEmpty
  <2>5. /\ PostEmpty(q).empty = q.empty + 1 /\ PostEmpty(q).lock = q.lock
        /\ q.empty \in Nat
      BY DEF QueueType, PostEmpty
  <2>6. QED
      BY <2>2, <2>3, <2>4, <2>5 DEF Books
<1>3. \A n : /\ Items(PostFull(q), n, size) = Items(q, n, size)
            /\ Items(PostEmpty(q), n, size) = Items(q, n, size)
    BY DEF Items, PostFull, PostEmpty, QueueType
<1>4. QED
    BY <1>1, <1>2, <1>3

(* Taking the lock: nobody was inside, now one is. *)
LEMMA BooksLock ==
    ASSUME NEW size \in Nat \ {0}, NEW items, NEW q \in QueueType(size, items),
           NEW w \in Nat, NEW p \in Nat, NEW t \in Nat, NEW l \in Nat, NEW inside,
           Books(q, size, w, p, t, l, inside), q.lock > 0
    PROVE  /\ Lock(q) \in QueueType(size, items)
           /\ \A x : Books(Lock(q), size, w, p, t, l, inside \union {x})
           /\ Stock(Lock(q), p, t) = Stock(q, p, t)
           /\ \A n : Items(Lock(q), n, size) = Items(q, n, size)
<1>1. inside = {} /\ q.lock = 1
    BY DEF Books
<1>2. Stock(Lock(q), p, t) = Stock(q, p, t)
    BY DEF QueueType, Lock, Stock
<1>3. Lock(q) \in QueueType(size, items) /\ Lock(q).lock = 0 /\ Lock(q).empty = q.empty
    BY <1>1 DEF QueueType, Lock
<1>4. \A n : FillAt(Lock(q), n, size) <=> FillAt(q, n, size)
    BY DEF FillAt, QueueType, Lock
<1>5. \A n : Items(Lock(q), n, size) = Items(q, n, size)
    BY DEF Items, QueueType, Lock
<1>6. QED
    BY <1>1, <1>2, <1>3, <1>4, <1>5 DEF Books

(* The six statements of push and pop outside their critical sections, and  *)
(* what they do to the number of those at work.                             *)
RingMove(q, w, p, t, l, inside, r, w1, p1, t1, l1, inside1) ==
    \/ /\ q.empty > 0 /\ r = ReserveSlot(q)
       /\ w1 = w + 1 /\ p1 = p /\ t1 = t /\ l1 = l /\ inside1 = inside
    \/ /\ q.full > 0 /\ r = ReserveItem(q)
       /\ w1 = w /\ p1 = p /\ t1 = t + 1 /\ l1 = l /\ inside1 = inside
    \/ /\ p > 0 /\ r = PostFull(q)
       /\ w1 = w /\ p1 = p - 1 /\ t1 = t /\ l1 = l /\ inside1 = inside
    \/ /\ l > 0 /\ r = PostEmpty(q)
       /\ w1 = w /\ p1 = p /\ t1 = t /\ l1 = l - 1 /\ inside1 = inside
    \/ /\ q.lock > 0 /\ r = Lock(q)
       /\ w1 = w /\ p1 = p /\ t1 = t /\ l1 = l
       /\ \E x : inside1 = inside \union {x}
    \/ /\ r = q
       /\ w1 = w /\ p1 = p /\ t1 = t /\ l1 = l /\ inside1 = inside

LEMMA RingMoves ==
    ASSUME NEW size \in Nat \ {0}, NEW items, NEW q \in QueueType(size, items),
           NEW w \in Nat, NEW p \in Nat, NEW t \in Nat, NEW l \in Nat, NEW inside,
           NEW r, NEW w1, NEW p1, NEW t1, NEW l1, NEW inside1,
           Books(q, size, w, p, t, l, inside),
           RingMove(q, w, p, t, l, inside, r, w1, p1, t1, l1, inside1)
    PROVE  /\ r \in QueueType(size, items)
           /\ Books(r, size, w1, p1, t1, l1, inside1)
           /\ Stock(r, p1, t1) = Stock(q, p, t)
           /\ \A n : Items(r, n, size) = Items(q, n, size)
<1>1. CASE /\ q.empty > 0 /\ r = ReserveSlot(q)
           /\ w1 = w + 1 /\ p1 = p /\ t1 = t /\ l1 = l /\ inside1 = inside
    BY <1>1, BooksReserve
<1>2. CASE /\ q.full > 0 /\ r = ReserveItem(q)
           /\ w1 = w /\ p1 = p /\ t1 = t + 1 /\ l1 = l /\ inside1 = inside
    BY <1>2, BooksReserve
<1>3. CASE /\ p > 0 /\ r = PostFull(q)
           /\ w1 = w /\ p1 = p - 1 /\ t1 = t /\ l1 = l /\ inside1 = inside
    BY <1>3, BooksPost
<1>4. CASE /\ l > 0 /\ r = PostEmpty(q)
           /\ w1 = w /\ p1 = p /\ t1 = t /\ l1 = l - 1 /\ inside1 = inside
    BY <1>4, BooksPost
<1>5. ASSUME NEW x, q.lock > 0, r = Lock(q), w1 = w, p1 = p, t1 = t, l1 = l,
             inside1 = inside \union {x}
      PROVE  /\ r \in QueueType(size, items)
             /\ Books(r, size, w1, p1, t1, l1, inside1)
             /\ Stock(r, p1, t1) = Stock(q, p, t)
             /\ \A n : Items(r, n, size) = Items(q, n, size)
    BY SMTT(30), <1>5, BooksLock
<1>6. CASE /\ r = q
           /\ w1 = w /\ p1 = p /\ t1 = t /\ l1 = l /\ inside1 = inside
    BY <1>6
<1>7. QED
    BY <1>1, <1>2, <1>3, <1>4, <1>5, <1>6 DEF RingMove

(* The item written at the fill index comes after the n that the ring       *)
(* stores, and none of them changes.                                       *)
Written(q, r, o, size) ==
    /\ r.use = q.use /\ r.buffer[q.fill] = o
    /\ \A j \in 0 .. size - 1 : j # q.fill => r.buffer[j] = q.buffer[j]

LEMMA ItemsPut ==
    ASSUME NEW size \in Nat \ {0}, NEW q, NEW r, NEW o, NEW n \in 0 .. size - 1,
           q.use \in 0 .. size - 1, FillAt(q, n, size), Written(q, r, o, size)
    PROVE  /\ Items(r, n + 1, size)[n + 1] = o
           /\ \A i \in 1 .. n : Items(r, n + 1, size)[i] = Items(q, n, size)[i]
<1>a. /\ q.fill = (q.use + n) % size
      /\ r.use = q.use /\ r.buffer[q.fill] = o
      /\ \A j \in 0 .. size - 1 : j # q.fill => r.buffer[j] = q.buffer[j]
    BY DEF FillAt, Written
<1>1. Items(r, n + 1, size)[n + 1] = o
  <2>1. q.use + (n + 1) - 1 = q.use + n
      OBVIOUS
  <2>2. n + 1 \in 1 .. n + 1
      OBVIOUS
  <2>3. Items(r, n + 1, size)[n + 1] = r.buffer[(r.use + (n + 1) - 1) % size]
      BY <2>2 DEF Items
  <2>4. (q.use + n) % size \in 0 .. size - 1
      OBVIOUS
  <2>5. QED
      BY <1>a, <2>1, <2>3, <2>4
<1>2. ASSUME NEW i \in 1 .. n
      PROVE  Items(r, n + 1, size)[i] = Items(q, n, size)[i]
  <2>1. i - 1 \in 0 .. n - 1 /\ q.use + i - 1 = q.use + (i - 1)
      OBVIOUS
  <2>2. (q.use + (i - 1)) % size # q.fill
      BY <1>a, <2>1, SlotsDistinct
  <2>3. i \in 1 .. n + 1 /\ (q.use + (i - 1)) % size \in 0 .. size - 1
      BY <2>1
  <2>4. /\ Items(r, n + 1, size)[i] = r.buffer[(q.use + (i - 1)) % size]
        /\ Items(q, n, size)[i] = q.buffer[(q.use + (i - 1)) % size]
      BY <1>a, <2>1, <2>3 DEF Items
  <2>5. QED
      BY <1>a, <2>2, <2>3, <2>4
<1>3. QED
    BY <1>1, <1>2

(* The item at the use index is the oldest of n, and without it the others  *)
(* move up by one place.                                                   *)
LEMMA ItemsTake ==
    ASSUME NEW size \in Nat \ {0}, NEW q, NEW r, NEW n \in 1 .. size,
           q.use \in 0 .. size - 1, r.use = NextSlot(q.use, size), r.buffer = q.buffer
    PROVE  /\ Items(q, n, size)[1] = ReadSlot(q)
           /\ \A i \in 1 .. n - 1 : Items(r, n - 1, size)[i] = Items(q, n, size)[i + 1]
<1>1. Items(q, n, size)[1] = ReadSlot(q)
  <2>1. q.use + 1 - 1 = q.use /\ q.use \in Nat /\ q.use < size /\ 1 \in 1 .. n
      OBVIOUS
  <2>2. q.use % size = q.use
      BY <2>1, WrapOnce
  <2>3. Items(q, n, size)[1] = q.buffer[(q.use + 1 - 1) % size]
      BY <2>1 DEF Items
  <2>4. QED
      BY <2>1, <2>2, <2>3 DEF ReadSlot
<1>2. ASSUME NEW i \in 1 .. n - 1
      PROVE  Items(r, n - 1, size)[i] = Items(q, n, size)[i + 1]
  <2>1. i \in 1 .. size /\ q.use + (i + 1) - 1 = q.use + i /\ i + 1 \in 1 .. n
      OBVIOUS
  <2>2. (NextSlot(q.use, size) + (i - 1)) % size = (q.use + i) % size
      BY <2>1, UseAdvances
  <2>3. r.use + i - 1 = NextSlot(q.use, size) + (i - 1)
      BY NextSlotType
  <2>4. /\ Items(r, n - 1, size)[i] = r.buffer[(r.use + i - 1) % size]
        /\ Items(q, n, size)[i + 1] = q.buffer[(q.use + (i + 1) - 1) % size]
      BY <2>1 DEF Items
  <2>5. QED
      BY <2>1, <2>2, <2>3, <2>4
<1>3. QED
    BY <1>1, <1>2

(* The critical section of push. *)
LEMMA BooksPut ==
    ASSUME NEW size \in Nat \ {0}, NEW items, NEW q \in QueueType(size, items),
           NEW w \in Nat, NEW p \in Nat, NEW t \in Nat, NEW l \in Nat, NEW inside,
           NEW o \in items, Books(q, size, w, p, t, l, inside), w > 0, inside # {}
    PROVE  /\ PutItem(q, o, size) \in QueueType(size, items)
           /\ Books(PutItem(q, o, size), size, w - 1, p + 1, t, l, {})
           /\ Stock(PutItem(q, o, size), p + 1, t) = Stock(q, p, t) + 1
           /\ Stored(PutItem(q, o, size), Stock(q, p, t) + 1, size) =
                 Stored(q, Stock(q, p, t), size) \union {o}
           /\ Distinct(q, Stock(q, p, t), size) /\ o \notin Stored(q, Stock(q, p, t), size) =>
                 Distinct(PutItem(q, o, size), Stock(q, p, t) + 1, size)
<1> DEFINE n == Stock(q, p, t)
           r == PutItem(q, o, size)
<1>a. /\ n \in 0 .. size - 1
      /\ q.use \in 0 .. size - 1 /\ q.fill \in 0 .. size - 1
      /\ q.lock = 0 /\ FillAt(q, n, size)
    BY SMTT(30) DEF Books, Stock, QueueType
<1>1. /\ q.lock = 0 /\ q.fill = (q.use + n) % size
      /\ n \in 0 .. size - 1 /\ q.use \in 0 .. size - 1 /\ q.fill \in 0 .. size - 1
    BY <1>a DEF FillAt
<1> HIDE DEF n, r
<1>2. NextSlot(q.fill, size) = (q.use + (n + 1)) % size
  <2>1. NextSlot((q.use + n) % size, size) = (q.use + (n + 1)) % size
      BY <1>a, FillAdvances
  <2>2. QED
      BY <1>1, <2>1
<1>3. NextSlot(q.fill, size) \in 0 .. size - 1
    BY <1>1, NextSlotType
<1>4. /\ r.use = q.use /\ r.fill = NextSlot(q.fill, size) /\ r.lock = 1
      /\ r.full = q.full /\ r.empty = q.empty
      /\ r.buffer = [q.buffer EXCEPT ![q.fill] = o]
      /\ r = [q EXCEPT !.buffer = [@ EXCEPT ![q.fill] = o],
                      !.fill = NextSlot(q.fill, size), !.lock = 1]
  <2> DEFINE wr == WriteSlot(q, o)
             ad == AdvanceFill(wr, size)
  <2>1. /\ wr = [q EXCEPT !.buffer = [q.buffer EXCEPT ![q.fill] = o]]
        /\ wr.fill = q.fill /\ wr.lock = q.lock
      BY DEF WriteSlot, QueueType
  <2>2. ad = [wr EXCEPT !.fill = NextSlot(q.fill, size)] /\ ad.lock = q.lock
      BY <2>1 DEF AdvanceFill, QueueType
  <2>3. r = Unlock(ad)
      BY DEF r, PutItem
  <2> HIDE DEF wr, ad
  <2>4. r = [ad EXCEPT !.lock = 1]
      BY <1>1, <2>2, <2>3 DEF Unlock
  <2>5. QED
      BY <2>1, <2>2, <2>4 DEF QueueType
<1>5. r \in QueueType(size, items)
    BY <1>3, <1>4 DEF QueueType
<1>6. Stock(r, p + 1, t) = n + 1
    BY <1>4 DEF n, Stock, QueueType
<1>7. Books(r, size, w - 1, p + 1, t, l, {})
  <2>1. FillAt(r, n + 1, size)
      BY <1>2, <1>4 DEF FillAt
  <2>2. q.empty + w + n + l = size
      BY DEF n, Books
  <2>3. r.empty + (w - 1) + (n + 1) + l = size
      BY SMTT(30), <1>1, <1>4, <2>2 DEF QueueType
  <2>4. QED
      BY <1>4, <1>6, <2>1, <2>3 DEF Books
<1>8. /\ Items(r, n + 1, size)[n + 1] = o
      /\ \A i \in 1 .. n : Items(r, n + 1, size)[i] = Items(q, n, size)[i]
  <2>1. Written(q, r, o, size)
      BY <1>1, <1>4 DEF QueueType, Written
  <2>2. QED
      BY <1>a, <2>1, ItemsPut
<1>10. Stored(r, n + 1, size) = Stored(q, n, size) \union {o}
  <2>1. 1 .. n + 1 = (1 .. n) \union {n + 1} /\ n + 1 \notin 1 .. n
      BY <1>1
  <2>2. QED
      BY <1>8, <2>1 DEF Stored
<1>11. ASSUME Distinct(q, n, size), o \notin Stored(q, n, size)
       PROVE  Distinct(r, n + 1, size)
  <2>1. 1 .. n + 1 = (1 .. n) \union {n + 1} /\ n + 1 \notin 1 .. n
      BY <1>1
  <2>2. \A i \in 1 .. n : Items(q, n, size)[i] # o
      BY <1>11 DEF Stored
  <2>3. QED
      BY <1>8, <1>11, <2>1, <2>2 DEF Distinct
<1>12. QED
    BY <1>5, <1>6, <1>7, <1>10, <1>11 DEF n, r

(* The critical section of pop. *)
LEMMA BooksTake ==
    ASSUME NEW size \in Nat \ {0}, NEW items, NEW q \in QueueType(size, items),
           NEW w \in Nat, NEW p \in Nat, NEW t \in Nat, NEW l \in Nat, NEW inside,
           Books(q, size, w, p, t, l, inside), t > 0, inside # {}
    PROVE  /\ TakeItem(q, size) \in QueueType(size, items)
           /\ Books(TakeItem(q, size), size, w, p, t - 1, l + 1, {})
           /\ Stock(TakeItem(q, size), p, t - 1) = Stock(q, p, t) - 1
           /\ ReadSlot(q) \in items
           /\ ReadSlot(q) \in Stored(q, Stock(q, p, t), size)
           /\ Distinct(q, Stock(q, p, t), size) =>
                 /\ Distinct(TakeItem(q, size), Stock(q, p, t) - 1, size)
                 /\ Stored(TakeItem(q, size), Stock(q, p, t) - 1, size) =
                      Stored(q, Stock(q, p, t), size) \ {ReadSlot(q)}
<1> DEFINE n == Stock(q, p, t)
           r == TakeItem(q, size)
<1>a. /\ n \in 1 .. size /\ q.use \in 0 .. size - 1
      /\ q.lock = 0 /\ FillAt(q, n, size)
    BY SMTT(30) DEF Books, Stock, QueueType
<1>1. /\ q.lock = 0 /\ q.fill = (q.use + n) % size
      /\ n \in 1 .. size /\ q.use \in 0 .. size - 1
    BY <1>a DEF FillAt
<1> HIDE DEF n, r
<1>2. (NextSlot(q.use, size) + (n - 1)) % size = (q.use + n) % size
    BY <1>1, UseAdvances
<1>3. NextSlot(q.use, size) \in 0 .. size - 1
    BY <1>1, NextSlotType
<1>4. /\ r.use = NextSlot(q.use, size) /\ r.fill = q.fill /\ r.lock = 1
      /\ r.full = q.full /\ r.empty = q.empty /\ r.buffer = q.buffer
      /\ r = [q EXCEPT !.use = NextSlot(q.use, size), !.lock = 1]
  <2> DEFINE ad == AdvanceUse(q, size)
  <2>1. ad = [q EXCEPT !.use = NextSlot(q.use, size)] /\ ad.lock = q.lock
      BY DEF AdvanceUse, QueueType
  <2>2. r = Unlock(ad)
      BY DEF r, TakeItem
  <2> HIDE DEF ad
  <2>3. r = [ad EXCEPT !.lock = 1]
      BY <1>1, <2>1, <2>2 DEF Unlock
  <2>4. QED
      BY <2>1, <2>3 DEF QueueType
<1>5. r \in QueueType(size, items)
    BY <1>3, <1>4 DEF QueueType
<1>6. Stock(r, p, t - 1) = n - 1
    BY <1>4 DEF n, Stock, QueueType
<1>7. Books(r, size, w, p, t - 1, l + 1, {})
  <2>1. FillAt(r, n - 1, size)
      BY <1>1, <1>2, <1>4 DEF FillAt
  <2>2. q.empty + w + n + l = size
      BY DEF n, Books
  <2>3. r.empty + w + (n - 1) + (l + 1) = size
      BY <1>1, <1>4, <2>2 DEF QueueType
  <2>4. QED
      BY <1>4, <1>6, <2>1, <2>3 DEF Books
<1>8. /\ Items(q, n, size)[1] = ReadSlot(q)
      /\ \A i \in 1 .. n - 1 : Items(r, n - 1, size)[i] = Items(q, n, size)[i + 1]
  <2>1. r.use = NextSlot(q.use, size) /\ r.buffer = q.buffer
      BY <1>4
  <2>2. QED
      BY <1>1, <2>1, ItemsTake
<1>10. ReadSlot(q) \in Stored(q, n, size)
  <2>1. 1 \in 1 .. n
      BY <1>1
  <2>2. QED
      BY <1>8, <2>1 DEF Stored
<1>11. ASSUME Distinct(q, n, size)
       PROVE  /\ Distinct(r, n - 1, size)
              /\ Stored(r, n - 1, size) = Stored(q, n, size) \ {ReadSlot(q)}
  <2>1. \A i \in 1 .. n - 1 : i + 1 \in 2 .. n
      BY <1>1
  <2>2. \A j \in 2 .. n : j - 1 \in 1 .. n - 1 /\ (j - 1) + 1 = j
      BY <1>1
  <2>3. 1 .. n = {1} \union (2 .. n) /\ 1 \notin 2 .. n
      BY <1>1
  <2>4. Distinct(r, n - 1, size)
      BY <1>8, <1>11, <2>1, <2>3 DEF Distinct
  <2>5. ASSUME NEW j \in 2 .. n
        PROVE  Items(q, n, size)[j] # ReadSlot(q) /\ Items(q, n, size)[j] \in Stored(r, n - 1, size)
    <3>1. Items(q, n, size)[j] # ReadSlot(q)
        BY <1>8, <1>11, <2>3 DEF Distinct
    <3>2. Items(r, n - 1, size)[j - 1] = Items(q, n, size)[j]
        BY <1>8, <2>2
    <3>3. QED
        BY <2>2, <3>1, <3>2 DEF Stored
  <2>6. Stored(r, n - 1, size) \subseteq Stored(q, n, size) \ {ReadSlot(q)}
    <3>1. ASSUME NEW i \in 1 .. n - 1
          PROVE  Items(r, n - 1, size)[i] \in Stored(q, n, size) \ {ReadSlot(q)}
        BY <1>8, <2>1, <2>3, <2>5 DEF Stored
    <3>2. QED
        BY <3>1 DEF Stored
  <2>7. Stored(q, n, size) \ {ReadSlot(q)} \subseteq Stored(r, n - 1, size)
      BY <1>8, <2>3, <2>5 DEF Stored
  <2>8. QED
      BY <2>4, <2>6, <2>7
<1>12. ReadSlot(q) \in items
    BY <1>1 DEF ReadSlot, QueueType
<1>13. QED
    BY <1>5, <1>6, <1>7, <1>10, <1>11, <1>12 DEF n, r
=============================================================================
