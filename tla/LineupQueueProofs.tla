------------------------- MODULE LineupQueueProofs --------------------------
(***************************************************************************)
(* Proofs about LineupQueue, for any number of processes and any ring      *)
(* size.                                                                   *)
(*                                                                         *)
(* TypeOK bounds the two counting semaphores by the size of the ring.      *)
(* That bound is not inductive: sem_post looks at nothing.  It rests on    *)
(* SlotsConserved (who posts has a slot or an order to announce), and the  *)
(* write index on RingConsistent, so the four are proved together.         *)
(***************************************************************************)
EXTENDS LineupQueue, SemQueueProofs, FiniteSetTheorems

Inv == TypeOK /\ MutualExclusion /\ SlotsConserved /\ RingConsistent

-----------------------------------------------------------------------------
(* How a step of one process changes the sets of processes at a place. *)

LEMMA ProcsFinite == IsFiniteSet(Procs)
BY QueueAssumption, FS_Union DEF Procs

(* The one process that moves joins the set, leaves it, or does neither. *)
LEMMA GotoSet ==
    ASSUME NEW p \in Procs, NEW here, NEW there, NEW places,
           DOMAIN pc = Procs, Goto(p, here, there)
    PROVE  At(places)' = IF there \in places THEN At(places) \union {p}
                                             ELSE At(places) \ {p}
BY DEF Goto, At

(* By how much that changes the number of processes in the set. *)
Shift(here, there, places) ==
    (IF there \in places THEN 1 ELSE 0) - (IF here \in places THEN 1 ELSE 0)

LEMMA GotoCount ==
    ASSUME NEW p \in Procs, NEW here, NEW there, NEW places,
           DOMAIN pc = Procs, Goto(p, here, there)
    PROVE  /\ Cardinality(At(places)) \in Nat
           /\ Cardinality(At(places)') \in Nat
           /\ Cardinality(At(places)') =
                Cardinality(At(places)) + Shift(here, there, places)
<1>1. At(places) \in SUBSET Procs
    BY DEF At
<1>2. IsFiniteSet(At(places))
    BY <1>1, ProcsFinite, FS_Subset
<1>3. Cardinality(At(places)) \in Nat
    BY <1>2, FS_CardinalityType
<1>4. p \in At(places) <=> here \in places
    BY DEF At, Goto
<1>5. CASE there \in places
  <2>1. At(places)' = At(places) \union {p}
      BY <1>5, GotoSet
  <2>2. Cardinality(At(places) \union {p}) =
          IF p \in At(places) THEN Cardinality(At(places))
                              ELSE Cardinality(At(places)) + 1
      BY <1>2, FS_AddElement
  <2>3. QED
      BY <1>3, <1>4, <1>5, <2>1, <2>2 DEF Shift
<1>6. CASE there \notin places
  <2>1. At(places)' = At(places) \ {p}
      BY <1>6, GotoSet
  <2>2. Cardinality(At(places) \ {p}) =
          IF p \in At(places) THEN Cardinality(At(places)) - 1
                              ELSE Cardinality(At(places))
      BY <1>2, FS_RemoveElement
  <2>3. Cardinality(At(places) \ {p}) \in Nat
      BY <1>2, FS_RemoveElement, FS_CardinalityType
  <2>4. QED
      BY <1>3, <1>4, <1>6, <2>1, <2>2, <2>3 DEF Shift
<1>7. QED
    BY <1>5, <1>6

(* The four sets the semaphores are counted against. *)
LEMMA GotoCounts ==
    ASSUME NEW p \in Procs, NEW here, NEW there,
           DOMAIN pc = Procs, Goto(p, here, there)
    PROVE  /\ Cardinality(Writing') = Cardinality(Writing)
                  + Shift(here, there, {"put_lock", "put_write", "put_advance"})
           /\ Cardinality(Posting') = Cardinality(Posting)
                  + Shift(here, there, {"put_unlock", "put_post"})
           /\ Cardinality(Taking') = Cardinality(Taking)
                  + Shift(here, there, {"take_lock", "take_read", "take_advance"})
           /\ Cardinality(Leaving') = Cardinality(Leaving)
                  + Shift(here, there, {"take_unlock", "take_post"})
<1>1. Cardinality(Writing') = Cardinality(Writing)
          + Shift(here, there, {"put_lock", "put_write", "put_advance"})
    BY GotoCount DEF Writing
<1>2. Cardinality(Posting') = Cardinality(Posting)
          + Shift(here, there, {"put_unlock", "put_post"})
    BY GotoCount DEF Posting
<1>3. Cardinality(Taking') = Cardinality(Taking)
          + Shift(here, there, {"take_lock", "take_read", "take_advance"})
    BY GotoCount DEF Taking
<1>4. Cardinality(Leaving') = Cardinality(Leaving)
          + Shift(here, there, {"take_unlock", "take_post"})
    BY GotoCount DEF Leaving
<1>5. QED
    BY <1>1, <1>2, <1>3, <1>4

LEMMA CountTypes ==
    /\ Cardinality(Writing) \in Nat
    /\ Cardinality(Posting) \in Nat
    /\ Cardinality(Taking) \in Nat
    /\ Cardinality(Leaving) \in Nat
<1>1. ASSUME NEW places PROVE Cardinality(At(places)) \in Nat
  <2>1. At(places) \in SUBSET Procs
      BY DEF At
  <2>2. QED
      BY <2>1, ProcsFinite, FS_Subset, FS_CardinalityType
<1>2. QED
    BY <1>1 DEF Writing, Posting, Taking, Leaving

(* The counts change at the edges of the operations and critical sections, *)
(* where the semaphores or the indices do.                                 *)
Counts(writing, posting, taking, leaving) ==
    /\ Cardinality(Writing') = Cardinality(Writing) + writing
    /\ Cardinality(Posting') = Cardinality(Posting) + posting
    /\ Cardinality(Taking') = Cardinality(Taking) + taking
    /\ Cardinality(Leaving') = Cardinality(Leaving) + leaving

QuietMove(p) ==
    \/ Goto(p, "idle", "push") \/ Goto(p, "idle", "trypush")
    \/ Goto(p, "trypush", "idle") \/ Goto(p, "put_lock", "put_write")
    \/ Goto(p, "put_write", "put_advance") \/ Goto(p, "put_unlock", "put_post")
    \/ Goto(p, "idle", "pop") \/ Goto(p, "idle", "trypop")
    \/ Goto(p, "trypop", "idle") \/ Goto(p, "take_lock", "take_read")
    \/ Goto(p, "take_read", "take_advance") \/ Goto(p, "take_unlock", "take_post")

LEMMA Moves ==
    ASSUME NEW p \in Procs, DOMAIN pc = Procs
    PROVE  /\ Goto(p, "push", "put_lock") => Counts(1, 0, 0, 0)
           /\ Goto(p, "trypush", "put_lock") => Counts(1, 0, 0, 0)
           /\ Goto(p, "put_advance", "put_unlock") => Counts(-1, 1, 0, 0)
           /\ Goto(p, "put_post", "idle") => Counts(0, -1, 0, 0)
           /\ Goto(p, "pop", "take_lock") => Counts(0, 0, 1, 0)
           /\ Goto(p, "trypop", "take_lock") => Counts(0, 0, 1, 0)
           /\ Goto(p, "take_advance", "take_unlock") => Counts(0, 0, -1, 1)
           /\ Goto(p, "take_post", "idle") => Counts(0, 0, 0, -1)
           /\ QuietMove(p) => Counts(0, 0, 0, 0)
<1>1. Goto(p, "push", "put_lock") => Counts(1, 0, 0, 0)
    BY GotoCounts, CountTypes DEF Counts, Shift
<1>2. Goto(p, "trypush", "put_lock") => Counts(1, 0, 0, 0)
    BY GotoCounts, CountTypes DEF Counts, Shift
<1>3. Goto(p, "put_advance", "put_unlock") => Counts(-1, 1, 0, 0)
    BY GotoCounts, CountTypes DEF Counts, Shift
<1>4. Goto(p, "put_post", "idle") => Counts(0, -1, 0, 0)
    BY GotoCounts, CountTypes DEF Counts, Shift
<1>5. Goto(p, "pop", "take_lock") => Counts(0, 0, 1, 0)
    BY GotoCounts, CountTypes DEF Counts, Shift
<1>6. Goto(p, "trypop", "take_lock") => Counts(0, 0, 1, 0)
    BY GotoCounts, CountTypes DEF Counts, Shift
<1>7. Goto(p, "take_advance", "take_unlock") => Counts(0, 0, -1, 1)
    BY GotoCounts, CountTypes DEF Counts, Shift
<1>8. Goto(p, "take_post", "idle") => Counts(0, 0, 0, -1)
    BY GotoCounts, CountTypes DEF Counts, Shift
<1>9. QuietMove(p) => Counts(0, 0, 0, 0)
    BY GotoCounts, CountTypes DEF Counts, Shift, QuietMove
<1>10. QED
    BY <1>1, <1>2, <1>3, <1>4, <1>5, <1>6, <1>7, <1>8, <1>9

(* A semaphore has room for one more post when the poster is counted. *)
LEMMA CountBounds ==
    ASSUME TypeOK, SlotsConserved
    PROVE  /\ Count \in 0 .. LINEUP_MAX
           /\ lq.full + Cardinality(Posting) <= LINEUP_MAX
           /\ lq.empty + Cardinality(Leaving) <= LINEUP_MAX
           /\ Count + Cardinality(Writing) <= LINEUP_MAX
<1>1. lq.full \in Nat /\ lq.empty \in Nat /\ LINEUP_MAX \in Nat
    BY QueueAssumption DEF TypeOK, QueueType
<1>2. QED
    BY <1>1, CountTypes DEF SlotsConserved, Count

(* Somebody at a place is counted there. *)
LEMMA SomebodyAt ==
    ASSUME NEW places, NEW p \in Procs, pc[p] \in places
    PROVE  Cardinality(At(places)) >= 1
<1>1. IsFiniteSet(At(places))
  <2>1. At(places) \in SUBSET Procs
      BY DEF At
  <2>2. QED
      BY <2>1, ProcsFinite, FS_Subset
<1>2. p \in At(places)
    BY DEF At
<1>3. Cardinality(At(places)) # 0
    BY <1>1, <1>2, FS_EmptySet
<1>4. QED
    BY <1>1, <1>3, FS_CardinalityType

(* Types, with the bounds of the semaphores and of the ring indices. *)
LEMMA TypeOKPreserved ==
    ASSUME Inv, [Next]_vars
    PROVE  TypeOK'
<1>a. Procs = Pushers \union Poppers /\ Pushers \intersect Poppers = {}
    BY QueueAssumption DEF Procs
<1>b. LINEUP_MAX \in Nat \ {0} /\ TypeOK
    BY QueueAssumption DEF Inv
<1>1. ASSUME NEW p \in Pushers, NEW o \in Orders, NEW op \in {"push", "trypush"},
          CallPush(p, o, op)
     PROVE TypeOK'
    BY <1>1, <1>a, <1>b DEF CallPush, Goto, SetItem, TypeOK, QueueType
<1>2. ASSUME NEW p \in Poppers, NEW op \in {"pop", "trypop"}, CallPop(p, op)
     PROVE TypeOK'
    BY <1>2, <1>a, <1>b DEF CallPop, Goto, TypeOK, QueueType
<1>3. ASSUME NEW p \in Procs, PushWaitEmpty(p)
     PROVE TypeOK'
    BY <1>3, <1>a, <1>b DEF PushWaitEmpty, Goto, SetItem, TypeOK, QueueType, ReserveSlot
<1>4. ASSUME NEW p \in Procs, TryPushFail(p)
     PROVE TypeOK'
    BY <1>4, <1>a, <1>b DEF TryPushFail, Goto, SetItem, TypeOK, QueueType
<1>5. ASSUME NEW p \in Procs, PutLock(p)
     PROVE TypeOK'
    BY <1>5, <1>a, <1>b DEF PutLock, Goto, SetItem, TypeOK, QueueType, Lock
<1>6. ASSUME NEW p \in Procs, PutWrite(p)
     PROVE TypeOK'
    BY <1>6, <1>a, <1>b DEF PutWrite, Goto, SetItem, TypeOK, QueueType, WriteSlot
<1>7. ASSUME NEW p \in Procs, PutAdvance(p)
     PROVE TypeOK'
    BY <1>7, <1>a, <1>b, NextSlotType DEF PutAdvance, Goto, SetItem, TypeOK, QueueType, AdvanceFill
<1>8. ASSUME NEW p \in Procs, PutUnlock(p)
     PROVE TypeOK'
  <2>1. lq.lock = 0
      BY <1>8 DEF PutUnlock, Goto, Inside, At, Inv, MutualExclusion
  <2>2. QED
      BY <1>8, <1>a, <1>b, <2>1 DEF PutUnlock, Goto, SetItem, TypeOK, QueueType, Unlock
<1>9. ASSUME NEW p \in Procs, PutPost(p)
     PROVE TypeOK'
  <2>1. Cardinality(Posting) >= 1
      BY <1>9, SomebodyAt DEF Posting, PutPost, Goto
  <2>2. lq.full + Cardinality(Posting) <= LINEUP_MAX
      BY <1>b, CountBounds DEF Inv
  <2>3. lq.full + 1 \in 0 .. LINEUP_MAX
      BY <1>b, <2>1, <2>2, CountTypes DEF TypeOK, QueueType
  <2>4. QED
      BY <1>9, <1>a, <1>b, <2>3 DEF PutPost, Goto, SetItem, TypeOK, QueueType, PostFull
<1>10. ASSUME NEW p \in Procs, PopWaitFull(p)
     PROVE TypeOK'
    BY <1>10, <1>a, <1>b DEF PopWaitFull, Goto, SetItem, TypeOK, QueueType, ReserveItem
<1>11. ASSUME NEW p \in Procs, TryPopFail(p)
     PROVE TypeOK'
    BY <1>11, <1>a, <1>b DEF TryPopFail, Goto, TypeOK, QueueType
<1>12. ASSUME NEW p \in Procs, TakeLock(p)
     PROVE TypeOK'
    BY <1>12, <1>a, <1>b DEF TakeLock, Goto, SetItem, TypeOK, QueueType, Lock
<1>13. ASSUME NEW p \in Procs, TakeRead(p)
     PROVE TypeOK'
    BY <1>13, <1>a, <1>b DEF TakeRead, Goto, SetItem, TypeOK, QueueType, ReadSlot
<1>14. ASSUME NEW p \in Procs, TakeAdvance(p)
     PROVE TypeOK'
    BY <1>14, <1>a, <1>b, NextSlotType DEF TakeAdvance, Goto, SetItem, TypeOK, QueueType, AdvanceUse
<1>15. ASSUME NEW p \in Procs, TakeUnlock(p)
     PROVE TypeOK'
  <2>1. lq.lock = 0
      BY <1>15 DEF TakeUnlock, Goto, Inside, At, Inv, MutualExclusion
  <2>2. QED
      BY <1>15, <1>a, <1>b, <2>1 DEF TakeUnlock, Goto, SetItem, TypeOK, QueueType, Unlock
<1>16. ASSUME NEW p \in Procs, TakePost(p)
     PROVE TypeOK'
  <2>1. Cardinality(Leaving) >= 1
      BY <1>16, SomebodyAt DEF Leaving, TakePost, Goto
  <2>2. lq.empty + Cardinality(Leaving) <= LINEUP_MAX
      BY <1>b, CountBounds DEF Inv
  <2>3. lq.empty + 1 \in 0 .. LINEUP_MAX
      BY <1>b, <2>1, <2>2, CountTypes DEF TypeOK, QueueType
  <2>4. QED
      BY <1>16, <1>a, <1>b, <2>3 DEF TakePost, Goto, SetItem, TypeOK, QueueType, PostEmpty
<1>17. CASE UNCHANGED vars
    BY <1>17, <1>b DEF vars, TypeOK, QueueType
<1>18. QED
    BY <1>1, <1>2, <1>3, <1>4, <1>5, <1>6, <1>7, <1>8, <1>9,
       <1>10, <1>11, <1>12, <1>13, <1>14, <1>15, <1>16, <1>17 DEF Next, Call, Step

(* The lock is 0 from sem_wait to sem_post, and only then. *)
LEMMA MutualExclusionPreserved ==
    ASSUME Inv, [Next]_vars
    PROVE  MutualExclusion'
<1>a. TypeOK /\ MutualExclusion /\ DOMAIN pc = Procs
    BY DEF Inv, TypeOK
<1>b. lq.lock \in {0, 1}
    BY <1>a DEF TypeOK, QueueType
<1>1. ASSUME NEW p \in Pushers, NEW o \in Orders, NEW op \in {"push", "trypush"},
          CallPush(p, o, op)
     PROVE MutualExclusion'
    BY <1>1, <1>a DEF CallPush, Goto, Inside, At, MutualExclusion,
                     TypeOK, QueueType
<1>2. ASSUME NEW p \in Poppers, NEW op \in {"pop", "trypop"}, CallPop(p, op)
     PROVE MutualExclusion'
    BY <1>2, <1>a DEF CallPop, Goto, Inside, At, MutualExclusion,
                     TypeOK, QueueType
<1>3. ASSUME NEW p \in Procs, PushWaitEmpty(p)
     PROVE MutualExclusion'
    BY <1>3, <1>a DEF PushWaitEmpty, ReserveSlot, Goto, Inside, At, MutualExclusion,
                     TypeOK, QueueType
<1>4. ASSUME NEW p \in Procs, TryPushFail(p)
     PROVE MutualExclusion'
    BY <1>4, <1>a DEF TryPushFail, Goto, Inside, At, MutualExclusion,
                     TypeOK, QueueType
<1>5. ASSUME NEW p \in Procs, PutLock(p)
     PROVE MutualExclusion'
  <2>1. Inside = {} /\ lq.lock = 1
      BY <1>5, <1>a, <1>b DEF PutLock, MutualExclusion
  <2>2. Inside' = Inside \union {p}
      BY <1>5, <1>a DEF PutLock, Goto, Inside, At
  <2>3. lq'.lock = 0
      BY <1>5, <1>a, <2>1 DEF PutLock, Lock, TypeOK, QueueType
  <2>4. QED
      BY <2>1, <2>2, <2>3 DEF MutualExclusion
<1>6. ASSUME NEW p \in Procs, PutWrite(p)
     PROVE MutualExclusion'
    BY <1>6, <1>a DEF PutWrite, WriteSlot, Goto, Inside, At, MutualExclusion,
                     TypeOK, QueueType
<1>7. ASSUME NEW p \in Procs, PutAdvance(p)
     PROVE MutualExclusion'
    BY <1>7, <1>a DEF PutAdvance, AdvanceFill, Goto, Inside, At, MutualExclusion,
                     TypeOK, QueueType
<1>8. ASSUME NEW p \in Procs, PutUnlock(p)
     PROVE MutualExclusion'
  <2>1. Inside = {p} /\ lq.lock = 0
      BY <1>8, <1>a DEF PutUnlock, Goto, Inside, At, MutualExclusion
  <2>2. Inside' = Inside \ {p}
      BY <1>8, <1>a DEF PutUnlock, Goto, Inside, At
  <2>3. lq'.lock = 1
      BY <1>8, <1>a, <2>1 DEF PutUnlock, Unlock, TypeOK, QueueType
  <2>4. QED
      BY <2>1, <2>2, <2>3 DEF MutualExclusion
<1>9. ASSUME NEW p \in Procs, PutPost(p)
     PROVE MutualExclusion'
    BY <1>9, <1>a DEF PutPost, PostFull, Goto, Inside, At, MutualExclusion,
                     TypeOK, QueueType
<1>10. ASSUME NEW p \in Procs, PopWaitFull(p)
     PROVE MutualExclusion'
    BY <1>10, <1>a DEF PopWaitFull, ReserveItem, Goto, Inside, At, MutualExclusion,
                     TypeOK, QueueType
<1>11. ASSUME NEW p \in Procs, TryPopFail(p)
     PROVE MutualExclusion'
    BY <1>11, <1>a DEF TryPopFail, Goto, Inside, At, MutualExclusion,
                     TypeOK, QueueType
<1>12. ASSUME NEW p \in Procs, TakeLock(p)
     PROVE MutualExclusion'
  <2>1. Inside = {} /\ lq.lock = 1
      BY <1>12, <1>a, <1>b DEF TakeLock, MutualExclusion
  <2>2. Inside' = Inside \union {p}
      BY <1>12, <1>a DEF TakeLock, Goto, Inside, At
  <2>3. lq'.lock = 0
      BY <1>12, <1>a, <2>1 DEF TakeLock, Lock, TypeOK, QueueType
  <2>4. QED
      BY <2>1, <2>2, <2>3 DEF MutualExclusion
<1>13. ASSUME NEW p \in Procs, TakeRead(p)
     PROVE MutualExclusion'
    BY <1>13, <1>a DEF TakeRead, Goto, Inside, At, MutualExclusion,
                     TypeOK, QueueType
<1>14. ASSUME NEW p \in Procs, TakeAdvance(p)
     PROVE MutualExclusion'
    BY <1>14, <1>a DEF TakeAdvance, AdvanceUse, Goto, Inside, At, MutualExclusion,
                     TypeOK, QueueType
<1>15. ASSUME NEW p \in Procs, TakeUnlock(p)
     PROVE MutualExclusion'
  <2>1. Inside = {p} /\ lq.lock = 0
      BY <1>15, <1>a DEF TakeUnlock, Goto, Inside, At, MutualExclusion
  <2>2. Inside' = Inside \ {p}
      BY <1>15, <1>a DEF TakeUnlock, Goto, Inside, At
  <2>3. lq'.lock = 1
      BY <1>15, <1>a, <2>1 DEF TakeUnlock, Unlock, TypeOK, QueueType
  <2>4. QED
      BY <2>1, <2>2, <2>3 DEF MutualExclusion
<1>16. ASSUME NEW p \in Procs, TakePost(p)
     PROVE MutualExclusion'
    BY <1>16, <1>a DEF TakePost, PostEmpty, Goto, Inside, At, MutualExclusion,
                     TypeOK, QueueType
<1>17. CASE UNCHANGED vars
    BY <1>17, <1>a DEF vars, MutualExclusion, Inside, At
<1>18. QED
    BY <1>1, <1>2, <1>3, <1>4, <1>5, <1>6, <1>7, <1>8, <1>9,
       <1>10, <1>11, <1>12, <1>13, <1>14, <1>15, <1>16, <1>17 DEF Next, Call, Step

(* No slot is lost or invented, and the two indices stay Count apart. *)
LEMMA CountsPreserved ==
    ASSUME Inv, [Next]_vars
    PROVE  SlotsConserved' /\ RingConsistent'
<1>a. TypeOK /\ DOMAIN pc = Procs /\ LINEUP_MAX \in Nat \ {0}
    BY QueueAssumption DEF Inv, TypeOK
<1>b. /\ lq \in QueueType(LINEUP_MAX, Orders \union {NoOrder})
      /\ lq.empty \in Nat /\ lq.full \in Nat
      /\ lq.use \in 0 .. LINEUP_MAX - 1 /\ lq.fill \in 0 .. LINEUP_MAX - 1
    BY <1>a DEF TypeOK, QueueType
<1>c. /\ Count \in 0 .. LINEUP_MAX
      /\ Count + Cardinality(Writing) <= LINEUP_MAX
      /\ SlotsConserved /\ RingConsistent
    BY CountBounds DEF Inv
<1>d. Pushers \subseteq Procs /\ Poppers \subseteq Procs
    BY DEF Procs
<1>1. ASSUME NEW p \in Pushers, NEW o \in Orders, NEW op \in {"push", "trypush"},
          CallPush(p, o, op)
     PROVE SlotsConserved' /\ RingConsistent'
    <2>1. Counts(0, 0, 0, 0)
      BY <1>1, <1>a, <1>d, Moves DEF CallPush, QuietMove
  <2>2. lq' = lq
      BY <1>1 DEF CallPush
  <2>3. Count' = Count
      BY <1>b, <2>1, <2>2, CountTypes DEF Counts, Count
  <2>4. SlotsConserved'
      BY <1>b, <1>c, <2>1, <2>2, <2>3, CountTypes DEF Counts, SlotsConserved
  <2>5. QED
      BY <1>c, <2>2, <2>3, <2>4 DEF RingConsistent
<1>2. ASSUME NEW p \in Poppers, NEW op \in {"pop", "trypop"}, CallPop(p, op)
     PROVE SlotsConserved' /\ RingConsistent'
    <2>1. Counts(0, 0, 0, 0)
      BY <1>2, <1>a, <1>d, Moves DEF CallPop, QuietMove
  <2>2. lq' = lq
      BY <1>2 DEF CallPop
  <2>3. Count' = Count
      BY <1>b, <2>1, <2>2, CountTypes DEF Counts, Count
  <2>4. SlotsConserved'
      BY <1>b, <1>c, <2>1, <2>2, <2>3, CountTypes DEF Counts, SlotsConserved
  <2>5. QED
      BY <1>c, <2>2, <2>3, <2>4 DEF RingConsistent
<1>3. ASSUME NEW p \in Procs, PushWaitEmpty(p)
     PROVE SlotsConserved' /\ RingConsistent'
  <2>1. Counts(1, 0, 0, 0)
      BY <1>3, <1>a, Moves DEF PushWaitEmpty
  <2>2. /\ lq'.empty = lq.empty - 1 /\ lq'.full = lq.full
        /\ lq'.fill = lq.fill /\ lq'.use = lq.use
      BY <1>3, <1>b DEF PushWaitEmpty, ReserveSlot, QueueType
  <2>3. Count' = Count
      BY <1>b, <2>1, <2>2, CountTypes DEF Counts, Count
  <2>4. SlotsConserved'
      BY <1>b, <1>c, <2>1, <2>2, <2>3, CountTypes DEF Counts, SlotsConserved
  <2>5. QED
      BY <1>c, <2>2, <2>3, <2>4 DEF RingConsistent
<1>4. ASSUME NEW p \in Procs, TryPushFail(p)
     PROVE SlotsConserved' /\ RingConsistent'
  <2>1. Counts(0, 0, 0, 0)
      BY <1>4, <1>a, Moves DEF TryPushFail, QuietMove
  <2>2. lq' = lq
      BY <1>4 DEF TryPushFail
  <2>3. Count' = Count
      BY <1>b, <2>1, <2>2, CountTypes DEF Counts, Count
  <2>4. SlotsConserved'
      BY <1>b, <1>c, <2>1, <2>2, <2>3, CountTypes DEF Counts, SlotsConserved
  <2>5. QED
      BY <1>c, <2>2, <2>3, <2>4 DEF RingConsistent
<1>5. ASSUME NEW p \in Procs, PutLock(p)
     PROVE SlotsConserved' /\ RingConsistent'
  <2>1. Counts(0, 0, 0, 0)
      BY <1>5, <1>a, Moves DEF PutLock, QuietMove
  <2>2. /\ lq'.empty = lq.empty /\ lq'.full = lq.full
        /\ lq'.fill = lq.fill /\ lq'.use = lq.use
      BY <1>5, <1>b DEF PutLock, Lock, QueueType
  <2>3. Count' = Count
      BY <1>b, <2>1, <2>2, CountTypes DEF Counts, Count
  <2>4. SlotsConserved'
      BY <1>b, <1>c, <2>1, <2>2, <2>3, CountTypes DEF Counts, SlotsConserved
  <2>5. QED
      BY <1>c, <2>2, <2>3, <2>4 DEF RingConsistent
<1>6. ASSUME NEW p \in Procs, PutWrite(p)
     PROVE SlotsConserved' /\ RingConsistent'
  <2>1. Counts(0, 0, 0, 0)
      BY <1>6, <1>a, Moves DEF PutWrite, QuietMove
  <2>2. /\ lq'.empty = lq.empty /\ lq'.full = lq.full
        /\ lq'.fill = lq.fill /\ lq'.use = lq.use
      BY <1>6, <1>b DEF PutWrite, WriteSlot, QueueType
  <2>3. Count' = Count
      BY <1>b, <2>1, <2>2, CountTypes DEF Counts, Count
  <2>4. SlotsConserved'
      BY <1>b, <1>c, <2>1, <2>2, <2>3, CountTypes DEF Counts, SlotsConserved
  <2>5. QED
      BY <1>c, <2>2, <2>3, <2>4 DEF RingConsistent
<1>7. ASSUME NEW p \in Procs, PutAdvance(p)
     PROVE SlotsConserved' /\ RingConsistent'
  <2>1. Counts(-1, 1, 0, 0)
      BY <1>7, <1>a, Moves DEF PutAdvance
  <2>2. /\ lq'.empty = lq.empty /\ lq'.full = lq.full
        /\ lq'.fill = NextSlot(lq.fill, LINEUP_MAX) /\ lq'.use = lq.use
      BY <1>7, <1>b DEF PutAdvance, AdvanceFill, QueueType
  <2>3. Count \in 0 .. LINEUP_MAX - 1
      BY <1>7, <1>a, <1>c, SomebodyAt, CountTypes DEF PutAdvance, Goto, Writing
  <2>4. Count' = Count + 1
      BY <1>b, <2>1, <2>2, CountTypes DEF Counts, Count
  <2>5. RingConsistent'
      BY <1>a, <1>b, <1>c, <2>2, <2>3, <2>4, FillAdvances DEF RingConsistent
  <2>6. SlotsConserved'
      BY <1>b, <1>c, <2>1, <2>2, <2>4, CountTypes DEF Counts, SlotsConserved
  <2>7. QED
      BY <2>5, <2>6
<1>8. ASSUME NEW p \in Procs, PutUnlock(p)
     PROVE SlotsConserved' /\ RingConsistent'
  <2>1. Counts(0, 0, 0, 0)
      BY <1>8, <1>a, Moves DEF PutUnlock, QuietMove
  <2>2. /\ lq'.empty = lq.empty /\ lq'.full = lq.full
        /\ lq'.fill = lq.fill /\ lq'.use = lq.use
      BY <1>8, <1>b DEF PutUnlock, Unlock, QueueType
  <2>3. Count' = Count
      BY <1>b, <2>1, <2>2, CountTypes DEF Counts, Count
  <2>4. SlotsConserved'
      BY <1>b, <1>c, <2>1, <2>2, <2>3, CountTypes DEF Counts, SlotsConserved
  <2>5. QED
      BY <1>c, <2>2, <2>3, <2>4 DEF RingConsistent
<1>9. ASSUME NEW p \in Procs, PutPost(p)
     PROVE SlotsConserved' /\ RingConsistent'
  <2>1. Counts(0, -1, 0, 0)
      BY <1>9, <1>a, Moves DEF PutPost
  <2>2. /\ lq'.empty = lq.empty /\ lq'.full = lq.full + 1
        /\ lq'.fill = lq.fill /\ lq'.use = lq.use
      BY <1>9, <1>b DEF PutPost, PostFull, QueueType
  <2>3. Count' = Count
      BY <1>b, <2>1, <2>2, CountTypes DEF Counts, Count
  <2>4. SlotsConserved'
      BY <1>b, <1>c, <2>1, <2>2, <2>3, CountTypes DEF Counts, SlotsConserved
  <2>5. QED
      BY <1>c, <2>2, <2>3, <2>4 DEF RingConsistent
<1>10. ASSUME NEW p \in Procs, PopWaitFull(p)
     PROVE SlotsConserved' /\ RingConsistent'
  <2>1. Counts(0, 0, 1, 0)
      BY <1>10, <1>a, Moves DEF PopWaitFull
  <2>2. /\ lq'.empty = lq.empty /\ lq'.full = lq.full - 1
        /\ lq'.fill = lq.fill /\ lq'.use = lq.use
      BY <1>10, <1>b DEF PopWaitFull, ReserveItem, QueueType
  <2>3. Count' = Count
      BY <1>b, <2>1, <2>2, CountTypes DEF Counts, Count
  <2>4. SlotsConserved'
      BY <1>b, <1>c, <2>1, <2>2, <2>3, CountTypes DEF Counts, SlotsConserved
  <2>5. QED
      BY <1>c, <2>2, <2>3, <2>4 DEF RingConsistent
<1>11. ASSUME NEW p \in Procs, TryPopFail(p)
     PROVE SlotsConserved' /\ RingConsistent'
  <2>1. Counts(0, 0, 0, 0)
      BY <1>11, <1>a, Moves DEF TryPopFail, QuietMove
  <2>2. lq' = lq
      BY <1>11 DEF TryPopFail
  <2>3. Count' = Count
      BY <1>b, <2>1, <2>2, CountTypes DEF Counts, Count
  <2>4. SlotsConserved'
      BY <1>b, <1>c, <2>1, <2>2, <2>3, CountTypes DEF Counts, SlotsConserved
  <2>5. QED
      BY <1>c, <2>2, <2>3, <2>4 DEF RingConsistent
<1>12. ASSUME NEW p \in Procs, TakeLock(p)
     PROVE SlotsConserved' /\ RingConsistent'
  <2>1. Counts(0, 0, 0, 0)
      BY <1>12, <1>a, Moves DEF TakeLock, QuietMove
  <2>2. /\ lq'.empty = lq.empty /\ lq'.full = lq.full
        /\ lq'.fill = lq.fill /\ lq'.use = lq.use
      BY <1>12, <1>b DEF TakeLock, Lock, QueueType
  <2>3. Count' = Count
      BY <1>b, <2>1, <2>2, CountTypes DEF Counts, Count
  <2>4. SlotsConserved'
      BY <1>b, <1>c, <2>1, <2>2, <2>3, CountTypes DEF Counts, SlotsConserved
  <2>5. QED
      BY <1>c, <2>2, <2>3, <2>4 DEF RingConsistent
<1>13. ASSUME NEW p \in Procs, TakeRead(p)
     PROVE SlotsConserved' /\ RingConsistent'
  <2>1. Counts(0, 0, 0, 0)
      BY <1>13, <1>a, Moves DEF TakeRead, QuietMove
  <2>2. lq' = lq
      BY <1>13 DEF TakeRead
  <2>3. Count' = Count
      BY <1>b, <2>1, <2>2, CountTypes DEF Counts, Count
  <2>4. SlotsConserved'
      BY <1>b, <1>c, <2>1, <2>2, <2>3, CountTypes DEF Counts, SlotsConserved
  <2>5. QED
      BY <1>c, <2>2, <2>3, <2>4 DEF RingConsistent
<1>14. ASSUME NEW p \in Procs, TakeAdvance(p)
     PROVE SlotsConserved' /\ RingConsistent'
  <2>1. Counts(0, 0, -1, 1)
      BY <1>14, <1>a, Moves DEF TakeAdvance
  <2>2. /\ lq'.empty = lq.empty /\ lq'.full = lq.full
        /\ lq'.fill = lq.fill /\ lq'.use = NextSlot(lq.use, LINEUP_MAX)
      BY <1>14, <1>b DEF TakeAdvance, AdvanceUse, QueueType
  <2>3. Count \in 1 .. LINEUP_MAX
    <3>1. Cardinality(Taking) >= 1
        BY <1>14, SomebodyAt DEF TakeAdvance, Goto, Taking
    <3>2. QED
        BY <1>b, <1>c, <3>1, CountTypes DEF Count
  <2>4. Count' = Count - 1
      BY <1>b, <2>1, <2>2, CountTypes DEF Counts, Count
  <2>5. RingConsistent'
      BY <1>a, <1>b, <1>c, <2>2, <2>3, <2>4, UseAdvances DEF RingConsistent
  <2>6. SlotsConserved'
      BY <1>b, <1>c, <2>1, <2>2, <2>4, CountTypes DEF Counts, SlotsConserved
  <2>7. QED
      BY <2>5, <2>6
<1>15. ASSUME NEW p \in Procs, TakeUnlock(p)
     PROVE SlotsConserved' /\ RingConsistent'
  <2>1. Counts(0, 0, 0, 0)
      BY <1>15, <1>a, Moves DEF TakeUnlock, QuietMove
  <2>2. /\ lq'.empty = lq.empty /\ lq'.full = lq.full
        /\ lq'.fill = lq.fill /\ lq'.use = lq.use
      BY <1>15, <1>b DEF TakeUnlock, Unlock, QueueType
  <2>3. Count' = Count
      BY <1>b, <2>1, <2>2, CountTypes DEF Counts, Count
  <2>4. SlotsConserved'
      BY <1>b, <1>c, <2>1, <2>2, <2>3, CountTypes DEF Counts, SlotsConserved
  <2>5. QED
      BY <1>c, <2>2, <2>3, <2>4 DEF RingConsistent
<1>16. ASSUME NEW p \in Procs, TakePost(p)
     PROVE SlotsConserved' /\ RingConsistent'
  <2>1. Counts(0, 0, 0, -1)
      BY <1>16, <1>a, Moves DEF TakePost
  <2>2. /\ lq'.empty = lq.empty + 1 /\ lq'.full = lq.full
        /\ lq'.fill = lq.fill /\ lq'.use = lq.use
      BY <1>16, <1>b DEF TakePost, PostEmpty, QueueType
  <2>3. Count' = Count
      BY <1>b, <2>1, <2>2, CountTypes DEF Counts, Count
  <2>4. SlotsConserved'
      BY <1>b, <1>c, <2>1, <2>2, <2>3, CountTypes DEF Counts, SlotsConserved
  <2>5. QED
      BY <1>c, <2>2, <2>3, <2>4 DEF RingConsistent
<1>17. CASE UNCHANGED vars
    BY <1>17, <1>c DEF vars, SlotsConserved, RingConsistent, Count, Writing,
                     Posting, Taking, Leaving, At
<1>18. QED
    BY <1>1, <1>2, <1>3, <1>4, <1>5, <1>6, <1>7, <1>8, <1>9,
       <1>10, <1>11, <1>12, <1>13, <1>14, <1>15, <1>16, <1>17 DEF Next, Call, Step

-----------------------------------------------------------------------------
(* The initial queue is empty and nobody is in it. *)
LEMMA InitInv == Init => Inv
<1>1. SUFFICES ASSUME Init PROVE Inv
    OBVIOUS
<1>2. LINEUP_MAX \in Nat \ {0} /\ Procs = Pushers \union Poppers
    BY QueueAssumption DEF Procs
<1>3. TypeOK
    BY <1>1, <1>2 DEF Init, NewQueue, TypeOK, QueueType
<1>4. /\ Writing = {} /\ Posting = {} /\ Taking = {} /\ Leaving = {}
      /\ Inside = {}
    BY <1>1 DEF Init, Writing, Posting, Taking, Leaving, Inside, At
<1>5. MutualExclusion
    BY <1>1, <1>4 DEF Init, NewQueue, MutualExclusion
<1>6. Count = 0
    BY <1>1, <1>4, FS_EmptySet DEF Init, NewQueue, Count
<1>7. SlotsConserved
    BY <1>1, <1>2, <1>4, <1>6, FS_EmptySet DEF Init, NewQueue, SlotsConserved
<1>8. RingConsistent
  <2>1. 0 % LINEUP_MAX = 0
      BY <1>2, WrapOnce
  <2>2. QED
      BY <1>1, <1>6, <2>1 DEF Init, NewQueue, RingConsistent
<1>9. QED
    BY <1>3, <1>5, <1>7, <1>8 DEF Inv

LEMMA InvPreserved == Inv /\ [Next]_vars => Inv'
BY TypeOKPreserved, MutualExclusionPreserved, CountsPreserved DEF Inv

(* The inductive invariant holds in every reachable state. *)
THEOREM QueueInvariant == Spec => []Inv
BY InitInv, InvPreserved, PTL DEF Spec

(* Every reachable state is well typed: no counting semaphore of the queue *)
(* ever exceeds the size of the ring or goes below zero.                   *)
THEOREM TypeCorrect == Spec => []TypeOK
BY QueueInvariant, PTL DEF Inv

(* However many clients and cashiers call push, trypush, pop and trypop at *)
(* once, at most one is between sem_wait(lock) and sem_post(lock).         *)
THEOREM QueueExclusive == Spec => []MutualExclusion
BY QueueInvariant, PTL DEF Inv

(* The semaphores empty and full, with the operations in flight, account    *)
(* for every slot of a ring of any size.                                    *)
THEOREM QueueConservesSlots == Spec => []SlotsConserved
BY QueueInvariant, PTL DEF Inv

(* The write index is Count slots ahead of the read index, wrap-around     *)
(* included, in a ring of any size.                                        *)
THEOREM QueueRingConsistent == Spec => []RingConsistent
BY QueueInvariant, PTL DEF Inv

(* Who writes has kept a slot, so the orders do not fill the ring, and the  *)
(* write index is at none of them: no push overwrites an unread order.      *)
THEOREM QueueNeverOverwrites == Spec => NothingOverwritten
<1>1. ASSUME Inv, NEW p \in Procs, PutWrite(p), NEW n \in 0 .. Count - 1
      PROVE  (lq.use + n) % LINEUP_MAX # lq.fill
  <2>1. LINEUP_MAX \in Nat \ {0} /\ lq.use \in 0 .. LINEUP_MAX - 1
      BY <1>1, QueueAssumption DEF Inv, TypeOK, QueueType
  <2>2. Cardinality(Writing) >= 1
      BY <1>1, SomebodyAt DEF PutWrite, Goto, Writing
  <2>3. /\ Count \in 0 .. LINEUP_MAX
        /\ Count + Cardinality(Writing) <= LINEUP_MAX
      BY <1>1, CountBounds DEF Inv
  <2>4. Count \in 0 .. LINEUP_MAX - 1
      BY <2>1, <2>2, <2>3, CountTypes
  <2>5. lq.fill = (lq.use + Count) % LINEUP_MAX
      BY <1>1 DEF Inv, RingConsistent
  <2>6. QED
      BY <2>1, <2>4, <2>5, SlotsDistinct
<1>2. Inv /\ [Next]_vars =>
        [\A p \in Procs : PutWrite(p) =>
            \A n \in 0 .. Count - 1 : (lq.use + n) % LINEUP_MAX # lq.fill]_vars
    BY <1>1
<1>3. QED
    BY <1>2, QueueInvariant, PTL DEF Spec, NothingOverwritten

-----------------------------------------------------------------------------
(* LineupQueue implements FifoQueue: the initial states map to initial     *)
(* states, and every step maps to a step of the FIFO queue or to a stutter. *)
(* Beyond the invariant this needs to know what is in the slots the        *)
(* indices point at, while the lock protects them: Carried.                *)

(* Between the write and the advance of fill the slot written holds the    *)
(* order pushed; between the read and the advance of use the popper holds  *)
(* the oldest order.  Before it has read, a popper holds nothing.          *)
Carried ==
    /\ \A p \in Procs : pc[p] = "put_advance" => lq.buffer[lq.fill] = item[p]
    /\ \A p \in Procs : pc[p] = "take_advance" => item[p] = lq.buffer[lq.use]
    /\ \A p \in Poppers :
          pc[p] \in {"idle", "pop", "trypop", "take_lock", "take_read"} =>
              item[p] = NoOrder

-----------------------------------------------------------------------------
LEMMA InitCarried == Init => Carried
BY QueueAssumption DEF Init, Carried, Procs

LEMMA CarriedPreserved == Inv /\ Carried /\ [Next]_vars => Carried'
<1> SUFFICES ASSUME Inv, Carried, [Next]_vars PROVE Carried'
    OBVIOUS
<1>a. TypeOK /\ MutualExclusion
    BY DEF Inv
<1>b. /\ lq \in QueueType(LINEUP_MAX, Orders \union {NoOrder})
      /\ item \in [Procs -> Orders \union {NoOrder}] /\ DOMAIN pc = Procs
    BY <1>a DEF TypeOK
<1>c. Pushers \subseteq Procs /\ Poppers \subseteq Procs /\ Pushers \intersect Poppers = {}
    BY QueueAssumption DEF Procs
<1>d. ASSUME NEW p \in Procs, NEW r \in Procs,
             pc[p] \in {"put_write", "put_advance", "take_read", "take_advance"},
             pc[r] \in {"put_advance", "take_advance"}
      PROVE  p = r
    BY <1>a, <1>d DEF MutualExclusion, Inside, At
<1>e. \A p \in Pushers : pc[p] \notin
          {"pop", "trypop", "take_lock", "take_read", "take_advance", "take_unlock", "take_post"}
    BY <1>a DEF TypeOK
<1>f. \A p \in Poppers : pc[p] \notin
          {"push", "trypush", "put_lock", "put_write", "put_advance", "put_unlock", "put_post"}
    BY <1>a DEF TypeOK
<1> USE DEF Carried, Goto, SetItem
<1>1. ASSUME NEW p \in Pushers, NEW o \in Orders, NEW op \in {"push", "trypush"},
             CallPush(p, o, op)
      PROVE  Carried'
    BY <1>1, <1>b, <1>c DEF CallPush
<1>2. ASSUME NEW p \in Poppers, NEW op \in {"pop", "trypop"}, CallPop(p, op)
      PROVE  Carried'
    BY <1>2, <1>b, <1>c DEF CallPop
<1>3. ASSUME NEW p \in Procs,
             PushWaitEmpty(p) \/ TryPushFail(p) \/ PutLock(p) \/ PutUnlock(p) \/ PutPost(p)
      PROVE  Carried'
  <2>1. lq'.buffer = lq.buffer /\ lq'.fill = lq.fill /\ lq'.use = lq.use
      BY <1>3, <1>b DEF PushWaitEmpty, TryPushFail, PutLock, PutUnlock, PutPost,
          ReserveSlot, Lock, Unlock, PostFull, QueueType
  <2>2. QED
      BY <1>3, <1>b, <1>c, <1>f, <2>1
      DEF PushWaitEmpty, TryPushFail, PutLock, PutUnlock, PutPost
<1>4. ASSUME NEW p \in Procs,
             PopWaitFull(p) \/ TryPopFail(p) \/ TakeLock(p) \/ TakeUnlock(p) \/ TakePost(p)
      PROVE  Carried'
  <2>1. lq'.buffer = lq.buffer /\ lq'.fill = lq.fill /\ lq'.use = lq.use
      BY <1>4, <1>b DEF PopWaitFull, TryPopFail, TakeLock, TakeUnlock, TakePost,
          ReserveItem, Lock, Unlock, PostEmpty, QueueType
  <2>2. QED
      BY <1>4, <1>b, <1>c, <2>1
      DEF PopWaitFull, TryPopFail, TakeLock, TakeUnlock, TakePost
<1>5. ASSUME NEW p \in Procs, PutWrite(p) PROVE Carried'
  <2>1. lq'.buffer[lq'.fill] = item[p]
      BY <1>5, <1>b DEF PutWrite, WriteSlot, QueueType
  <2>2. pc[p] = "put_write" /\ pc' = [pc EXCEPT ![p] = "put_advance"] /\ item' = item
      BY <1>5 DEF PutWrite
  <2>3. \A r \in Procs : pc[r] \notin {"put_advance", "take_advance"}
      BY <1>d, <2>2
  <2>4. QED
      BY <1>b, <1>c, <2>1, <2>2, <2>3
<1>6. ASSUME NEW p \in Procs, PutAdvance(p) PROVE Carried'
  <2>1. /\ pc[p] = "put_advance" /\ pc' = [pc EXCEPT ![p] = "put_unlock"]
        /\ item' = item
      BY <1>6 DEF PutAdvance
  <2>2. \A r \in Procs : pc[r] \in {"put_advance", "take_advance"} => r = p
      BY <1>d, <2>1
  <2>3. QED
      BY <1>b, <1>c, <2>1, <2>2
<1>7. ASSUME NEW p \in Procs, TakeRead(p) PROVE Carried'
  <2>1. /\ pc[p] = "take_read" /\ pc' = [pc EXCEPT ![p] = "take_advance"]
        /\ item' = [item EXCEPT ![p] = lq.buffer[lq.use]] /\ lq' = lq
      BY <1>7 DEF TakeRead, ReadSlot
  <2>2. QED
      BY <1>b, <1>c, <2>1
<1>8. ASSUME NEW p \in Procs, TakeAdvance(p) PROVE Carried'
  <2>1. /\ pc[p] = "take_advance" /\ pc' = [pc EXCEPT ![p] = "take_unlock"]
        /\ item' = item
      BY <1>8 DEF TakeAdvance
  <2>2. \A r \in Procs : pc[r] \in {"put_advance", "take_advance"} => r = p
      BY <1>d, <2>1
  <2>3. QED
      BY <1>b, <1>c, <2>1, <2>2
<1>9. CASE UNCHANGED vars
    BY <1>9 DEF vars
<1>10. QED
    BY <1>1, <1>2, <1>3, <1>4, <1>5, <1>6, <1>7, <1>8, <1>9 DEF Next, Call, Step
-----------------------------------------------------------------------------
(* The sequence of queued orders *)

LEMMA ItemsLength ==
    ASSUME NEW q, NEW n \in Nat, NEW size
    PROVE  Len(Items(q, n, size)) = n
<1> DEFINE order(k) == q.buffer[(q.use + k - 1) % size]
<1>1. Items(q, n, size) = [k \in 1 .. n |-> order(k)]
    BY DEF Items
<1> HIDE DEF order
<1>2. Len([k \in 1 .. n |-> order(k)]) = n
    OBVIOUS
<1>3. QED
    BY <1>1, <1>2

(* Moving fill past a written slot adds its order at the end. *)
LEMMA ItemsAppended ==
    ASSUME NEW q, NEW n \in Nat, NEW size, q.use \in Int
    PROVE  Items(q, n + 1, size) =
             Append(Items(q, n, size), q.buffer[(q.use + n) % size])
<1> DEFINE slot(k) == (q.use + k - 1) % size
           old == [k \in 1 .. n |-> q.buffer[slot(k)]]
           new == [k \in 1 .. n + 1 |-> q.buffer[slot(k)]]
<1>1. slot(n + 1) = (q.use + n) % size
  <2>1. q.use + (n + 1) - 1 = q.use + n
      OBVIOUS
  <2>2. QED
      BY <2>1
<1> HIDE DEF slot
<1>2. Append(old, q.buffer[slot(n + 1)]) =
        [k \in 1 .. n + 1 |-> IF k <= n THEN old[k] ELSE q.buffer[slot(n + 1)]]
    OBVIOUS
<1>3. Append(old, q.buffer[slot(n + 1)]) = new
    BY <1>2
<1>4. old = Items(q, n, size) /\ new = Items(q, n + 1, size)
    BY DEF Items, slot
<1>5. QED
    BY <1>1, <1>3, <1>4

(* Moving use past a read slot takes the oldest order away. *)
LEMMA ItemsTaken ==
    ASSUME NEW size \in Nat \ {0}, NEW q, NEW r, NEW n \in 1 .. size,
           q.use \in 0 .. size - 1, r.buffer = q.buffer,
           r.use = NextSlot(q.use, size)
    PROVE  /\ Items(r, n - 1, size) = Tail(Items(q, n, size))
           /\ Head(Items(q, n, size)) = q.buffer[q.use]
<1>1. ASSUME NEW k \in 1 .. n - 1
      PROVE  (r.use + k - 1) % size = (q.use + (k + 1) - 1) % size
  <2>1. k \in 1 .. size /\ q.use + (k + 1) - 1 = q.use + k
      OBVIOUS
  <2>2. (NextSlot(q.use, size) + (k - 1)) % size = (q.use + k) % size
      BY <2>1, UseAdvances
  <2>3. r.use + k - 1 = NextSlot(q.use, size) + (k - 1)
      BY NextSlotType
  <2>4. QED
      BY <2>1, <2>2, <2>3
<1> DEFINE order(k) == q.buffer[(q.use + k - 1) % size]
<1>2. Items(q, n, size) = [k \in 1 .. n |-> order(k)]
    BY DEF Items
<1>3. Items(r, n - 1, size) = [k \in 1 .. n - 1 |-> order(k + 1)]
    BY <1>1 DEF Items
<1>4. /\ Tail([k \in 1 .. n |-> order(k)]) = [k \in 1 .. n - 1 |-> order(k + 1)]
      /\ Head([k \in 1 .. n |-> order(k)]) = order(1)
  <2> HIDE DEF order
  <2>1. QED
      OBVIOUS
<1>5. (q.use + 1 - 1) % size = q.use
  <2>1. q.use + 1 - 1 = q.use /\ q.use \in Nat /\ q.use < size
      OBVIOUS
  <2>2. QED
      BY <2>1, WrapOnce
<1>6. order(1) = q.buffer[q.use]
    BY <1>5
<1>7. QED
    BY <1>2, <1>3, <1>4, <1>6

-----------------------------------------------------------------------------
(* The refinement mapping *)

PhaseOf(place) ==
    CASE place \in {"put_lock", "put_write", "put_advance"}    -> "inserting"
      [] place \in {"put_unlock", "put_post"}                  -> "inserted"
      [] place \in {"take_lock", "take_read", "take_advance"}  -> "removing"
      [] place \in {"take_unlock", "take_post"}                -> "removed"
      [] OTHER                                                 -> place

Phase == [p \in Procs |-> AbstractPhase(p)]
Held  == [p \in Procs |-> IF pc[p] = "take_advance" THEN NoOrder ELSE item[p]]

LEMMA PhaseIs == Phase = [p \in Procs |-> PhaseOf(pc[p])]
BY DEF Phase, AbstractPhase, PhaseOf

(* A step of one process is a move, or none, in the mapping. *)
LEMMA PhaseMoves ==
    ASSUME NEW p \in Procs, NEW here, NEW there, DOMAIN pc = Procs, Goto(p, here, there)
    PROVE  /\ Phase[p] = PhaseOf(here)
           /\ Phase' = [Phase EXCEPT ![p] = PhaseOf(there)]
           /\ PhaseOf(here) = PhaseOf(there) => Phase' = Phase
<1>1. pc[p] = here /\ pc' = [pc EXCEPT ![p] = there]
    BY DEF Goto
<1>2. Phase' = [r \in Procs |-> PhaseOf(pc'[r])]
    BY DEF Phase, AbstractPhase, PhaseOf
<1>3. QED
    BY <1>1, <1>2, PhaseIs

LEMMA HeldMoves ==
    ASSUME NEW p \in Procs, NEW here, NEW there, DOMAIN pc = Procs, Goto(p, here, there),
           here # "take_advance", there # "take_advance"
    PROVE  /\ Held[p] = item[p]
           /\ item' = item => Held' = Held
           /\ \A o : item \in [Procs -> Orders \union {NoOrder}] /\ SetItem(p, o) =>
                 Held' = [Held EXCEPT ![p] = o]
BY DEF Goto, SetItem, Held

(* The instance has its own copy of Cardinality. *)
LEMMA SameCardinality == \A S : Fifo!Cardinality(S) = Cardinality(S)
BY DEF Fifo!Cardinality, Cardinality

LEMMA AbstractAt ==
  TypeOK =>
    /\ Fifo!Procs = Procs
    /\ Fifo!At("inserting") = Writing /\ Fifo!At("inserted") = Posting
    /\ Fifo!At("removing") = Taking /\ Fifo!At("removed") = Leaving
<1> SUFFICES ASSUME TypeOK
             PROVE  /\ Fifo!Procs = Procs
                    /\ Fifo!At("inserting") = Writing /\ Fifo!At("inserted") = Posting
                    /\ Fifo!At("removing") = Taking /\ Fifo!At("removed") = Leaving
    OBVIOUS
<1>1. Fifo!Procs = Procs
    BY DEF Fifo!Procs, Procs
<1>2. ASSUME NEW ph PROVE Fifo!At(ph) = {p \in Procs : PhaseOf(pc[p]) = ph}
    BY <1>1, PhaseIs DEF Fifo!At, Phase
<1>3. \A p \in Procs : pc[p] \in
          {"idle", "push", "trypush", "put_lock", "put_write", "put_advance",
           "put_unlock", "put_post", "pop", "trypop", "take_lock", "take_read",
           "take_advance", "take_unlock", "take_post"}
    BY DEF TypeOK, Procs
<1>4. /\ Fifo!At("inserting") = Writing /\ Fifo!At("inserted") = Posting
      /\ Fifo!At("removing") = Taking /\ Fifo!At("removed") = Leaving
    BY <1>2, <1>3 DEF PhaseOf, Writing, Posting, Taking, Leaving, At
<1>5. QED
    BY <1>1, <1>4
-----------------------------------------------------------------------------
(* Initial states *)

LEMMA InitRefines == Init => Fifo!Init
<1> SUFFICES ASSUME Init PROVE Fifo!Init
    OBVIOUS
<1>1. TypeOK
    BY InitInv DEF Inv
<1>2. Count = 0
  <2>1. Posting = {} /\ Taking = {}
      BY DEF Init, Posting, Taking, At
  <2>2. QED
      BY <2>1, FS_EmptySet DEF Init, NewQueue, Count
<1>3. Contents = <<>>
    BY <1>2 DEF Contents, Items
<1>4. Phase = [p \in Procs |-> "idle"] /\ Held = [p \in Procs |-> NoOrder]
    BY DEF Init, Phase, Held, AbstractPhase
<1>5. Fifo!Procs = Procs
    BY <1>1, AbstractAt
<1>6. QED
    BY <1>3, <1>4, <1>5 DEF Fifo!Init, Phase, Held

-----------------------------------------------------------------------------
(* Steps *)

(* What the proof of each step starts from. *)
Before ==
    /\ Inv /\ Carried
    /\ lq \in QueueType(LINEUP_MAX, Orders \union {NoOrder})
    /\ item \in [Procs -> Orders \union {NoOrder}] /\ DOMAIN pc = Procs
    /\ lq.empty \in Nat /\ lq.full \in Nat
    /\ lq.use \in 0 .. LINEUP_MAX - 1 /\ lq.fill \in 0 .. LINEUP_MAX - 1
    /\ LINEUP_MAX \in Nat \ {0}
    /\ Count \in 0 .. LINEUP_MAX /\ Count + Cardinality(Writing) <= LINEUP_MAX
    /\ Len(Contents) = Count
    /\ Fifo!Procs = Procs
    /\ Fifo!At("inserting") = Writing /\ Fifo!At("inserted") = Posting
    /\ Fifo!At("removing") = Taking /\ Fifo!At("removed") = Leaving

LEMMA InvBefore == Inv /\ Carried => Before
<1> SUFFICES ASSUME Inv, Carried PROVE Before
    OBVIOUS
<1>1. TypeOK /\ SlotsConserved
    BY DEF Inv
<1>2. /\ lq \in QueueType(LINEUP_MAX, Orders \union {NoOrder})
      /\ item \in [Procs -> Orders \union {NoOrder}] /\ DOMAIN pc = Procs
    BY <1>1 DEF TypeOK
<1>3. LINEUP_MAX \in Nat \ {0}
    BY QueueAssumption
<1>4. /\ lq.empty \in Nat /\ lq.full \in Nat
      /\ lq.use \in 0 .. LINEUP_MAX - 1 /\ lq.fill \in 0 .. LINEUP_MAX - 1
    BY <1>2, <1>3 DEF QueueType
<1>5. Count \in 0 .. LINEUP_MAX /\ Count + Cardinality(Writing) <= LINEUP_MAX
    BY <1>1, CountBounds
<1>6. Len(Contents) = Count
    BY <1>3, <1>5, ItemsLength DEF Contents
<1>7. QED
    BY <1>1, <1>2, <1>3, <1>4, <1>5, <1>6, AbstractAt DEF Before

(* A step that leaves buffer, use and Count alone leaves the sequence alone. *)
LEMMA ContentsStay ==
    ASSUME lq'.buffer = lq.buffer, lq'.use = lq.use, Count' = Count
    PROVE  Contents' = Contents
BY DEF Contents, Items

LEMMA CountMoves ==
    ASSUME Before, NEW writing, NEW posting \in Int, NEW taking \in Int, NEW leaving,
           Counts(writing, posting, taking, leaving), lq'.full \in Int
    PROVE  Count' = Count + (lq'.full - lq.full) + posting + taking
<1>1. lq.full \in Nat
    BY DEF Before
<1>2. /\ Cardinality(Posting') = Cardinality(Posting) + posting
      /\ Cardinality(Taking') = Cardinality(Taking) + taking
    BY DEF Counts
<1>3. Count' = lq'.full + Cardinality(Posting') + Cardinality(Taking')
    BY DEF Count
<1>4. QED
    BY <1>1, <1>2, <1>3, CountTypes DEF Count

LEMMA CallPushRefines ==
    ASSUME Before, NEW p \in Pushers, NEW o \in Orders, NEW op \in {"push", "trypush"},
           CallPush(p, o, op)
    PROVE  Fifo!BeginPush(p, o)
<1>1. p \in Procs /\ lq' = lq /\ Goto(p, "idle", op) /\ SetItem(p, o)
    BY DEF Procs, CallPush
<1>2. Phase[p] = "idle" /\ Phase' = [Phase EXCEPT ![p] = op]
    BY <1>1, PhaseMoves DEF PhaseOf, Before
<1>3. Held' = [Held EXCEPT ![p] = o]
    BY <1>1, HeldMoves DEF Before
<1>4. QuietMove(p)
    BY <1>1 DEF QuietMove
<1>5. Contents' = Contents
    BY <1>1, <1>4, Moves, CountMoves, ContentsStay DEF Before
<1>6. QED
    BY <1>2, <1>3, <1>5 DEF Fifo!BeginPush, Fifo!Move, Fifo!Hold, Phase, Held

LEMMA PushWaitEmptyRefines ==
    ASSUME Before, NEW p \in Procs, PushWaitEmpty(p)
    PROVE  Fifo!AcceptPush(p)
<1>1. PICK op \in {"push", "trypush"} : Goto(p, op, "put_lock")
    BY DEF PushWaitEmpty
<1>2. /\ item' = item /\ lq.empty > 0 /\ lq'.full = lq.full
      /\ lq'.buffer = lq.buffer /\ lq'.use = lq.use
    BY DEF PushWaitEmpty, ReserveSlot, Before, QueueType
<1>3. Phase[p] = op /\ Phase' = [Phase EXCEPT ![p] = "inserting"]
    BY <1>1, PhaseMoves DEF PhaseOf, Before
<1>4. Held' = Held
    BY <1>1, <1>2, HeldMoves DEF Before
<1>5. Contents' = Contents
    BY <1>1, <1>2, Moves, CountMoves, ContentsStay DEF Before
<1>6. Len(Contents) + Cardinality(Fifo!At("inserting")) < LINEUP_MAX
    BY SMTT(30), <1>2, CountTypes DEF Before, Inv, SlotsConserved
<1>7. QED
    BY <1>3, <1>4, <1>5, <1>6, SameCardinality DEF Fifo!AcceptPush, Fifo!Move, Phase, Held

LEMMA TryPushFailRefines ==
    ASSUME Before, NEW p \in Procs, TryPushFail(p)
    PROVE  Fifo!RefusePush(p)
<1>1. Goto(p, "trypush", "idle") /\ SetItem(p, NoOrder) /\ lq' = lq /\ lq.empty = 0
    BY DEF TryPushFail
<1>2. Phase[p] = "trypush" /\ Phase' = [Phase EXCEPT ![p] = "idle"]
    BY <1>1, PhaseMoves DEF PhaseOf, Before
<1>3. Held' = [Held EXCEPT ![p] = NoOrder]
    BY <1>1, HeldMoves DEF Before
<1>4. QuietMove(p)
    BY <1>1 DEF QuietMove
<1>5. Contents' = Contents
    BY <1>1, <1>4, Moves, CountMoves, ContentsStay DEF Before
<1>6. Len(Contents) + Cardinality(Fifo!At("inserting"))
          + Cardinality(Fifo!At("removed")) >= LINEUP_MAX
    BY <1>1, CountTypes DEF Before, Inv, SlotsConserved
<1>7. QED
    BY <1>2, <1>3, <1>5, <1>6, SameCardinality DEF Fifo!RefusePush, Fifo!Move, Fifo!Hold, Phase, Held

(* The order enters the sequence when fill moves past its slot. *)
LEMMA PutAdvanceRefines ==
    ASSUME Before, NEW p \in Procs, PutAdvance(p)
    PROVE  Fifo!Insert(p)
<1>1. Goto(p, "put_advance", "put_unlock") /\ item' = item
    BY DEF PutAdvance
<1>2. lq'.full = lq.full /\ lq'.buffer = lq.buffer /\ lq'.use = lq.use
    BY DEF PutAdvance, AdvanceFill, Before, QueueType
<1>3. Phase[p] = "inserting" /\ Phase' = [Phase EXCEPT ![p] = "inserted"]
    BY <1>1, PhaseMoves DEF PhaseOf, Before
<1>4. Held' = Held /\ Held[p] = item[p]
    BY <1>1, HeldMoves DEF Before
<1>5. Count' = Count + 1
    BY <1>1, <1>2, Moves, CountMoves DEF Before
<1>6. lq.buffer[lq.fill] = item[p] /\ lq.fill = (lq.use + Count) % LINEUP_MAX
    BY <1>1 DEF Before, Carried, Inv, RingConsistent, Goto
<1>7. Items(lq, Count + 1, LINEUP_MAX) = Append(Contents, Held[p])
  <2>1. Count \in Nat /\ lq.use \in Int
      BY DEF Before
  <2>2. Items(lq, Count + 1, LINEUP_MAX) =
          Append(Contents, lq.buffer[(lq.use + Count) % LINEUP_MAX])
      BY <2>1, ItemsAppended DEF Contents
  <2>3. QED
      BY <1>4, <1>6, <2>2
<1>8. Contents' = Items(lq, Count + 1, LINEUP_MAX)
    BY <1>2, <1>5 DEF Contents, Items
<1>9. QED
    BY <1>3, <1>4, <1>7, <1>8 DEF Fifo!Insert, Fifo!Move, Phase, Held

LEMMA PutPostRefines ==
    ASSUME Before, NEW p \in Procs, PutPost(p)
    PROVE  Fifo!EndPush(p)
<1>1. Goto(p, "put_post", "idle") /\ SetItem(p, NoOrder)
    BY DEF PutPost
<1>2. lq'.full = lq.full + 1 /\ lq'.buffer = lq.buffer /\ lq'.use = lq.use
    BY DEF PutPost, PostFull, Before, QueueType
<1>3. Phase[p] = "inserted" /\ Phase' = [Phase EXCEPT ![p] = "idle"]
    BY <1>1, PhaseMoves DEF PhaseOf, Before
<1>4. Held' = [Held EXCEPT ![p] = NoOrder]
    BY <1>1, HeldMoves DEF Before
<1>5. Contents' = Contents
    BY SMTT(30), <1>1, <1>2, Moves, CountMoves, ContentsStay DEF Before
<1>6. QED
    BY <1>3, <1>4, <1>5 DEF Fifo!EndPush, Fifo!Move, Fifo!Hold, Phase, Held

LEMMA CallPopRefines ==
    ASSUME Before, NEW p \in Poppers, NEW op \in {"pop", "trypop"}, CallPop(p, op)
    PROVE  Fifo!BeginPop(p)
<1>1. p \in Procs /\ lq' = lq /\ item' = item /\ Goto(p, "idle", op)
    BY DEF Procs, CallPop
<1>2. Phase[p] = "idle" /\ Phase' = [Phase EXCEPT ![p] = op]
    BY <1>1, PhaseMoves DEF PhaseOf, Before
<1>3. Held' = Held
    BY <1>1, HeldMoves DEF Before
<1>4. QuietMove(p)
    BY <1>1 DEF QuietMove
<1>5. Contents' = Contents
    BY <1>1, <1>4, Moves, CountMoves, ContentsStay DEF Before
<1>6. QED
    BY <1>2, <1>3, <1>5 DEF Fifo!BeginPop, Fifo!Move, Phase, Held

LEMMA PopWaitFullRefines ==
    ASSUME Before, NEW p \in Procs, PopWaitFull(p)
    PROVE  Fifo!AcceptPop(p)
<1>1. PICK op \in {"pop", "trypop"} : Goto(p, op, "take_lock")
    BY DEF PopWaitFull
<1>2. /\ item' = item /\ lq.full > 0 /\ lq'.full = lq.full - 1
      /\ lq'.buffer = lq.buffer /\ lq'.use = lq.use
    BY DEF PopWaitFull, ReserveItem, Before, QueueType
<1>3. Phase[p] = op /\ Phase' = [Phase EXCEPT ![p] = "removing"]
    BY <1>1, PhaseMoves DEF PhaseOf, Before
<1>4. Held' = Held
    BY <1>1, <1>2, HeldMoves DEF Before
<1>5. Contents' = Contents
    BY SMTT(30), <1>1, <1>2, Moves, CountMoves, ContentsStay DEF Before
<1>6. Cardinality(Fifo!At("removing")) < Len(Contents)
    BY SMTT(30), <1>2, CountTypes DEF Before, Count
<1>7. QED
    BY <1>3, <1>4, <1>5, <1>6, SameCardinality DEF Fifo!AcceptPop, Fifo!Move, Phase, Held

LEMMA TryPopFailRefines ==
    ASSUME Before, NEW p \in Procs, TryPopFail(p)
    PROVE  Fifo!RefusePop(p)
<1>1. Goto(p, "trypop", "idle") /\ item' = item /\ lq' = lq /\ lq.full = 0
    BY DEF TryPopFail
<1>2. Phase[p] = "trypop" /\ Phase' = [Phase EXCEPT ![p] = "idle"]
    BY <1>1, PhaseMoves DEF PhaseOf, Before
<1>3. Held' = Held
    BY <1>1, HeldMoves DEF Before
<1>4. QuietMove(p)
    BY <1>1 DEF QuietMove
<1>5. Contents' = Contents
    BY <1>1, <1>4, Moves, CountMoves, ContentsStay DEF Before
<1>6. Len(Contents) <= Cardinality(Fifo!At("removing")) + Cardinality(Fifo!At("inserted"))
    BY <1>1, CountTypes DEF Before, Count
<1>7. QED
    BY <1>2, <1>3, <1>5, <1>6, SameCardinality DEF Fifo!RefusePop, Fifo!Move, Phase, Held

(* The oldest order leaves the sequence when use moves past its slot. *)
LEMMA TakeAdvanceRefines ==
    ASSUME Before, NEW p \in Procs, TakeAdvance(p)
    PROVE  Fifo!Remove(p)
<1>1. Goto(p, "take_advance", "take_unlock") /\ item' = item
    BY DEF TakeAdvance
<1>2. /\ lq'.full = lq.full /\ lq'.buffer = lq.buffer
      /\ lq'.use = NextSlot(lq.use, LINEUP_MAX)
    BY DEF TakeAdvance, AdvanceUse, Before, QueueType
<1>3. Phase[p] = "removing" /\ Phase' = [Phase EXCEPT ![p] = "removed"]
    BY <1>1, PhaseMoves DEF PhaseOf, Before
<1>4. item[p] = lq.buffer[lq.use]
    BY <1>1 DEF Before, Carried, Goto
<1>5. Held' = [Held EXCEPT ![p] = lq.buffer[lq.use]]
    BY <1>1, <1>4 DEF Held, Goto, Before
<1>6. Count' = Count - 1
    BY <1>1, <1>2, Moves, CountMoves DEF Before
<1>7. Count \in 1 .. LINEUP_MAX
  <2>1. Cardinality(Taking) >= 1
      BY <1>1, SomebodyAt DEF Goto, Taking
  <2>2. QED
      BY <2>1, CountTypes DEF Count, Before
<1>8. /\ Items(lq', Count - 1, LINEUP_MAX) = Tail(Contents)
      /\ Head(Contents) = lq.buffer[lq.use]
    BY <1>2, <1>7, ItemsTaken DEF Before, Contents
<1>9. Contents' = Tail(Contents)
    BY <1>6, <1>8 DEF Contents
<1>10. Contents # <<>>
    BY <1>7 DEF Before
<1>11. QED
    BY <1>3, <1>5, <1>8, <1>9, <1>10 DEF Fifo!Remove, Fifo!Move, Fifo!Hold, Phase, Held

LEMMA TakePostRefines ==
    ASSUME Before, NEW p \in Procs, TakePost(p)
    PROVE  Fifo!EndPop(p)
<1>1. Goto(p, "take_post", "idle") /\ SetItem(p, NoOrder)
    BY DEF TakePost
<1>2. lq'.full = lq.full /\ lq'.buffer = lq.buffer /\ lq'.use = lq.use
    BY DEF TakePost, PostEmpty, Before, QueueType
<1>3. Phase[p] = "removed" /\ Phase' = [Phase EXCEPT ![p] = "idle"]
    BY <1>1, PhaseMoves DEF PhaseOf, Before
<1>4. Held' = [Held EXCEPT ![p] = NoOrder]
    BY <1>1, HeldMoves DEF Before
<1>5. Contents' = Contents
    BY <1>1, <1>2, Moves, CountMoves, ContentsStay DEF Before
<1>6. QED
    BY <1>3, <1>4, <1>5 DEF Fifo!EndPop, Fifo!Move, Fifo!Hold, Phase, Held

(* Taking and releasing the lock, writing a slot nobody counts yet and     *)
(* reading one are not seen in the FIFO queue.                             *)
LEMMA StutterRefines ==
    ASSUME Before, NEW p \in Procs,
           PutLock(p) \/ PutWrite(p) \/ PutUnlock(p)
           \/ TakeLock(p) \/ TakeRead(p) \/ TakeUnlock(p)
    PROVE  UNCHANGED Fifo!vars
<1>1. /\ \/ Goto(p, "put_lock", "put_write") \/ Goto(p, "put_write", "put_advance")
         \/ Goto(p, "put_unlock", "put_post") \/ Goto(p, "take_lock", "take_read")
         \/ Goto(p, "take_read", "take_advance") \/ Goto(p, "take_unlock", "take_post")
      /\ lq'.full = lq.full /\ lq'.use = lq.use
    BY DEF PutLock, PutWrite, PutUnlock, TakeLock, TakeRead, TakeUnlock, Before,
           Lock, Unlock, WriteSlot, QueueType
<1>2. Phase' = Phase
  <2>1. ASSUME NEW here, NEW there, Goto(p, here, there), PhaseOf(here) = PhaseOf(there)
        PROVE  Phase' = Phase
      BY <2>1, PhaseMoves DEF Before
  <2>2. /\ PhaseOf("put_lock") = PhaseOf("put_write")
        /\ PhaseOf("put_write") = PhaseOf("put_advance")
        /\ PhaseOf("put_unlock") = PhaseOf("put_post")
        /\ PhaseOf("take_lock") = PhaseOf("take_read")
        /\ PhaseOf("take_read") = PhaseOf("take_advance")
        /\ PhaseOf("take_unlock") = PhaseOf("take_post")
      BY DEF PhaseOf
  <2>3. QED
      BY <1>1, <2>1, <2>2
<1>3. Held' = Held
  <2>1. CASE TakeRead(p)
    <3>1. /\ pc[p] = "take_read" /\ pc' = [pc EXCEPT ![p] = "take_advance"]
          /\ item' = [item EXCEPT ![p] = ReadSlot(lq)]
        BY <2>1 DEF TakeRead, Goto, SetItem
    <3>2. p \in Poppers
        BY <3>1 DEF Before, Inv, TypeOK, Procs
    <3>3. item[p] = NoOrder
        BY <3>1, <3>2 DEF Before, Carried
    <3>4. QED
        BY <3>1, <3>3 DEF Held, Before
  <2>2. CASE ~ TakeRead(p)
    <3>1. /\ item' = item /\ pc[p] # "take_advance"
          /\ \E there : there # "take_advance" /\ pc' = [pc EXCEPT ![p] = there]
        BY <2>2 DEF PutLock, PutWrite, PutUnlock, TakeLock, TakeUnlock, Goto
    <3>2. QED
        BY <3>1 DEF Held, Before
  <2>3. QED
      BY <2>1, <2>2
<1>4. QuietMove(p)
    BY <1>1 DEF QuietMove
<1>5. Count' = Count
    BY <1>1, <1>4, Moves, CountMoves DEF Before
<1>6. Contents' = Contents
  <2>1. CASE PutWrite(p)
    <3>1. lq'.buffer = [lq.buffer EXCEPT ![lq.fill] = item[p]]
        BY <2>1 DEF PutWrite, WriteSlot, Before, QueueType
    <3>2. Cardinality(Writing) >= 1
        BY <2>1, SomebodyAt DEF PutWrite, Goto, Writing
    <3>3. Count \in 0 .. LINEUP_MAX - 1
        BY <3>2, CountTypes DEF Before
    <3>4. lq.fill = (lq.use + Count) % LINEUP_MAX
        BY DEF Before, Inv, RingConsistent
    <3>5. ASSUME NEW k \in 1 .. Count
          PROVE  (lq.use + k - 1) % LINEUP_MAX # lq.fill
      <4>1. k - 1 \in 0 .. Count - 1 /\ lq.use + k - 1 = lq.use + (k - 1)
          BY <3>3 DEF Before
      <4>2. QED
          BY <3>3, <3>4, <4>1, SlotsDistinct DEF Before
    <3>6. lq.buffer \in [0 .. LINEUP_MAX - 1 -> Orders \union {NoOrder}]
        BY DEF Before, QueueType
    <3>7. ASSUME NEW k \in 1 .. Count
          PROVE  lq'.buffer[(lq.use + k - 1) % LINEUP_MAX]
                   = lq.buffer[(lq.use + k - 1) % LINEUP_MAX]
        BY <3>1, <3>5, <3>6
    <3>8. QED
        BY <1>1, <1>5, <3>7 DEF Contents, Items
  <2>2. CASE ~ PutWrite(p)
    <3>1. lq'.buffer = lq.buffer
        BY <2>2 DEF PutLock, PutUnlock, TakeLock, TakeRead, TakeUnlock, Lock, Unlock,
            Before, QueueType
    <3>2. QED
        BY <1>1, <1>5, <3>1, ContentsStay
  <2>3. QED
      BY <2>1, <2>2
<1>7. QED
    BY <1>2, <1>3, <1>6 DEF Fifo!vars, Phase, Held

(* Every step of the ring and its semaphores is one of the FIFO queue or   *)
(* none.                                                                   *)
LEMMA NextRefines == Inv /\ Carried /\ [Next]_vars => [Fifo!Next]_(Fifo!vars)
<1> SUFFICES ASSUME Inv, Carried, [Next]_vars
             PROVE  Fifo!Next \/ UNCHANGED Fifo!vars
    OBVIOUS
<1>1. Before
    BY InvBefore
<1>2. ASSUME NEW p \in Procs,
             pc[p] \in {"push", "trypush", "put_advance", "put_post"}
      PROVE  p \in Pushers
    BY <1>2 DEF Inv, TypeOK, Procs
<1>3. ASSUME NEW p \in Procs,
             pc[p] \in {"pop", "trypop", "take_advance", "take_post"}
      PROVE  p \in Poppers
    BY <1>3 DEF Inv, TypeOK, Procs
<1>4. CASE Call
    BY <1>1, <1>4, CallPushRefines, CallPopRefines DEF Call, Fifo!Next
<1>5. ASSUME NEW p \in Procs, PushWaitEmpty(p) \/ TryPushFail(p) \/ PutAdvance(p) \/ PutPost(p)
      PROVE  Fifo!Next
  <2>1. p \in Pushers
      BY <1>2, <1>5 DEF PushWaitEmpty, TryPushFail, PutAdvance, PutPost, Goto
  <2>2. Fifo!AcceptPush(p) \/ Fifo!RefusePush(p) \/ Fifo!Insert(p) \/ Fifo!EndPush(p)
      BY <1>1, <1>5, PushWaitEmptyRefines, TryPushFailRefines, PutAdvanceRefines, PutPostRefines
  <2>3. QED
      BY <2>1, <2>2 DEF Fifo!Next
<1>6. ASSUME NEW p \in Procs, PopWaitFull(p) \/ TryPopFail(p) \/ TakeAdvance(p) \/ TakePost(p)
      PROVE  Fifo!Next
  <2>1. p \in Poppers
      BY <1>3, <1>6 DEF PopWaitFull, TryPopFail, TakeAdvance, TakePost, Goto
  <2>2. Fifo!AcceptPop(p) \/ Fifo!RefusePop(p) \/ Fifo!Remove(p) \/ Fifo!EndPop(p)
      BY <1>1, <1>6, PopWaitFullRefines, TryPopFailRefines, TakeAdvanceRefines, TakePostRefines
  <2>3. QED
      BY <2>1, <2>2 DEF Fifo!Next
<1>7. ASSUME NEW p \in Procs,
             PutLock(p) \/ PutWrite(p) \/ PutUnlock(p)
             \/ TakeLock(p) \/ TakeRead(p) \/ TakeUnlock(p)
      PROVE  UNCHANGED Fifo!vars
    BY <1>1, <1>7, StutterRefines
<1>8. CASE UNCHANGED vars
  <2>1. lq' = lq /\ pc' = pc /\ item' = item
      BY <1>8 DEF vars
  <2>2. QED
      BY <2>1 DEF Fifo!vars, Contents, Items, Count, Posting, Taking, At, AbstractPhase
<1>9. QED
    BY <1>4, <1>5, <1>6, <1>7, <1>8 DEF Next, Step

(* The slots the indices point at hold what the operations carry. *)
THEOREM QueueCarries == Spec => []Carried
<1>1. Inv /\ Inv' /\ Carried /\ [Next]_vars => Carried'
    BY CarriedPreserved
<1>2. QED
    BY <1>1, InitCarried, QueueInvariant, PTL DEF Spec

(* lineup_queue.h keeps the promise of FifoQueue: under any interleaving   *)
(* of its callers orders leave in the order they were written, none is     *)
(* lost or duplicated, no accepted call is turned back and a try call is   *)
(* refused only when the operations in flight explain it.                  *)
THEOREM QueueIsFifo == Spec => ImplementsFifo
<1>1. Init => Fifo!Init
    BY InitRefines
<1>2. Inv /\ Carried /\ [Next]_vars => [Fifo!Next]_(Fifo!vars)
    BY NextRefines
<1>3. QED
    BY <1>1, <1>2, QueueInvariant, QueueCarries, PTL DEF Spec, ImplementsFifo, Fifo!Spec
=============================================================================
