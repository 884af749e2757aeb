----------------------------- MODULE DemosProofs -----------------------------
(***************************************************************************)
(* Proofs about the stand-alone programs under src/DS, for any numbers of  *)
(* threads, tokens, nodes, slots and loops.  Each program has an invariant *)
(* of its own; that it holds whichever program runs is an invariant of     *)
(* Demos.                                                                  *)
(***************************************************************************)
EXTENDS Demos, Sequences, Sums, SemQueueProofs, FunctionTheorems,
        SequenceTheorems

LEMMA Sizes ==
    /\ THREADS \in Nat /\ VALUES \in Nat /\ CLIENTS \in Nat /\ CASHIERS \in Nat
    /\ NO_OF_THREADS \in Nat /\ NO_OF_THREADS > 0
    /\ NO_OF_LOOPS \in Nat /\ NO_OF_LOOPS > 0
    /\ PRODUCERS \in Nat /\ CONSUMERS \in Nat
BY DemosAssumption

(* A set that gains or loses one element. *)
LEMMA OneMore ==
    ASSUME NEW S, IsFiniteSet(S), NEW T, NEW x, x \notin S, T = S \union {x}
    PROVE  IsFiniteSet(T) /\ Cardinality(T) = Cardinality(S) + 1 /\ Cardinality(S) \in Nat
BY FS_AddElement, FS_CardinalityType

LEMMA OneLess ==
    ASSUME NEW S, IsFiniteSet(S), NEW T, NEW x \in S, T = S \ {x}
    PROVE  IsFiniteSet(T) /\ Cardinality(T) = Cardinality(S) - 1 /\ Cardinality(S) \in Nat
BY FS_RemoveElement, FS_CardinalityType

-----------------------------------------------------------------------------
(* spawner.c *)

Running == {t \in 1 .. NO_OF_THREADS : pc[t] = "running"}

Pacing == IF main = "pace" THEN 1 ELSE 0
Waited == IF main = "done" THEN 1 ELSE 0

(* Threads are created in order, and each that runs still owes the post     *)
(* that main will wait for: with the one post to spare, main is one ahead. *)
SpawnerInv ==
    /\ s \in Nat /\ i \in Nat
    /\ main \in {"create", "pace", "last", "done"}
    /\ pc \in [1 .. NO_OF_THREADS -> {"none", "running", "done"}]
    /\ main \in {"create", "pace"} => i < NO_OF_THREADS
    /\ \A t \in 1 .. NO_OF_THREADS : t > i + Pacing => pc[t] = "none"
    /\ Cardinality(Running) = 1 + Pacing - s - Waited

LEMMA RunningFinite == IsFiniteSet(Running) /\ Cardinality(Running) \in Nat
<1>1. IsFiniteSet(1 .. NO_OF_THREADS)
    BY Sizes, FS_Interval
<1>2. QED
    BY <1>1, FS_Subset, FS_CardinalityType DEF Running

LEMMA SpawnerInit == Spawning!Init => SpawnerInv
<1> SUFFICES ASSUME Spawning!Init PROVE SpawnerInv
    OBVIOUS
<1>1. /\ s = 1 /\ i = 0 /\ main = "create"
      /\ pc = [t \in 1 .. NO_OF_THREADS |-> "none"]
    BY DEF Spawning!Init, Spawning!Threads
<1>2. Running = {}
    BY <1>1 DEF Running
<1>3. Cardinality(Running) = 0
    BY <1>2, FS_EmptySet
<1>4. QED
    BY <1>1, <1>3, Sizes DEF SpawnerInv, Pacing, Waited

LEMMA SpawnerNext == SpawnerInv /\ Spawning!Next => SpawnerInv'
<1> SUFFICES ASSUME SpawnerInv, Spawning!Next PROVE SpawnerInv'
    OBVIOUS
<1> USE Sizes, RunningFinite
<1>1. ASSUME NEW t \in 1 .. NO_OF_THREADS, Spawning!Post(t)
      PROVE  SpawnerInv'
  <2>1. /\ pc[t] = "running" /\ pc' = [pc EXCEPT ![t] = "done"] /\ s' = s + 1
        /\ i' = i /\ main' = main
      BY <1>1 DEF Spawning!Post
  <2>2. t \in Running /\ Running' = Running \ {t}
      BY <2>1 DEF Running, SpawnerInv
  <2>3. Cardinality(Running') = Cardinality(Running) - 1
      BY <2>2, OneLess
  <2>4. Pacing' = Pacing /\ Waited' = Waited /\ Pacing \in Nat /\ Waited \in Nat
      BY <2>1 DEF Pacing, Waited
  <2>5. Cardinality(Running') = 1 + Pacing' - s' - Waited'
      BY <2>1, <2>3, <2>4 DEF SpawnerInv
  <2>6. \A u \in 1 .. NO_OF_THREADS : u > i + Pacing => pc'[u] = "none"
      BY <2>1 DEF SpawnerInv
  <2>7. QED
      BY <2>1, <2>4, <2>5, <2>6 DEF SpawnerInv
<1>2. CASE Spawning!Create
  <2>1. /\ main = "create" /\ pc' = [pc EXCEPT ![i + 1] = "running"] /\ main' = "pace"
        /\ s' = s /\ i' = i
      BY <1>2 DEF Spawning!Create
  <2>2. i + 1 \in 1 .. NO_OF_THREADS
      BY <2>1 DEF SpawnerInv
  <2>3. pc[i + 1] = "none"
      BY <2>1, <2>2 DEF SpawnerInv, Pacing
  <2>4. i + 1 \notin Running /\ Running' = Running \union {i + 1}
      BY <2>1, <2>2, <2>3 DEF Running, SpawnerInv
  <2>5. Cardinality(Running') = Cardinality(Running) + 1
      BY <2>4, OneMore
  <2>6. Pacing = 0 /\ Pacing' = 1 /\ Waited = 0 /\ Waited' = 0
      BY <2>1 DEF Pacing, Waited
  <2>7. Cardinality(Running') = 1 + Pacing' - s' - Waited'
      BY <2>1, <2>5, <2>6 DEF SpawnerInv
  <2>8. \A u \in 1 .. NO_OF_THREADS : u > i + 1 => pc'[u] = "none"
      BY <2>1, <2>6 DEF SpawnerInv
  <2>9. QED
      BY <2>1, <2>6, <2>7, <2>8 DEF SpawnerInv
<1>3. CASE Spawning!Pace
  <2>1. /\ main = "pace" /\ s > 0 /\ s' = s - 1 /\ i' = i + 1 /\ pc' = pc
        /\ main' = IF i + 1 < NO_OF_THREADS THEN "create" ELSE "last"
      BY <1>3 DEF Spawning!Pace
  <2>2. Running' = Running
      BY <2>1 DEF Running
  <2>3. Pacing = 1 /\ Pacing' = 0 /\ Waited = 0 /\ Waited' = 0
      BY <2>1 DEF Pacing, Waited
  <2>4. Cardinality(Running') = 1 + Pacing' - s' - Waited'
      BY <2>1, <2>2, <2>3 DEF SpawnerInv
  <2>5. QED
      BY <2>1, <2>3, <2>4 DEF SpawnerInv
<1>4. CASE Spawning!LastWait
  <2>1. main = "last" /\ s > 0 /\ s' = s - 1 /\ i' = i /\ pc' = pc /\ main' = "done"
      BY <1>4 DEF Spawning!LastWait
  <2>2. Running' = Running
      BY <2>1 DEF Running
  <2>3. Pacing = 0 /\ Pacing' = 0 /\ Waited = 0 /\ Waited' = 1
      BY <2>1 DEF Pacing, Waited
  <2>4. Cardinality(Running') = 1 + Pacing' - s' - Waited'
      BY <2>1, <2>2, <2>3 DEF SpawnerInv
  <2>5. QED
      BY <2>1, <2>3, <2>4 DEF SpawnerInv
<1>5. CASE Spawning!Terminated
  <2>1. s' = s /\ pc' = pc /\ i' = i /\ main' = main
      BY <1>5 DEF Spawning!Terminated, Spawning!vars
  <2>2. QED
      BY <2>1 DEF SpawnerInv, Running, Pacing, Waited
<1>6. QED
    BY <1>1, <1>2, <1>3, <1>4, <1>5
    DEF Spawning!Next, Spawning!Main, Spawning!Thread, Spawning!Threads

LEMMA SameCardinality == \A S : Spawning!Cardinality(S) = Cardinality(S)
BY DEF Spawning!Cardinality, Cardinality

LEMMA SpawnerPaced == SpawnerInv => Spawning!ThreadsPaced
<1> SUFFICES ASSUME SpawnerInv PROVE Spawning!ThreadsPaced
    OBVIOUS
<1>1. Cardinality(Running) = 1 + Pacing - s - Waited /\ s \in Nat
    BY DEF SpawnerInv
<1>2. /\ Cardinality(Running) <= 2
      /\ main = "done" => Cardinality(Running) = 0
    BY <1>1, RunningFinite DEF Pacing, Waited
<1>3. /\ Cardinality({t \in 1 .. NO_OF_THREADS : pc[t] = "running"}) <= 2
      /\ main = "done" => Cardinality({t \in 1 .. NO_OF_THREADS : pc[t] = "running"}) = 0
    BY <1>2 DEF Running
<1>4. QED
    BY <1>3, SameCardinality DEF Spawning!ThreadsPaced, Spawning!Threads

-----------------------------------------------------------------------------
(* spawner_plus_counter.c *)

Inside == {"load", "store", "unlock"}

(* The increments that are in the counter, thread by thread. *)
Made == [t \in 1 .. NO_OF_THREADS |-> loops[t] + (IF pc[t] = "unlock" THEN 1 ELSE 0)]

Finished == {t \in 1 .. NO_OF_THREADS : pc[t] = "done"}

CountedType ==
    /\ s \in Nat /\ value \in Nat /\ lock \in {0, 1}
    /\ pc \in [1 .. NO_OF_THREADS -> Inside \union {"lock", "post", "done"}]
    /\ loops \in [1 .. NO_OF_THREADS -> 0 .. NO_OF_LOOPS]
    /\ rc \in [(1 .. NO_OF_THREADS) \union {0} -> Nat]
    /\ main \in {"wait", "get", "done"}
    /\ \A t \in 1 .. NO_OF_THREADS :
          pc[t] \notin {"post", "done"} => loops[t] < NO_OF_LOOPS

(* The mutex keeps all but one out, so that what a thread has loaded is     *)
(* what the counter still holds when it stores.                             *)
CounterLocked ==
    \A t \in 1 .. NO_OF_THREADS : pc[t] \in Inside =>
        /\ lock = 0
        /\ \A u \in (1 .. NO_OF_THREADS) \ {t} : pc[u] \notin Inside
        /\ pc[t] = "store" => rc[t] = value

(* Every increment counts, every post is one thread's last step, and what   *)
(* main has read lies between the counts of one thread and of all.          *)
CounterExact ==
    /\ value = Total(Made)
    /\ s + (IF main = "wait" THEN 0 ELSE 1) = Cardinality(Finished)
    /\ \A t \in 1 .. NO_OF_THREADS :
          pc[t] \in {"post", "done"} => loops[t] = NO_OF_LOOPS
    /\ main = "done" =>
          NO_OF_LOOPS <= rc[0] /\ rc[0] <= NO_OF_THREADS * NO_OF_LOOPS

CountedInv == CountedType /\ CounterLocked /\ CounterExact

LEMMA ThreadsFinite ==
    /\ IsFiniteSet(1 .. NO_OF_THREADS)
    /\ Cardinality(1 .. NO_OF_THREADS) = NO_OF_THREADS
    /\ IsFiniteSet(Finished) /\ Cardinality(Finished) \in Nat
<1>1. /\ IsFiniteSet(1 .. NO_OF_THREADS)
      /\ Cardinality(1 .. NO_OF_THREADS) = NO_OF_THREADS
    BY Sizes, FS_Interval
<1>2. QED
    BY <1>1, FS_Subset, FS_CardinalityType DEF Finished

LEMMA CountedInit == Counted!Init => CountedInv
<1> SUFFICES ASSUME Counted!Init PROVE CountedInv
    OBVIOUS
<1>1. /\ s = 0 /\ value = 0 /\ lock = 1 /\ main = "wait"
      /\ pc = [t \in 1 .. NO_OF_THREADS |-> "lock"]
      /\ loops = [t \in 1 .. NO_OF_THREADS |-> 0]
      /\ rc = [t \in (1 .. NO_OF_THREADS) \union {0} |-> 0]
    BY DEF Counted!Init, Counted!Threads
<1>2. CountedType
    BY <1>1, Sizes DEF CountedType, Inside
<1>3. CounterLocked
    BY <1>1 DEF CounterLocked, Inside
<1>4. Cardinality(Finished) = 0
  <2>1. Finished = {}
      BY <1>1 DEF Finished
  <2>2. QED
      BY <2>1, FS_EmptySet
<1>5. Total(Made) = 0
  <2>1. /\ Made \in [1 .. NO_OF_THREADS -> Int]
        /\ \A t \in 1 .. NO_OF_THREADS : Made[t] = 0
      BY <1>1 DEF Made
  <2>2. QED
      BY <2>1, ThreadsFinite, TotalZero
<1>6. CounterExact
    BY <1>1, <1>4, <1>5 DEF CounterExact
<1>7. QED
    BY <1>2, <1>3, <1>6 DEF CountedInv

LEMMA LoopsType ==
    ASSUME CountedType
    PROVE  \A t \in 1 .. NO_OF_THREADS :
              /\ loops[t] \in Nat
              /\ pc[t] = "unlock" => loops[t] < NO_OF_LOOPS
BY Sizes DEF CountedType

LEMMA MadeType ==
    ASSUME CountedType
    PROVE  /\ Made \in [1 .. NO_OF_THREADS -> Int]
           /\ \A t \in 1 .. NO_OF_THREADS : 0 <= Made[t] /\ Made[t] <= NO_OF_LOOPS
BY Sizes DEF CountedType, Made, Inside

LEMMA MadeTypeNext ==
    ASSUME CountedType'
    PROVE  Made' \in [1 .. NO_OF_THREADS -> Int]
<1>1. \A t \in 1 .. NO_OF_THREADS : loops'[t] \in Int
    BY Sizes DEF CountedType
<1>2. QED
    BY <1>1 DEF Made

(* A step of one thread that changes only its own increments. *)
LEMMA OneMade ==
    ASSUME CountedType, CountedType', NEW t \in 1 .. NO_OF_THREADS,
           \A u \in (1 .. NO_OF_THREADS) \ {t} : pc'[u] = pc[u] /\ loops'[u] = loops[u]
    PROVE  Total(Made') = Total(Made) + Made'[t] - Made[t]
<1>1. Made \in [1 .. NO_OF_THREADS -> Int] /\ Made' \in [1 .. NO_OF_THREADS -> Int]
  <2>1. Made \in [1 .. NO_OF_THREADS -> Int]
      BY MadeType
  <2>2. Made' \in [1 .. NO_OF_THREADS -> Int]
      BY MadeTypeNext
  <2>3. QED
      BY <2>1, <2>2
<1>2. \A u \in (1 .. NO_OF_THREADS) \ {t} : Made'[u] = Made[u]
    BY DEF Made
<1>3. QED
    BY <1>1, <1>2, ThreadsFinite, TotalChange

LEMMA TotalMade ==
    ASSUME CountedType
    PROVE  /\ Total(Made) \in Int
           /\ Total(Made) <= NO_OF_THREADS * NO_OF_LOOPS
           /\ \A t \in 1 .. NO_OF_THREADS : Made[t] <= Total(Made)
<1>1. /\ Made \in [1 .. NO_OF_THREADS -> Int]
      /\ \A t \in 1 .. NO_OF_THREADS : 0 <= Made[t] /\ Made[t] <= NO_OF_LOOPS
    BY MadeType
<1> HIDE DEF Made
<1>2. Total(Made) \in Int
    BY <1>1, ThreadsFinite, TotalInt
<1>3. Total(Made) <= NO_OF_LOOPS * Cardinality(1 .. NO_OF_THREADS)
    BY <1>1, ThreadsFinite, Sizes, TotalBetween
<1>4. NO_OF_LOOPS * Cardinality(1 .. NO_OF_THREADS) = NO_OF_THREADS * NO_OF_LOOPS
    BY ThreadsFinite, Sizes
<1>5. \A t \in 1 .. NO_OF_THREADS : Made[t] <= Total(Made)
    BY <1>1, ThreadsFinite, Sizes, TotalPart
<1>6. QED
    BY <1>2, <1>3, <1>4, <1>5

LEMMA CountedNext == CountedInv /\ Counted!Next => CountedInv'
<1> SUFFICES ASSUME CountedInv, Counted!Next PROVE CountedInv'
    OBVIOUS
<1> USE Sizes, ThreadsFinite
<1>0. CountedType /\ CounterLocked /\ CounterExact
    BY DEF CountedInv
<1>1. ASSUME NEW t \in 1 .. NO_OF_THREADS, Counted!LockCounter(t)
      PROVE  CountedInv'
  <2>1. /\ lock > 0 /\ lock' = lock - 1 /\ pc[t] = "lock"
        /\ pc' = [pc EXCEPT ![t] = "load"]
        /\ s' = s /\ value' = value /\ loops' = loops /\ rc' = rc /\ main' = main
      BY <1>1 DEF Counted!LockCounter, Counted!Goto
  <2>2. CountedType'
      BY <1>0, <2>1 DEF CountedType, Inside
  <2>3. CounterLocked'
      BY <1>0, <2>1 DEF CountedType, CounterLocked, Inside
  <2>4. Made' = Made /\ Finished' = Finished
      BY <1>0, <2>1 DEF CountedType, Made, Finished
  <2>5. CounterExact'
      BY <1>0, <2>1, <2>4 DEF CountedType, CounterExact
  <2>6. QED
      BY <2>2, <2>3, <2>5 DEF CountedInv
<1>2. ASSUME NEW t \in 1 .. NO_OF_THREADS, Counted!Load(t)
      PROVE  CountedInv'
  <2>1. /\ pc[t] = "load" /\ pc' = [pc EXCEPT ![t] = "store"]
        /\ rc' = [rc EXCEPT ![t] = value]
        /\ s' = s /\ value' = value /\ loops' = loops /\ lock' = lock /\ main' = main
      BY <1>2 DEF Counted!Load, Counted!Goto
  <2>2. CountedType'
      BY <1>0, <2>1 DEF CountedType, Inside
  <2>3. CounterLocked'
      BY <1>0, <2>1 DEF CountedType, CounterLocked, Inside
  <2>4. Made' = Made /\ Finished' = Finished
      BY <1>0, <2>1 DEF CountedType, Made, Finished
  <2>5. rc'[0] = rc[0]
      BY <1>0, <2>1 DEF CountedType
  <2>6. CounterExact'
      BY <1>0, <2>1, <2>4, <2>5 DEF CountedType, CounterExact
  <2>7. QED
      BY <2>2, <2>3, <2>6 DEF CountedInv
<1>3. ASSUME NEW t \in 1 .. NO_OF_THREADS, Counted!Store(t)
      PROVE  CountedInv'
  <2>1. /\ pc[t] = "store" /\ pc' = [pc EXCEPT ![t] = "unlock"]
        /\ value' = rc[t] + 1
        /\ s' = s /\ rc' = rc /\ loops' = loops /\ lock' = lock /\ main' = main
      BY <1>3 DEF Counted!Store, Counted!Goto
  <2>2. CountedType'
      BY <1>0, <2>1 DEF CountedType, Inside
  <2>3. CounterLocked'
      BY <1>0, <2>1 DEF CountedType, CounterLocked, Inside
  <2>4. Finished' = Finished
      BY <1>0, <2>1 DEF CountedType, Finished
  <2>5. Total(Made') = Total(Made) + Made'[t] - Made[t]
      BY <1>0, <2>1, <2>2, OneMade DEF CountedType
  <2>6. Made'[t] = Made[t] + 1 /\ Made[t] \in Int
      BY <1>0, <2>1 DEF CountedType, Made
  <2>7. value' = value + 1 /\ Total(Made) \in Int
      BY <1>0, <2>1, TotalMade DEF CounterLocked, Inside
  <2>8. value' = Total(Made')
      BY <1>0, <2>5, <2>6, <2>7 DEF CounterExact
  <2>9. CounterExact'
      BY <1>0, <2>1, <2>4, <2>8 DEF CountedType, CounterExact
  <2>10. QED
      BY <2>2, <2>3, <2>9 DEF CountedInv
<1>4. ASSUME NEW t \in 1 .. NO_OF_THREADS, Counted!UnlockCounter(t)
      PROVE  CountedInv'
  <2>1. /\ pc[t] = "unlock"
        /\ pc' = [pc EXCEPT ![t] = IF loops[t] + 1 < NO_OF_LOOPS THEN "lock" ELSE "post"]
        /\ lock' = lock + 1 /\ loops' = [loops EXCEPT ![t] = loops[t] + 1]
        /\ s' = s /\ rc' = rc /\ value' = value /\ main' = main
      BY <1>4 DEF Counted!UnlockCounter, Counted!Goto
  <2>2. CountedType'
    <3>1. lock = 0 /\ loops[t] < NO_OF_LOOPS /\ loops[t] \in Nat
        BY <1>0, <2>1, LoopsType DEF CounterLocked, Inside
    <3>2. loops' \in [1 .. NO_OF_THREADS -> 0 .. NO_OF_LOOPS]
        BY <1>0, <2>1, <3>1 DEF CountedType
    <3>3. pc' \in [1 .. NO_OF_THREADS -> Inside \union {"lock", "post", "done"}]
        BY <1>0, <2>1 DEF CountedType
    <3>4. \A u \in 1 .. NO_OF_THREADS :
             pc'[u] \notin {"post", "done"} => loops'[u] < NO_OF_LOOPS
        BY <1>0, <2>1, <3>1 DEF CountedType
    <3>5. QED
        BY <1>0, <2>1, <3>1, <3>2, <3>3, <3>4 DEF CountedType
  <2>3. CounterLocked'
      BY <1>0, <2>1 DEF CountedType, CounterLocked, Inside
  <2>4. Made' = Made /\ Finished' = Finished
      BY <1>0, <2>1 DEF CountedType, Made, Finished
  <2>5. CounterExact'
    <3>1. \A u \in 1 .. NO_OF_THREADS :
             pc'[u] \in {"post", "done"} => loops'[u] = NO_OF_LOOPS
      <4>1. loops[t] < NO_OF_LOOPS /\ loops[t] \in Nat
          BY <1>0, <2>1, LoopsType
      <4>2. QED
          BY <1>0, <2>1, <4>1 DEF CountedType, CounterExact
    <3>2. QED
        BY <1>0, <2>1, <2>4, <3>1 DEF CounterExact
  <2>6. QED
      BY <2>2, <2>3, <2>5 DEF CountedInv
<1>5. ASSUME NEW t \in 1 .. NO_OF_THREADS, Counted!Post(t)
      PROVE  CountedInv'
  <2>1. /\ pc[t] = "post" /\ pc' = [pc EXCEPT ![t] = "done"] /\ s' = s + 1
        /\ rc' = rc /\ value' = value /\ loops' = loops /\ lock' = lock /\ main' = main
      BY <1>5 DEF Counted!Post, Counted!Goto
  <2>2. CountedType'
      BY <1>0, <2>1 DEF CountedType, Inside
  <2>3. CounterLocked'
      BY <1>0, <2>1 DEF CountedType, CounterLocked, Inside
  <2>4. Made' = Made
      BY <1>0, <2>1 DEF CountedType, Made
  <2>5. t \notin Finished /\ Finished' = Finished \union {t}
      BY <1>0, <2>1 DEF CountedType, Finished
  <2>6. Cardinality(Finished') = Cardinality(Finished) + 1
      BY <2>5, OneMore
  <2>7. CounterExact'
      BY <1>0, <2>1, <2>4, <2>6 DEF CountedType, CounterExact
  <2>8. QED
      BY <2>2, <2>3, <2>7 DEF CountedInv
<1>6. CASE Counted!Wait
  <2>1. /\ main = "wait" /\ s > 0 /\ s' = s - 1 /\ main' = "get"
        /\ rc' = rc /\ value' = value /\ loops' = loops /\ lock' = lock /\ pc' = pc
      BY <1>6 DEF Counted!Wait
  <2>2. Made' = Made /\ Finished' = Finished
      BY <2>1 DEF Made, Finished
  <2>3. QED
      BY <1>0, <2>1, <2>2 DEF CountedInv, CountedType, CounterLocked, CounterExact
<1>7. CASE Counted!Get
  <2>1. /\ main = "get" /\ lock > 0 /\ main' = "done" /\ rc' = [rc EXCEPT ![0] = value]
        /\ s' = s /\ value' = value /\ loops' = loops /\ lock' = lock /\ pc' = pc
      BY <1>7 DEF Counted!Get
  <2>2. Made' = Made /\ Finished' = Finished
      BY <2>1 DEF Made, Finished
  <2>3. CountedType'
      BY <1>0, <2>1 DEF CountedType
  <2>4. CounterLocked'
      BY <1>0, <2>1 DEF CountedType, CounterLocked
  <2>5. rc'[0] = Total(Made)
      BY <1>0, <2>1 DEF CountedType, CounterExact
  <2>6. Finished # {}
      BY <1>0, <2>1, FS_EmptySet DEF CountedType, CounterExact
  <2>7. PICK t \in 1 .. NO_OF_THREADS : pc[t] = "done"
      BY <2>6 DEF Finished
  <2>8. Made[t] = NO_OF_LOOPS
      BY <1>0, <2>7 DEF CountedType, CounterExact, Made
  <2>9. NO_OF_LOOPS <= Total(Made) /\ Total(Made) <= NO_OF_THREADS * NO_OF_LOOPS
      BY <1>0, <2>8, TotalMade
  <2>10. CounterExact'
      BY <1>0, <2>1, <2>2, <2>5, <2>9 DEF CounterExact
  <2>11. QED
      BY <2>3, <2>4, <2>10 DEF CountedInv
<1>8. CASE Counted!Terminated
  <2>1. /\ s' = s /\ value' = value /\ loops' = loops /\ lock' = lock /\ pc' = pc
        /\ rc' = rc /\ main' = main
      BY <1>8 DEF Counted!Terminated, Counted!vars
  <2>2. Made' = Made /\ Finished' = Finished
      BY <2>1 DEF Made, Finished
  <2>3. QED
      BY <1>0, <2>1, <2>2 DEF CountedInv, CountedType, CounterLocked, CounterExact
<1>9. QED
    BY <1>1, <1>2, <1>3, <1>4, <1>5, <1>6, <1>7, <1>8
    DEF Counted!Next, Counted!Main, Counted!Thread, Counted!Threads

LEMMA CountedPrints == CountedInv => Counted!PrintsWhatItAwaited
BY DEF CountedInv, CounterExact, Counted!PrintsWhatItAwaited

-----------------------------------------------------------------------------
(* The ring of bounded_queue.c and sem_queue.c.  Of the threads D of the    *)
(* program, f says where each is, and k which places have which part in     *)
(* the accounts of the ring.                                               *)

At(D, f, H)   == {y \in D : f[y] \in H}
Many(D, f, H) == Cardinality(At(D, f, H))
Part(a, H)    == IF a \in H THEN 1 ELSE 0

(* Only x has moved. *)
Stay(D, f, g, x) == \A y \in D \ {x} : g[y] = f[y]

LEMMA AtMoves ==
    ASSUME NEW D, IsFiniteSet(D), NEW f, NEW g, NEW x \in D, Stay(D, f, g, x), NEW H
    PROVE  /\ Many(D, f, H) \in Nat /\ Many(D, g, H) \in Nat
           /\ Many(D, g, H) = Many(D, f, H) + Part(g[x], H) - Part(f[x], H)
           /\ At(D, g, H) = (At(D, f, H) \ {x}) \union (IF g[x] \in H THEN {x} ELSE {})
           /\ f[x] \in H => Many(D, f, H) > 0
<1> DEFINE A == At(D, f, H)
           B == At(D, g, H)
           R == At(D, f, H) \ {x}
<1>1. IsFiniteSet(A) /\ IsFiniteSet(B) /\ IsFiniteSet(R)
    BY FS_Subset DEF At
<1>2. Cardinality(A) \in Nat /\ Cardinality(B) \in Nat /\ Cardinality(R) \in Nat
    BY <1>1, FS_CardinalityType
<1>3. /\ B = IF g[x] \in H THEN R \union {x} ELSE R
      /\ A = IF f[x] \in H THEN R \union {x} ELSE R
      /\ x \notin R
    BY DEF At, Stay
<1> HIDE DEF A, B, R
<1>4. Cardinality(R \union {x}) = Cardinality(R) + 1
    BY <1>1, <1>3, OneMore
<1>5. /\ Cardinality(B) = Cardinality(R) + Part(g[x], H)
      /\ Cardinality(A) = Cardinality(R) + Part(f[x], H)
    BY <1>3, <1>4, <1>2 DEF Part
<1>6. Many(D, f, H) = Cardinality(A) /\ Many(D, g, H) = Cardinality(B)
    BY DEF Many, A, B
<1>7. At(D, g, H) = (At(D, f, H) \ {x}) \union (IF g[x] \in H THEN {x} ELSE {})
    BY <1>3 DEF A, B, R
<1>8. Part(g[x], H) \in {0, 1} /\ Part(f[x], H) \in {0, 1} /\ (f[x] \in H => Part(f[x], H) = 1)
    BY DEF Part
<1>9. QED
    BY <1>2, <1>5, <1>6, <1>7, <1>8

(* Threads that stay where they are. *)
LEMMA AtStays ==
    ASSUME NEW D, NEW f, NEW g, \A y \in D : g[y] = f[y], NEW H
    PROVE  At(D, g, H) = At(D, f, H) /\ Many(D, g, H) = Many(D, f, H)
BY DEF At, Many

Role(k, a, w, p, t, l, inside) ==
    /\ w = Part(a, k.slot) /\ p = Part(a, k.put)
    /\ t = Part(a, k.item) /\ l = Part(a, k.taken)
    /\ inside = Part(a, k.inside)

Crewed(q, items, D, f, k) ==
    /\ q \in QueueType(MAX, items)
    /\ Books(q, MAX, Many(D, f, k.slot), Many(D, f, k.put),
             Many(D, f, k.item), Many(D, f, k.taken), At(D, f, k.inside))

Kept(q, D, f, k) == Stock(q, Many(D, f, k.put), Many(D, f, k.item))

(* A statement outside the critical sections: the ring stores what it did.  *)
Moves(k, a, d, q, r) ==
    \/ Role(k, a, 0, 0, 0, 0, 0) /\ Role(k, d, 0, 0, 0, 0, 0) /\ r = q
    \/ /\ Role(k, a, 0, 0, 0, 0, 0) /\ Role(k, d, 1, 0, 0, 0, 0)
       /\ q.empty > 0 /\ r = ReserveSlot(q)
    \/ /\ Role(k, a, 0, 0, 0, 0, 0) /\ Role(k, d, 0, 0, 1, 0, 0)
       /\ q.full > 0 /\ r = ReserveItem(q)
    \/ /\ Role(k, a, 1, 0, 0, 0, 0) /\ Role(k, d, 1, 0, 0, 0, 1)
       /\ q.lock > 0 /\ r = Lock(q)
    \/ /\ Role(k, a, 0, 0, 1, 0, 0) /\ Role(k, d, 0, 0, 1, 0, 1)
       /\ q.lock > 0 /\ r = Lock(q)
    \/ /\ Role(k, a, 0, 1, 0, 0, 0) /\ Role(k, d, 0, 0, 0, 0, 0) /\ r = PostFull(q)
    \/ /\ Role(k, a, 0, 0, 0, 1, 0) /\ Role(k, d, 0, 0, 0, 0, 0) /\ r = PostEmpty(q)

(* What the move of one thread does to the accounts. *)
LEMMA PartMoves ==
    ASSUME NEW D, IsFiniteSet(D), NEW f, NEW g, NEW x \in D, Stay(D, f, g, x), NEW H
    PROVE  /\ Many(D, f, H) \in Nat
           /\ Many(D, g, H) = Many(D, f, H) + Part(g[x], H) - Part(f[x], H)
           /\ Part(f[x], H) = 1 => Many(D, f, H) > 0
BY AtMoves DEF Part

LEMMA InsideMoves ==
    ASSUME NEW D, NEW f, NEW g, NEW x \in D, Stay(D, f, g, x), NEW H
    PROVE  /\ Part(f[x], H) = 0 /\ Part(g[x], H) = 0 => At(D, g, H) = At(D, f, H)
           /\ Part(f[x], H) = 0 /\ Part(g[x], H) = 1 => At(D, g, H) = At(D, f, H) \union {x}
           /\ Part(f[x], H) = 1 /\ Part(g[x], H) = 0 => At(D, g, H) = At(D, f, H) \ {x}
           /\ Part(f[x], H) = 1 => At(D, f, H) # {}
BY DEF Part, At, Stay

LEMMA CrewMoves ==
    ASSUME MAX \in Nat \ {0}, NEW items, NEW D, IsFiniteSet(D), NEW f, NEW g, NEW x \in D,
           Stay(D, f, g, x), NEW k, NEW q, NEW r,
           Crewed(q, items, D, f, k), Moves(k, f[x], g[x], q, r)
    PROVE  /\ Crewed(r, items, D, g, k)
           /\ Kept(r, D, g, k) = Kept(q, D, f, k)
           /\ \A n : Items(r, n, MAX) = Items(q, n, MAX)
<1> DEFINE W == Many(D, f, k.slot)
           P == Many(D, f, k.put)
           T == Many(D, f, k.item)
           L == Many(D, f, k.taken)
           N == At(D, f, k.inside)
           W1 == Many(D, g, k.slot)
           P1 == Many(D, g, k.put)
           T1 == Many(D, g, k.item)
           L1 == Many(D, g, k.taken)
           N1 == At(D, g, k.inside)
<1>2a. /\ W \in Nat
       /\ W1 = W + Part(g[x], k.slot) - Part(f[x], k.slot)
       /\ Part(f[x], k.slot) = 1 => W > 0
    BY PartMoves
<1>2b. /\ P \in Nat
       /\ P1 = P + Part(g[x], k.put) - Part(f[x], k.put)
       /\ Part(f[x], k.put) = 1 => P > 0
    BY PartMoves
<1>2c. /\ T \in Nat
       /\ T1 = T + Part(g[x], k.item) - Part(f[x], k.item)
       /\ Part(f[x], k.item) = 1 => T > 0
    BY PartMoves
<1>2d. /\ L \in Nat
       /\ L1 = L + Part(g[x], k.taken) - Part(f[x], k.taken)
       /\ Part(f[x], k.taken) = 1 => L > 0
    BY PartMoves
<1>2. /\ Part(f[x], k.inside) = 0 /\ Part(g[x], k.inside) = 0 => N1 = N
      /\ Part(f[x], k.inside) = 0 /\ Part(g[x], k.inside) = 1 => N1 = N \union {x}
    BY InsideMoves
<1>3. /\ q \in QueueType(MAX, items) /\ Books(q, MAX, W, P, T, L, N)
    BY DEF Crewed
<1> HIDE DEF W, P, T, L, N, W1, P1, T1, L1, N1
<1>4. RingMove(q, W, P, T, L, N, r, W1, P1, T1, L1, N1)
  <2> USE <1>2, <1>2a, <1>2b, <1>2c, <1>2d DEF RingMove, Role
  <2>1. CASE /\ Role(k, f[x], 0, 0, 0, 0, 0) /\ Role(k, g[x], 0, 0, 0, 0, 0) /\ r = q
      BY <2>1
  <2>2. CASE /\ Role(k, f[x], 0, 0, 0, 0, 0) /\ Role(k, g[x], 1, 0, 0, 0, 0)
             /\ q.empty > 0 /\ r = ReserveSlot(q)
      BY <2>2
  <2>3. CASE /\ Role(k, f[x], 0, 0, 0, 0, 0) /\ Role(k, g[x], 0, 0, 1, 0, 0)
             /\ q.full > 0 /\ r = ReserveItem(q)
      BY <2>3
  <2>4. CASE /\ Role(k, f[x], 1, 0, 0, 0, 0) /\ Role(k, g[x], 1, 0, 0, 0, 1)
             /\ q.lock > 0 /\ r = Lock(q)
    <3>1. N1 = N \union {x}
        BY <2>4
    <3>2. W1 = W /\ P1 = P /\ T1 = T /\ L1 = L
        BY <2>4
    <3>3. QED
        BY ONLY <2>4, <3>1, <3>2 DEF RingMove
  <2>5. CASE /\ Role(k, f[x], 0, 0, 1, 0, 0) /\ Role(k, g[x], 0, 0, 1, 0, 1)
             /\ q.lock > 0 /\ r = Lock(q)
    <3>1. N1 = N \union {x}
        BY <2>5
    <3>2. W1 = W /\ P1 = P /\ T1 = T /\ L1 = L
        BY <2>5
    <3>3. QED
        BY ONLY <2>5, <3>1, <3>2 DEF RingMove
  <2>6. CASE /\ Role(k, f[x], 0, 1, 0, 0, 0) /\ Role(k, g[x], 0, 0, 0, 0, 0)
             /\ r = PostFull(q)
      BY <2>6
  <2>7. CASE /\ Role(k, f[x], 0, 0, 0, 1, 0) /\ Role(k, g[x], 0, 0, 0, 0, 0)
             /\ r = PostEmpty(q)
      BY <2>7
  <2>8. QED
      BY <2>1, <2>2, <2>3, <2>4, <2>5, <2>6, <2>7 DEF Moves
<1>5. /\ r \in QueueType(MAX, items) /\ Books(r, MAX, W1, P1, T1, L1, N1)
      /\ Stock(r, P1, T1) = Stock(q, P, T)
      /\ \A n : Items(r, n, MAX) = Items(q, n, MAX)
  <2>1. W \in Nat /\ P \in Nat /\ T \in Nat /\ L \in Nat
      BY <1>2a, <1>2b, <1>2c, <1>2d
  <2>2. QED
      BY <2>1, <1>3, <1>4, RingMoves
<1>6. QED
    BY <1>5 DEF Crewed, Kept, W, P, T, L, N, W1, P1, T1, L1, N1

KeptIs(n, q, D, f, k) == n = Kept(q, D, f, k)

(* The ring q stores n items, and r the item o too. *)
Grown(q, r, n, o) ==
    /\ Items(r, n + 1, MAX)[n + 1] = o
    /\ \A j \in 1 .. n : Items(r, n + 1, MAX)[j] = Items(q, n, MAX)[j]
    /\ Stored(r, n + 1, MAX) = Stored(q, n, MAX) \union {o}
    /\ Distinct(q, n, MAX) /\ o \notin Stored(q, n, MAX) => Distinct(r, n + 1, MAX)

(* The ring q stores n items, and r all of them but the oldest. *)
Shrunk(q, r, n) ==
    /\ n > 0
    /\ Items(q, n, MAX)[1] = ReadSlot(q)
    /\ \A j \in 1 .. n - 1 : Items(r, n - 1, MAX)[j] = Items(q, n, MAX)[j + 1]
    /\ ReadSlot(q) \in Stored(q, n, MAX)
    /\ Distinct(q, n, MAX) =>
          /\ Distinct(r, n - 1, MAX)
          /\ Stored(r, n - 1, MAX) = Stored(q, n, MAX) \ {ReadSlot(q)}

LEMMA KeptNumber ==
    ASSUME NEW items, NEW D, IsFiniteSet(D), NEW f, NEW k, NEW q, Crewed(q, items, D, f, k)
    PROVE  Kept(q, D, f, k) \in Nat
<1>1. q.full \in Nat
    BY DEF Crewed, QueueType
<1>2. \A H : Many(D, f, H) \in Nat
    BY FS_Subset, FS_CardinalityType DEF Many, At
<1>3. QED
    BY <1>1, <1>2 DEF Kept, Stock

(* The critical section of push: one item more. *)
LEMMA CrewPuts ==
    ASSUME MAX \in Nat \ {0}, NEW items, NEW D, IsFiniteSet(D), NEW f, NEW g, NEW x \in D,
           Stay(D, f, g, x), NEW k, NEW q, NEW o \in items, Crewed(q, items, D, f, k),
           Role(k, f[x], 1, 0, 0, 0, 1), Role(k, g[x], 0, 1, 0, 0, 0),
           NEW r, r = PutItem(q, o, MAX), NEW n \in Nat, KeptIs(n, q, D, f, k)
    PROVE  /\ Crewed(r, items, D, g, k)
           /\ KeptIs(n + 1, r, D, g, k) /\ Grown(q, r, n, o)
<1> DEFINE W == Many(D, f, k.slot)
           P == Many(D, f, k.put)
           T == Many(D, f, k.item)
           L == Many(D, f, k.taken)
           N == At(D, f, k.inside)
           W1 == Many(D, g, k.slot)
           P1 == Many(D, g, k.put)
           T1 == Many(D, g, k.item)
           L1 == Many(D, g, k.taken)
           N1 == At(D, g, k.inside)
<1>1. W \in Nat /\ W1 = W - 1 /\ W > 0
  <2>1. /\ W \in Nat
        /\ W1 = W + Part(g[x], k.slot) - Part(f[x], k.slot)
        /\ Part(f[x], k.slot) = 1 => W > 0
      BY PartMoves
  <2>2. QED
      BY <2>1 DEF Role
<1>2. P \in Nat /\ P1 = P + 1
  <2>1. P \in Nat /\ P1 = P + Part(g[x], k.put) - Part(f[x], k.put)
      BY PartMoves
  <2>2. QED
      BY <2>1 DEF Role
<1>3. T \in Nat /\ T1 = T
  <2>1. T \in Nat /\ T1 = T + Part(g[x], k.item) - Part(f[x], k.item)
      BY PartMoves
  <2>2. QED
      BY <2>1 DEF Role
<1>4. L \in Nat /\ L1 = L
  <2>1. L \in Nat /\ L1 = L + Part(g[x], k.taken) - Part(f[x], k.taken)
      BY PartMoves
  <2>2. QED
      BY <2>1 DEF Role
<1>5. N # {} /\ N1 = N \ {x}
    BY InsideMoves DEF Role
<1>6. q \in QueueType(MAX, items) /\ Books(q, MAX, W, P, T, L, N)
    BY DEF Crewed
<1>a. n = Stock(q, P, T)
    BY DEF Kept, KeptIs
<1>7. x \in N
    BY DEF Role, Part, At
<1>b. \A Q : Crewed(Q, items, D, g, k) <=>
                Q \in QueueType(MAX, items) /\ Books(Q, MAX, W1, P1, T1, L1, N1)
    BY DEF Crewed
<1>c. Kept(r, D, g, k) = Stock(r, P1, T1)
    BY DEF Kept
<1> HIDE DEF W, P, T, L, N, W1, P1, T1, L1, N1
<1>8. N1 = {} /\ q.lock = 0
    BY <1>5, <1>6, <1>7 DEF Books
<1>9. /\ r \in QueueType(MAX, items) /\ Books(r, MAX, W - 1, P + 1, T, L, {})
      /\ Stock(r, P + 1, T) = n + 1
      /\ Stored(r, n + 1, MAX) = Stored(q, n, MAX) \union {o}
      /\ Distinct(q, n, MAX) /\ o \notin Stored(q, n, MAX) => Distinct(r, n + 1, MAX)
  <2>1. W \in Nat /\ P \in Nat /\ T \in Nat /\ L \in Nat /\ W > 0 /\ N # {}
      BY <1>1, <1>2, <1>3, <1>4, <1>5
  <2>2. /\ PutItem(q, o, MAX) \in QueueType(MAX, items)
        /\ Books(PutItem(q, o, MAX), MAX, W - 1, P + 1, T, L, {})
        /\ Stock(PutItem(q, o, MAX), P + 1, T) = Stock(q, P, T) + 1
        /\ Stored(PutItem(q, o, MAX), Stock(q, P, T) + 1, MAX) =
              Stored(q, Stock(q, P, T), MAX) \union {o}
        /\ Distinct(q, Stock(q, P, T), MAX) /\ o \notin Stored(q, Stock(q, P, T), MAX) =>
              Distinct(PutItem(q, o, MAX), Stock(q, P, T) + 1, MAX)
      BY <1>6, <2>1, BooksPut
  <2>3. QED
      BY <1>a, <2>2
<1>10. /\ FillAt(q, n, MAX) /\ n \in 0 .. MAX - 1 /\ q.use \in 0 .. MAX - 1
       /\ q.fill \in 0 .. MAX - 1
  <2>1. q.empty \in Nat /\ q.full \in Nat /\ q.use \in 0 .. MAX - 1 /\ q.fill \in 0 .. MAX - 1
      BY <1>6 DEF QueueType
  <2>2. q.empty + W + n + L = MAX /\ FillAt(q, n, MAX)
      BY <1>6, <1>a DEF Books
  <2>3. n = q.full + P + T
      BY <1>a DEF Stock
  <2>4. QED
      BY <1>1, <1>2, <1>3, <1>4, <2>1, <2>2, <2>3
<1>11. Written(q, r, o, MAX)
  <2>1. /\ r.use = q.use /\ r.buffer = [q.buffer EXCEPT ![q.fill] = o]
      BY <1>6 DEF PutItem, WriteSlot, AdvanceFill, Unlock, QueueType
  <2>2. QED
      BY <1>6, <1>10, <2>1 DEF QueueType, Written
<1>12. /\ Items(r, n + 1, MAX)[n + 1] = o
       /\ \A j \in 1 .. n : Items(r, n + 1, MAX)[j] = Items(q, n, MAX)[j]
    BY <1>10, <1>11, ItemsPut
<1>13. Crewed(r, items, D, g, k) /\ KeptIs(n + 1, r, D, g, k)
    BY <1>1, <1>2, <1>3, <1>4, <1>8, <1>9, <1>b, <1>c DEF KeptIs
<1>14. Grown(q, r, n, o)
    BY <1>9, <1>12 DEF Grown
<1>15. QED
    BY <1>13, <1>14

(* The critical section of pop: one item fewer, the oldest. *)
LEMMA CrewTakes ==
    ASSUME MAX \in Nat \ {0}, NEW items, NEW D, IsFiniteSet(D), NEW f, NEW g, NEW x \in D,
           Stay(D, f, g, x), NEW k, NEW q, Crewed(q, items, D, f, k),
           Role(k, f[x], 0, 0, 1, 0, 1), Role(k, g[x], 0, 0, 0, 1, 0),
           NEW r, r = TakeItem(q, MAX), NEW n \in Nat, KeptIs(n, q, D, f, k)
    PROVE  /\ Crewed(r, items, D, g, k)
           /\ KeptIs(n - 1, r, D, g, k) /\ Shrunk(q, r, n) /\ ReadSlot(q) \in items
<1> DEFINE W == Many(D, f, k.slot)
           P == Many(D, f, k.put)
           T == Many(D, f, k.item)
           L == Many(D, f, k.taken)
           N == At(D, f, k.inside)
           W1 == Many(D, g, k.slot)
           P1 == Many(D, g, k.put)
           T1 == Many(D, g, k.item)
           L1 == Many(D, g, k.taken)
           N1 == At(D, g, k.inside)
<1>1. W \in Nat /\ W1 = W
  <2>1. W \in Nat /\ W1 = W + Part(g[x], k.slot) - Part(f[x], k.slot)
      BY PartMoves
  <2>2. QED
      BY <2>1 DEF Role
<1>2. P \in Nat /\ P1 = P
  <2>1. P \in Nat /\ P1 = P + Part(g[x], k.put) - Part(f[x], k.put)
      BY PartMoves
  <2>2. QED
      BY <2>1 DEF Role
<1>3. T \in Nat /\ T1 = T - 1 /\ T > 0
  <2>1. /\ T \in Nat
        /\ T1 = T + Part(g[x], k.item) - Part(f[x], k.item)
        /\ Part(f[x], k.item) = 1 => T > 0
      BY PartMoves
  <2>2. QED
      BY <2>1 DEF Role
<1>4. L \in Nat /\ L1 = L + 1
  <2>1. L \in Nat /\ L1 = L + Part(g[x], k.taken) - Part(f[x], k.taken)
      BY PartMoves
  <2>2. QED
      BY <2>1 DEF Role
<1>5. N # {} /\ N1 = N \ {x}
    BY InsideMoves DEF Role
<1>6. q \in QueueType(MAX, items) /\ Books(q, MAX, W, P, T, L, N)
    BY DEF Crewed
<1>a. n = Stock(q, P, T)
    BY DEF Kept, KeptIs
<1>7. x \in N
    BY DEF Role, Part, At
<1>b. \A Q : Crewed(Q, items, D, g, k) <=>
                Q \in QueueType(MAX, items) /\ Books(Q, MAX, W1, P1, T1, L1, N1)
    BY DEF Crewed
<1>c. Kept(r, D, g, k) = Stock(r, P1, T1)
    BY DEF Kept
<1> HIDE DEF W, P, T, L, N, W1, P1, T1, L1, N1
<1>8. N1 = {} /\ q.lock = 0
    BY <1>5, <1>6, <1>7 DEF Books
<1>9. /\ r \in QueueType(MAX, items) /\ Books(r, MAX, W, P, T - 1, L + 1, {})
      /\ Stock(r, P, T - 1) = n - 1
      /\ ReadSlot(q) \in items /\ ReadSlot(q) \in Stored(q, n, MAX)
      /\ Distinct(q, n, MAX) =>
           /\ Distinct(r, n - 1, MAX)
           /\ Stored(r, n - 1, MAX) = Stored(q, n, MAX) \ {ReadSlot(q)}
    BY <1>1, <1>2, <1>3, <1>4, <1>5, <1>6, <1>a, BooksTake
<1>10. n \in 1 .. MAX /\ q.use \in 0 .. MAX - 1
  <2>1. q.empty \in Nat /\ q.full \in Nat /\ q.use \in 0 .. MAX - 1
      BY <1>6 DEF QueueType
  <2>2. q.empty + W + n + L = MAX
      BY <1>6, <1>a DEF Books
  <2>3. n = q.full + P + T
      BY <1>a DEF Stock
  <2>4. QED
      BY <1>1, <1>2, <1>3, <1>4, <2>1, <2>2, <2>3
<1>11. r.use = NextSlot(q.use, MAX) /\ r.buffer = q.buffer
    BY <1>6 DEF TakeItem, AdvanceUse, Unlock, QueueType
<1>12. /\ Items(q, n, MAX)[1] = ReadSlot(q)
       /\ \A j \in 1 .. n - 1 : Items(r, n - 1, MAX)[j] = Items(q, n, MAX)[j + 1]
    BY <1>10, <1>11, ItemsTake
<1>13. Crewed(r, items, D, g, k) /\ KeptIs(n - 1, r, D, g, k)
    BY <1>1, <1>2, <1>3, <1>4, <1>8, <1>9, <1>b, <1>c DEF KeptIs
<1>14. Shrunk(q, r, n)
    BY <1>9, <1>10, <1>12 DEF Shrunk
<1>15. QED
    BY <1>9, <1>13, <1>14

(* Nobody is at work on a new queue. *)
LEMMA CrewStarts ==
    ASSUME MAX \in Nat \ {0}, NEW items, NEW blank \in items, NEW D, NEW f, NEW k,
           \A y \in D : Role(k, f[y], 0, 0, 0, 0, 0)
    PROVE  /\ Crewed(NewQueue(MAX, blank), items, D, f, k)
           /\ Kept(NewQueue(MAX, blank), D, f, k) = 0
           /\ Stored(NewQueue(MAX, blank), 0, MAX) = {}
           /\ Distinct(NewQueue(MAX, blank), 0, MAX)
<1>1. \A H \in {k.slot, k.put, k.item, k.taken, k.inside} : At(D, f, H) = {}
    BY DEF Role, Part, At
<1>2. /\ Many(D, f, k.slot) = 0 /\ Many(D, f, k.put) = 0
      /\ Many(D, f, k.item) = 0 /\ Many(D, f, k.taken) = 0
    BY <1>1, FS_EmptySet DEF Many
<1>3. /\ NewQueue(MAX, blank) \in QueueType(MAX, items)
      /\ Books(NewQueue(MAX, blank), MAX, 0, 0, 0, 0, {})
      /\ Stored(NewQueue(MAX, blank), 0, MAX) = {}
      /\ Distinct(NewQueue(MAX, blank), 0, MAX)
    BY NewBooks
<1>4. Crewed(NewQueue(MAX, blank), items, D, f, k)
    BY <1>1, <1>2, <1>3 DEF Crewed
<1>5. Stock(NewQueue(MAX, blank), 0, 0) = 0
    BY DEF Stock, NewQueue
<1>6. QED
    BY <1>2, <1>3, <1>4, <1>5 DEF Kept

-----------------------------------------------------------------------------
(* bounded_queue.c *)

BClients  == 1 .. CLIENTS
BCashiers == CLIENTS + 1 .. CLIENTS + CASHIERS
BThreads  == BClients \union BCashiers

BCrew == [ slot   |-> {"push_lock", "push_put"},
           put    |-> {"push_post"},
           item   |-> {"pop_lock", "pop_take"},
           taken  |-> {"pop_post"},
           inside |-> {"push_put", "pop_take"} ]

Entering == {"trypush", "sleep", "push_lock", "push_put"}
Entered  == {"push_post", "done"}
Holding  == {"pop_post", "increment", "print"}

BKept  == Kept(b, BThreads, pc, BCrew)
InRing == Stored(b, BKept, MAX)

(* The clients whom no_served counts: a cashier counts first and announces  *)
(* second.                                                                  *)
Served ==
    {y \in BClients : announced[y] = 1 \/ \E k \in BCashiers : pc[k] = "print" /\ temp[k] = y}

BoundedType ==
    /\ DOMAIN pc = BThreads
    /\ \A y \in BClients : pc[y] \in Entering \union Entered
    /\ \A k \in BCashiers :
          pc[k] \in Holding \union {"check", "trypop", "pop_lock", "pop_take", "done"}
    /\ temp \in [BCashiers -> BClients \union {0}]
    /\ announced \in [BClients -> {0, 1}]
    /\ no_served \in Nat

(* A client is in one place: on its way in, in the ring, with one cashier,  *)
(* or announced.                                                            *)
InOnePlace ==
    /\ Distinct(b, BKept, MAX)
    /\ \A y \in InRing :
          /\ y \in BClients /\ pc[y] \in Entered /\ announced[y] = 0
          /\ \A k \in BCashiers : temp[k] # y
    /\ \A k \in BCashiers :
          /\ temp[k] # 0 <=> pc[k] \in Holding
          /\ temp[k] # 0 => pc[temp[k]] \in Entered /\ announced[temp[k]] = 0
          /\ \A l \in BCashiers : temp[k] # 0 /\ temp[k] = temp[l] => k = l
    /\ \A y \in BClients : announced[y] = 1 => pc[y] \in Entered

(* The counter is right, and a cashier leaves when it has reached everyone. *)
CountRight ==
    /\ no_served = Cardinality(Served)
    /\ \A k \in BCashiers : pc[k] = "done" => Served = BClients

BoundedInv ==
    /\ BoundedType
    /\ Crewed(b, BClients \union {0}, BThreads, pc, BCrew)
    /\ InOnePlace
    /\ CountRight

LEMMA BThreadsFinite ==
    /\ IsFiniteSet(BThreads) /\ IsFiniteSet(BClients) /\ IsFiniteSet(BCashiers)
    /\ IsFiniteSet(Served) /\ Cardinality(BClients) = CLIENTS
    /\ BClients \intersect BCashiers = {} /\ 0 \notin BClients
<1>1. IsFiniteSet(BClients) /\ IsFiniteSet(BCashiers) /\ Cardinality(BClients) = CLIENTS
    BY Sizes, FS_Interval DEF BClients, BCashiers
<1>2. IsFiniteSet(BThreads)
    BY <1>1, FS_Union DEF BThreads
<1>3. IsFiniteSet(Served)
    BY <1>1, FS_Subset DEF Served
<1>4. BClients \intersect BCashiers = {} /\ 0 \notin BClients
    BY Sizes DEF BClients, BCashiers
<1>5. QED
    BY <1>1, <1>2, <1>3, <1>4

LEMMA SlotsPositive == MAX \in Nat \ {0}
BY DemosAssumption DEF Bounded!DemoAssumption

(* The ring of the module BoundedQueueDemo is the ring of SemQueue. *)
LEMMA BoundedRing ==
    /\ \A S : Bounded!Cardinality(S) = Cardinality(S)
    /\ \A q, o, size :
          /\ Bounded!ReserveSlot(q) = ReserveSlot(q) /\ Bounded!ReserveItem(q) = ReserveItem(q)
          /\ Bounded!PostFull(q) = PostFull(q) /\ Bounded!PostEmpty(q) = PostEmpty(q)
          /\ Bounded!Lock(q) = Lock(q) /\ Bounded!ReadSlot(q) = ReadSlot(q)
          /\ Bounded!NewQueue(size, o) = NewQueue(size, o)
          /\ Bounded!PutItem(q, o, size) = PutItem(q, o, size)
          /\ Bounded!TakeItem(q, size) = TakeItem(q, size)
<1>1. \A S : Bounded!Cardinality(S) = Cardinality(S)
    BY DEF Bounded!Cardinality, Cardinality
<1>2. \A q : /\ Bounded!ReserveSlot(q) = ReserveSlot(q) /\ Bounded!ReserveItem(q) = ReserveItem(q)
             /\ Bounded!PostFull(q) = PostFull(q) /\ Bounded!PostEmpty(q) = PostEmpty(q)
             /\ Bounded!Lock(q) = Lock(q) /\ Bounded!ReadSlot(q) = ReadSlot(q)
    BY DEF Bounded!ReserveSlot, ReserveSlot, Bounded!ReserveItem, ReserveItem,
        Bounded!PostFull, PostFull, Bounded!PostEmpty, PostEmpty, Bounded!Lock, Lock,
        Bounded!ReadSlot, ReadSlot
<1>3. \A o, size : Bounded!NewQueue(size, o) = NewQueue(size, o)
    BY DEF Bounded!NewQueue, NewQueue
<1>4. \A q, o, size : Bounded!PutItem(q, o, size) = PutItem(q, o, size)
    BY DEF Bounded!PutItem, PutItem, Bounded!Unlock, Unlock, Bounded!AdvanceFill, AdvanceFill,
        Bounded!WriteSlot, WriteSlot, Bounded!NextSlot, NextSlot
<1>5. \A q, size : Bounded!TakeItem(q, size) = TakeItem(q, size)
    BY DEF Bounded!TakeItem, TakeItem, Bounded!Unlock, Unlock, Bounded!AdvanceUse, AdvanceUse,
        Bounded!NextSlot, NextSlot
<1>6. QED
    BY <1>1, <1>2, <1>3, <1>4, <1>5

LEMMA BoundedInit == Bounded!Init => BoundedInv
<1> SUFFICES ASSUME Bounded!Init PROVE BoundedInv
    OBVIOUS
<1> USE BThreadsFinite, SlotsPositive
<1>1. /\ b = NewQueue(MAX, 0) /\ no_served = 0
      /\ pc = [y \in BThreads |-> IF y \in BClients THEN "trypush" ELSE "check"]
      /\ temp = [k \in BCashiers |-> 0]
      /\ announced = [y \in BClients |-> 0]
    BY BoundedRing
    DEF Bounded!Init, Bounded!Threads, BThreads, BClients, BCashiers
<1>2. BoundedType
    BY <1>1 DEF BoundedType, Entering, Entered, Holding, BThreads
<1>3. \A y \in BThreads : Role(BCrew, pc[y], 0, 0, 0, 0, 0)
    BY <1>1 DEF Role, BCrew, Part
<1>4. /\ Crewed(b, BClients \union {0}, BThreads, pc, BCrew) /\ BKept = 0
      /\ Stored(b, 0, MAX) = {} /\ Distinct(b, 0, MAX)
    BY <1>1, <1>3, CrewStarts DEF BKept
<1>5. InOnePlace
    BY <1>1, <1>4 DEF InOnePlace, InRing, Holding, BThreads
<1>6. Served = {}
    BY <1>1 DEF Served, BThreads
<1>7. Cardinality(Served) = 0
    BY <1>6, FS_EmptySet
<1>8. CountRight
    BY <1>1, <1>7 DEF CountRight, BThreads
<1>9. QED
    BY <1>2, <1>4, <1>5, <1>8 DEF BoundedInv

(* A statement that is not one of the two critical sections. *)
LEMMA BoundedMoves ==
    ASSUME BoundedInv, NEW x \in BThreads, NEW there, pc' = [pc EXCEPT ![x] = there],
           Moves(BCrew, pc[x], there, b, b')
    PROVE  /\ Crewed(b', BClients \union {0}, BThreads, pc', BCrew)
           /\ BKept' = BKept /\ InRing' = InRing
           /\ Distinct(b', BKept', MAX)
<1>1. Stay(BThreads, pc, pc', x) /\ pc'[x] = there
    BY DEF BoundedInv, BoundedType, Stay
<1>2. /\ Crewed(b', BClients \union {0}, BThreads, pc', BCrew)
      /\ Kept(b', BThreads, pc', BCrew) = Kept(b, BThreads, pc, BCrew)
      /\ \A n : Items(b', n, MAX) = Items(b, n, MAX)
  <2>1. /\ Crewed(b, BClients \union {0}, BThreads, pc, BCrew)
        /\ Moves(BCrew, pc[x], pc'[x], b, b')
      BY <1>1 DEF BoundedInv
  <2>2. IsFiniteSet(BThreads) /\ MAX \in Nat \ {0}
      BY BThreadsFinite, SlotsPositive
  <2>3. x \in BThreads /\ Stay(BThreads, pc, pc', x)
      BY <1>1
  <2>4. QED
      BY ONLY <2>1, <2>2, <2>3, CrewMoves
<1>3. BKept' = BKept
    BY <1>2 DEF BKept
<1>4. InRing' = InRing
    BY <1>2, <1>3 DEF InRing, Stored
<1>5. Distinct(b', BKept', MAX)
  <2>1. Distinct(b, BKept, MAX)
      BY DEF BoundedInv, InOnePlace
  <2>2. QED
      BY <1>2, <1>3, <2>1 DEF Distinct
<1>6. QED
    BY <1>2, <1>3, <1>4, <1>5

(* Such a statement leaves every client where it is, and the counter alone. *)
LEMMA BoundedQuiet ==
    ASSUME BoundedInv, NEW x \in BThreads, NEW there, pc' = [pc EXCEPT ![x] = there],
           Moves(BCrew, pc[x], there, b, b'),
           temp' = temp, announced' = announced, no_served' = no_served,
           x \in BClients =>
              \/ pc[x] \in Entering /\ there \in Entering
              \/ pc[x] \in Entered /\ there \in Entered,
           x \in BCashiers =>
              /\ \/ pc[x] \in Holding \ {"print"} /\ there \in Holding \ {"print"}
                 \/ /\ pc[x] \notin Holding
                    /\ there \in {"check", "trypop", "pop_lock", "pop_take", "done"}
              /\ there = "done" => no_served = CLIENTS
    PROVE  BoundedInv'
<1> USE BThreadsFinite
<1>1. /\ Crewed(b', BClients \union {0}, BThreads, pc', BCrew)
      /\ BKept' = BKept /\ InRing' = InRing
      /\ Distinct(b', BKept', MAX)
    BY BoundedMoves
<1>2. BoundedType /\ InOnePlace /\ CountRight
    BY DEF BoundedInv
<1>3. BoundedType'
    BY <1>2 DEF BoundedType
<1>4. /\ \A y \in BClients : pc'[y] \in Entered <=> pc[y] \in Entered
      /\ \A k \in BCashiers : pc'[k] \in Holding <=> pc[k] \in Holding
      /\ \A k \in BCashiers : pc'[k] = "print" <=> pc[k] = "print"
      /\ \A k \in BCashiers : pc'[k] = "done" => pc[k] = "done" \/ no_served = CLIENTS
    BY <1>2 DEF BoundedType, Entering, Entered, Holding
<1>5. InOnePlace'
    BY <1>1, <1>2, <1>4 DEF InOnePlace, BoundedType
<1>6. Served' = Served
    BY <1>4 DEF Served
<1>7. no_served = CLIENTS => Served = BClients
  <2>1. Served \subseteq BClients
      BY DEF Served
  <2>2. QED
      BY <1>2, <2>1, FS_Subset DEF CountRight
<1>8. CountRight'
    BY <1>2, <1>4, <1>6, <1>7 DEF CountRight
<1>9. QED
    BY <1>1, <1>3, <1>5, <1>8 DEF BoundedInv

(* The client writes itself into the ring. *)
LEMMA BoundedPut ==
    ASSUME BoundedInv, NEW x \in BClients, pc[x] = "push_put",
           pc' = [pc EXCEPT ![x] = "push_post"], b' = PutItem(b, x, MAX),
           temp' = temp, announced' = announced, no_served' = no_served
    PROVE  BoundedInv'
<1> USE BThreadsFinite
<1>1. BoundedType /\ InOnePlace /\ CountRight
    BY DEF BoundedInv
<1>2. BoundedType'
    BY <1>1 DEF BoundedType, Entering, Entered, Holding, BThreads
<1>3. x \notin InRing
    BY <1>1 DEF InOnePlace, Entered
<1>4. /\ Crewed(b', BClients \union {0}, BThreads, pc', BCrew)
      /\ BKept' = BKept + 1 /\ Grown(b, b', BKept, x)
  <2>1. Stay(BThreads, pc, pc', x) /\ x \in BThreads
      BY <1>1 DEF BoundedType, Stay, BThreads
  <2>2. Role(BCrew, pc[x], 1, 0, 0, 0, 1) /\ Role(BCrew, pc'[x], 0, 1, 0, 0, 0)
      BY <1>1, <2>1 DEF BoundedType, Role, BCrew, Part
  <2>3. /\ MAX \in Nat \ {0} /\ IsFiniteSet(BThreads) /\ x \in BClients \union {0}
        /\ Crewed(b, BClients \union {0}, BThreads, pc, BCrew) /\ b' = PutItem(b, x, MAX)
      BY SlotsPositive DEF BoundedInv
  <2>4. KeptIs(BKept, b, BThreads, pc, BCrew)
      BY DEF BKept, KeptIs
  <2>5. BKept \in Nat
      BY <2>3, KeptNumber DEF BKept
  <2>6. /\ Crewed(b', BClients \union {0}, BThreads, pc', BCrew)
        /\ KeptIs(BKept + 1, b', BThreads, pc', BCrew)
        /\ Grown(b, b', BKept, x)
      BY ONLY <2>1, <2>2, <2>3, <2>4, <2>5, CrewPuts
  <2>7. QED
      BY <2>6 DEF KeptIs, BKept
<1>5. InRing' = InRing \union {x} /\ Distinct(b', BKept', MAX)
    BY <1>1, <1>3, <1>4 DEF InRing, InOnePlace, Grown
<1>6. /\ \A y \in BClients : y # x => pc'[y] = pc[y]
      /\ pc'[x] \in Entered /\ pc[x] \notin Entered
      /\ \A k \in BCashiers : pc'[k] = pc[k]
    BY <1>1 DEF BoundedType, Entered, BThreads
<1>7. announced[x] = 0 /\ \A k \in BCashiers : temp[k] # x
    BY <1>1, <1>6 DEF InOnePlace, BoundedType
<1>8. InOnePlace'
    BY <1>1, <1>5, <1>6, <1>7 DEF InOnePlace, BoundedType
<1>9. Served' = Served
    BY <1>6 DEF Served
<1>10. CountRight'
    BY <1>1, <1>6, <1>9 DEF CountRight
<1>11. QED
    BY <1>2, <1>4, <1>8, <1>10 DEF BoundedInv

(* A cashier takes the client whose turn it is. *)
LEMMA BoundedTake ==
    ASSUME BoundedInv, NEW x \in BCashiers, pc[x] = "pop_take",
           pc' = [pc EXCEPT ![x] = "pop_post"], b' = TakeItem(b, MAX),
           temp' = [temp EXCEPT ![x] = ReadSlot(b)],
           announced' = announced, no_served' = no_served
    PROVE  BoundedInv'
<1> USE BThreadsFinite
<1>1. BoundedType /\ InOnePlace /\ CountRight
    BY DEF BoundedInv
<1>2. /\ Crewed(b', BClients \union {0}, BThreads, pc', BCrew)
      /\ BKept' = BKept - 1 /\ Shrunk(b, b', BKept)
  <2>1. Stay(BThreads, pc, pc', x) /\ x \in BThreads
      BY <1>1 DEF BoundedType, Stay, BThreads
  <2>2. Role(BCrew, pc[x], 0, 0, 1, 0, 1) /\ Role(BCrew, pc'[x], 0, 0, 0, 1, 0)
      BY <1>1, <2>1 DEF BoundedType, Role, BCrew, Part
  <2>3. /\ MAX \in Nat \ {0} /\ IsFiniteSet(BThreads)
        /\ Crewed(b, BClients \union {0}, BThreads, pc, BCrew) /\ b' = TakeItem(b, MAX)
      BY SlotsPositive DEF BoundedInv
  <2>4. KeptIs(BKept, b, BThreads, pc, BCrew)
      BY DEF BKept, KeptIs
  <2>5. BKept \in Nat
      BY <2>3, KeptNumber DEF BKept
  <2>6. /\ Crewed(b', BClients \union {0}, BThreads, pc', BCrew)
        /\ KeptIs(BKept - 1, b', BThreads, pc', BCrew)
        /\ Shrunk(b, b', BKept)
      BY ONLY <2>1, <2>2, <2>3, <2>4, <2>5, CrewTakes
  <2>7. QED
      BY <2>6 DEF KeptIs, BKept
<1>3. /\ Distinct(b', BKept', MAX) /\ ReadSlot(b) \in InRing
      /\ InRing' = InRing \ {ReadSlot(b)}
    BY <1>1, <1>2 DEF InRing, InOnePlace, Shrunk
<1>4. PICK y : y = ReadSlot(b)
    OBVIOUS
<1>5. /\ y \in BClients /\ pc[y] \in Entered /\ announced[y] = 0
      /\ \A k \in BCashiers : temp[k] # y
      /\ InRing' = InRing \ {y}
    BY <1>1, <1>3, <1>4 DEF InOnePlace
<1>6. temp' = [temp EXCEPT ![x] = y] /\ temp[x] = 0 /\ y # 0
    BY <1>1, <1>4, <1>5 DEF InOnePlace, BoundedType, Holding
<1>7. BoundedType'
    BY <1>1, <1>5, <1>6 DEF BoundedType, Entering, Entered, Holding, BThreads
<1>8. /\ \A z \in BClients : pc'[z] = pc[z]
      /\ \A k \in BCashiers : k # x => pc'[k] = pc[k] /\ temp'[k] = temp[k]
      /\ pc'[x] = "pop_post" /\ temp'[x] = y
    BY <1>1, <1>6 DEF BoundedType, BThreads
<1>9. InOnePlace'
    BY <1>1, <1>3, <1>5, <1>6, <1>8 DEF InOnePlace, BoundedType, Holding
<1>10. Served' = Served
    BY <1>8 DEF Served
<1>11. CountRight'
    BY <1>1, <1>8, <1>10 DEF CountRight
<1>12. QED
    BY <1>2, <1>7, <1>9, <1>11 DEF BoundedInv

LEMMA BoundedNext == BoundedInv /\ Bounded!Next => BoundedInv'
<1> SUFFICES ASSUME BoundedInv, Bounded!Next PROVE BoundedInv'
    OBVIOUS
<1> USE BThreadsFinite
<1>0. BoundedType /\ InOnePlace /\ CountRight
    BY DEF BoundedInv
<1>1. ASSUME NEW x \in BClients, Bounded!TryPush(x) PROVE BoundedInv'
  <2>1. /\ pc[x] = "trypush" /\ temp' = temp /\ announced' = announced
        /\ no_served' = no_served
        /\ pc' = [pc EXCEPT ![x] = IF b.empty > 0 THEN "push_lock" ELSE "sleep"]
        /\ b' = IF b.empty > 0 THEN ReserveSlot(b) ELSE b
      BY <1>1, BoundedRing DEF Bounded!TryPush, Bounded!Goto, Bounded!CountsUnchanged
  <2>2. x \in BThreads /\ x \notin BCashiers
      BY DEF BThreads
  <2>3. CASE b.empty > 0
    <3>1. Moves(BCrew, pc[x], "push_lock", b, b')
        BY <2>1, <2>3 DEF Moves, Role, BCrew, Part
    <3>2. pc' = [pc EXCEPT ![x] = "push_lock"]
        BY <2>1, <2>3
    <3>3. pc[x] \in Entering /\ "push_lock" \in Entering
        BY <2>1 DEF Entering
    <3>4. QED
        BY <2>1, <2>2, <3>1, <3>2, <3>3, BoundedQuiet
  <2>4. CASE ~ b.empty > 0
    <3>1. Moves(BCrew, pc[x], "sleep", b, b')
        BY <2>1, <2>4 DEF Moves, Role, BCrew, Part
    <3>2. pc' = [pc EXCEPT ![x] = "sleep"]
        BY <2>1, <2>4
    <3>3. pc[x] \in Entering /\ "sleep" \in Entering
        BY <2>1 DEF Entering
    <3>4. QED
        BY <2>1, <2>2, <3>1, <3>2, <3>3, BoundedQuiet
  <2>5. QED
      BY <2>3, <2>4
<1>2. ASSUME NEW x \in BClients, Bounded!WakeUp(x) PROVE BoundedInv'
  <2>1. /\ pc[x] = "sleep" /\ temp' = temp /\ announced' = announced
        /\ no_served' = no_served /\ pc' = [pc EXCEPT ![x] = "trypush"] /\ b' = b
      BY <1>2 DEF Bounded!WakeUp, Bounded!Goto, Bounded!CountsUnchanged
  <2>2. x \in BThreads /\ x \notin BCashiers
      BY DEF BThreads
  <2>3. Moves(BCrew, pc[x], "trypush", b, b')
      BY <2>1 DEF Moves, Role, BCrew, Part
  <2>4. pc[x] \in Entering /\ "trypush" \in Entering
      BY <2>1 DEF Entering
  <2>5. QED
      BY <2>1, <2>2, <2>3, <2>4, BoundedQuiet
<1>3. ASSUME NEW x \in BClients, Bounded!PushLock(x) PROVE BoundedInv'
  <2>1. /\ pc[x] = "push_lock" /\ temp' = temp /\ announced' = announced
        /\ no_served' = no_served /\ pc' = [pc EXCEPT ![x] = "push_put"]
        /\ b.lock > 0 /\ b' = Lock(b)
      BY <1>3, BoundedRing DEF Bounded!PushLock, Bounded!Goto, Bounded!CountsUnchanged
  <2>2. x \in BThreads /\ x \notin BCashiers
      BY DEF BThreads
  <2>3. Moves(BCrew, pc[x], "push_put", b, b')
      BY <2>1 DEF Moves, Role, BCrew, Part
  <2>4. pc[x] \in Entering /\ "push_put" \in Entering
      BY <2>1 DEF Entering
  <2>5. QED
      BY <2>1, <2>2, <2>3, <2>4, BoundedQuiet
<1>4. ASSUME NEW x \in BClients, Bounded!PushPut(x) PROVE BoundedInv'
  <2>1. /\ pc[x] = "push_put" /\ temp' = temp /\ announced' = announced
        /\ no_served' = no_served /\ pc' = [pc EXCEPT ![x] = "push_post"]
        /\ b' = PutItem(b, x, MAX)
      BY <1>4, BoundedRing DEF Bounded!PushPut, Bounded!Goto, Bounded!CountsUnchanged
  <2>2. QED
      BY <2>1, BoundedPut
<1>5. ASSUME NEW x \in BClients, Bounded!PushPost(x) PROVE BoundedInv'
  <2>1. /\ pc[x] = "push_post" /\ temp' = temp /\ announced' = announced
        /\ no_served' = no_served /\ pc' = [pc EXCEPT ![x] = "done"]
        /\ b' = PostFull(b)
      BY <1>5, BoundedRing DEF Bounded!PushPost, Bounded!Goto, Bounded!CountsUnchanged
  <2>2. x \in BThreads /\ x \notin BCashiers
      BY DEF BThreads
  <2>3. Moves(BCrew, pc[x], "done", b, b')
      BY <2>1 DEF Moves, Role, BCrew, Part
  <2>4. pc[x] \in Entered /\ "done" \in Entered
      BY <2>1 DEF Entered
  <2>5. QED
      BY <2>1, <2>2, <2>3, <2>4, BoundedQuiet
<1>6. ASSUME NEW x \in BCashiers, Bounded!CheckServed(x) PROVE BoundedInv'
  <2>1. /\ pc[x] = "check" /\ temp' = temp /\ announced' = announced
        /\ no_served' = no_served /\ b' = b
        /\ pc' = [pc EXCEPT ![x] = IF no_served # CLIENTS THEN "trypop" ELSE "done"]
      BY <1>6, BoundedRing DEF Bounded!CheckServed, Bounded!Goto, BClients
  <2>2. x \in BThreads /\ x \notin BClients /\ pc[x] \notin Holding
      BY <2>1 DEF BThreads, Holding
  <2>3. CASE no_served # CLIENTS
    <3>1. Moves(BCrew, pc[x], "trypop", b, b')
        BY <2>1 DEF Moves, Role, BCrew, Part
    <3>2. pc' = [pc EXCEPT ![x] = "trypop"]
        BY <2>1, <2>3
    <3>3. QED
        BY <2>1, <2>2, <3>1, <3>2, BoundedQuiet
  <2>4. CASE no_served = CLIENTS
    <3>1. Moves(BCrew, pc[x], "done", b, b')
        BY <2>1 DEF Moves, Role, BCrew, Part
    <3>2. pc' = [pc EXCEPT ![x] = "done"]
        BY <2>1, <2>4
    <3>3. QED
        BY <2>1, <2>2, <2>4, <3>1, <3>2, BoundedQuiet
  <2>5. QED
      BY <2>3, <2>4
<1>7. ASSUME NEW x \in BCashiers, Bounded!TryPop(x) PROVE BoundedInv'
  <2>1. /\ pc[x] = "trypop" /\ temp' = temp /\ announced' = announced
        /\ no_served' = no_served
        /\ pc' = [pc EXCEPT ![x] = IF b.full > 0 THEN "pop_lock" ELSE "check"]
        /\ b' = IF b.full > 0 THEN ReserveItem(b) ELSE b
      BY <1>7, BoundedRing DEF Bounded!TryPop, Bounded!Goto, Bounded!CountsUnchanged
  <2>2. x \in BThreads /\ x \notin BClients /\ pc[x] \notin Holding
      BY <2>1 DEF BThreads, Holding
  <2>3. CASE b.full > 0
    <3>1. Moves(BCrew, pc[x], "pop_lock", b, b')
        BY <2>1, <2>3 DEF Moves, Role, BCrew, Part
    <3>2. pc' = [pc EXCEPT ![x] = "pop_lock"]
        BY <2>1, <2>3
    <3>3. QED
        BY <2>1, <2>2, <3>1, <3>2, BoundedQuiet
  <2>4. CASE ~ b.full > 0
    <3>1. Moves(BCrew, pc[x], "check", b, b')
        BY <2>1, <2>4 DEF Moves, Role, BCrew, Part
    <3>2. pc' = [pc EXCEPT ![x] = "check"]
        BY <2>1, <2>4
    <3>3. QED
        BY <2>1, <2>2, <3>1, <3>2, BoundedQuiet
  <2>5. QED
      BY <2>3, <2>4
<1>8. ASSUME NEW x \in BCashiers, Bounded!PopLock(x) PROVE BoundedInv'
  <2>1. /\ pc[x] = "pop_lock" /\ temp' = temp /\ announced' = announced
        /\ no_served' = no_served /\ pc' = [pc EXCEPT ![x] = "pop_take"]
        /\ b.lock > 0 /\ b' = Lock(b)
      BY <1>8, BoundedRing DEF Bounded!PopLock, Bounded!Goto, Bounded!CountsUnchanged
  <2>2. x \in BThreads /\ x \notin BClients /\ pc[x] \notin Holding
      BY <2>1 DEF BThreads, Holding
  <2>3. Moves(BCrew, pc[x], "pop_take", b, b')
      BY <2>1 DEF Moves, Role, BCrew, Part
  <2>4. QED
      BY <2>1, <2>2, <2>3, BoundedQuiet
<1>9. ASSUME NEW x \in BCashiers, Bounded!PopTake(x) PROVE BoundedInv'
  <2>1. /\ pc[x] = "pop_take" /\ announced' = announced
        /\ no_served' = no_served /\ pc' = [pc EXCEPT ![x] = "pop_post"]
        /\ temp' = [temp EXCEPT ![x] = ReadSlot(b)] /\ b' = TakeItem(b, MAX)
      BY <1>9, BoundedRing DEF Bounded!PopTake, Bounded!Goto
  <2>2. QED
      BY <2>1, BoundedTake
<1>10. ASSUME NEW x \in BCashiers, Bounded!PopPost(x) PROVE BoundedInv'
  <2>1. /\ pc[x] = "pop_post" /\ temp' = temp /\ announced' = announced
        /\ no_served' = no_served /\ pc' = [pc EXCEPT ![x] = "increment"]
        /\ b' = PostEmpty(b)
      BY <1>10, BoundedRing DEF Bounded!PopPost, Bounded!Goto, Bounded!CountsUnchanged
  <2>2. /\ x \in BThreads /\ x \notin BClients
        /\ pc[x] \in Holding \ {"print"} /\ "increment" \in Holding \ {"print"}
      BY <2>1 DEF BThreads, Holding
  <2>3. Moves(BCrew, pc[x], "increment", b, b')
      BY <2>1 DEF Moves, Role, BCrew, Part
  <2>4. QED
      BY <2>1, <2>2, <2>3, BoundedQuiet
<1>11. ASSUME NEW x \in BCashiers, Bounded!CountServed(x) PROVE BoundedInv'
  <2>1. /\ pc[x] = "increment" /\ pc' = [pc EXCEPT ![x] = "print"]
        /\ no_served' = no_served + 1
        /\ b' = b /\ temp' = temp /\ announced' = announced
      BY <1>11 DEF Bounded!CountServed, Bounded!Goto
  <2>2. x \in BThreads
      BY DEF BThreads
  <2>3. Moves(BCrew, pc[x], "print", b, b')
      BY <2>1 DEF Moves, Role, BCrew, Part
  <2>4. /\ Crewed(b', BClients \union {0}, BThreads, pc', BCrew)
        /\ InRing' = InRing /\ Distinct(b', BKept', MAX)
      BY <2>1, <2>2, <2>3, BoundedMoves
  <2>5. /\ pc'[x] = "print" /\ pc[x] \in Holding /\ "print" \in Holding
        /\ \A y \in BThreads : y # x => pc'[y] = pc[y]
      BY <1>0, <2>1, <2>2 DEF BoundedType, Holding
  <2>6. BoundedType'
      BY <1>0, <2>1, <2>2 DEF BoundedType, Holding, Entering, Entered
  <2>7. InOnePlace'
    <3>1. /\ \A y \in BClients : pc'[y] = pc[y]
          /\ \A k \in BCashiers : pc'[k] \in Holding <=> pc[k] \in Holding
        BY <2>5 DEF BThreads
    <3>2. QED
        BY <1>0, <2>1, <2>4, <3>1 DEF InOnePlace, BoundedType
  <2>8. PICK y : y = temp[x]
      OBVIOUS
  <2>9. /\ y \in BClients /\ announced[y] = 0
        /\ \A k \in BCashiers : temp[k] = y => k = x
      BY <1>0, <2>1, <2>5, <2>8 DEF InOnePlace, BoundedType
  <2>10. y \notin Served /\ Served' = Served \union {y}
      BY <2>1, <2>5, <2>8, <2>9 DEF Served, BThreads
  <2>11. Cardinality(Served') = Cardinality(Served) + 1
      BY <2>10, OneMore
  <2>12. \A k \in BCashiers : pc[k] # "done"
      BY <1>0, <2>9, <2>10 DEF CountRight
  <2>13. CountRight'
      BY <1>0, <2>1, <2>5, <2>11, <2>12 DEF CountRight, BThreads
  <2>14. QED
      BY <2>4, <2>6, <2>7, <2>13 DEF BoundedInv
<1>12. ASSUME NEW x \in BCashiers, Bounded!PrintServed(x) PROVE BoundedInv'
  <2>1. /\ pc[x] = "print" /\ pc' = [pc EXCEPT ![x] = "check"]
        /\ announced' = [announced EXCEPT ![temp[x]] = announced[temp[x]] + 1]
        /\ temp' = [temp EXCEPT ![x] = 0]
        /\ b' = b /\ no_served' = no_served
      BY <1>12 DEF Bounded!PrintServed, Bounded!Goto
  <2>2. x \in BThreads
      BY DEF BThreads
  <2>3. Moves(BCrew, pc[x], "check", b, b')
      BY <2>1 DEF Moves, Role, BCrew, Part
  <2>4. /\ Crewed(b', BClients \union {0}, BThreads, pc', BCrew)
        /\ InRing' = InRing /\ Distinct(b', BKept', MAX)
      BY <2>1, <2>2, <2>3, BoundedMoves
  <2>5. PICK y : y = temp[x]
      OBVIOUS
  <2>6. /\ y \in BClients /\ announced[y] = 0 /\ pc[y] \in Entered /\ y \notin InRing
        /\ \A k \in BCashiers : temp[k] = y => k = x
      BY <1>0, <2>1, <2>5 DEF InOnePlace, BoundedType, Holding
  <2>7. announced' = [announced EXCEPT ![y] = 1]
      BY <2>1, <2>5, <2>6
  <2>8. /\ \A z \in BThreads : z # x => pc'[z] = pc[z]
        /\ pc'[x] = "check" /\ temp'[x] = 0
        /\ \A k \in BCashiers : k # x => temp'[k] = temp[k]
        /\ announced'[y] = 1
        /\ \A z \in BClients : z # y => announced'[z] = announced[z]
      BY <1>0, <2>1, <2>2, <2>6, <2>7 DEF BoundedType
  <2>9. BoundedType'
      BY <1>0, <2>1, <2>2, <2>6, <2>7 DEF BoundedType, Holding, Entering, Entered
  <2>10. InOnePlace'
      BY <1>0, <2>1, <2>4, <2>5, <2>6, <2>8 DEF InOnePlace, BThreads, Holding, BoundedType
  <2>11. Served' = Served
      BY <1>0, <2>1, <2>5, <2>6, <2>8 DEF Served, BThreads, BoundedType
  <2>12. CountRight'
      BY <1>0, <2>1, <2>8, <2>11 DEF CountRight, BThreads
  <2>13. QED
      BY <2>4, <2>9, <2>10, <2>12 DEF BoundedInv
<1>13. CASE Bounded!Main \/ Bounded!Terminated
  <2>1. /\ b' = b /\ pc' = pc /\ temp' = temp /\ announced' = announced
        /\ no_served' = no_served
      BY <1>13 DEF Bounded!Main, Bounded!Terminated, Bounded!vars
  <2>2. QED
      BY <1>0, <2>1
      DEF BoundedInv, BoundedType, InOnePlace, CountRight, Served, InRing, BKept
<1>14. QED
    BY <1>1, <1>2, <1>3, <1>4, <1>5, <1>6, <1>7, <1>8, <1>9, <1>10, <1>11, <1>12, <1>13
    DEF Bounded!Next, Bounded!Client, Bounded!Cashier, BClients, BCashiers

(* When one cashier leaves, every client is announced, or in the hands of   *)
(* one cashier that will announce it.                                       *)
LEMMA BoundedLeft == BoundedInv => Bounded!NobodyLeftBehind
<1> SUFFICES ASSUME BoundedInv, NEW l \in BCashiers, pc[l] = "done", NEW y \in BClients
             PROVE  announced[y] + Cardinality({k \in BCashiers : temp[k] = y}) = 1
    BY BoundedRing DEF Bounded!NobodyLeftBehind, BClients, BCashiers
<1>1. BoundedType /\ InOnePlace /\ y \in Served /\ y # 0
    BY BThreadsFinite DEF BoundedInv, CountRight
<1>2. CASE announced[y] = 1
  <2>1. {k \in BCashiers : temp[k] = y} = {}
      BY <1>1, <1>2 DEF InOnePlace
  <2>2. QED
      BY <1>2, <2>1, FS_EmptySet
<1>3. CASE announced[y] # 1
  <2>1. PICK k \in BCashiers : pc[k] = "print" /\ temp[k] = y
      BY <1>1, <1>3 DEF Served
  <2>2. {m \in BCashiers : temp[m] = y} = {k}
      BY <1>1, <2>1 DEF InOnePlace
  <2>3. Cardinality({k}) = 1
      BY FS_Singleton
  <2>4. announced[y] = 0
      BY <1>1, <1>3 DEF BoundedType
  <2>5. QED
      BY <2>2, <2>3, <2>4
<1>4. QED
    BY <1>2, <1>3

-----------------------------------------------------------------------------
(* legacy/sem_queue.c *)

LThreads == 1 .. PRODUCERS + CONSUMERS
LValues  == 1 .. PRODUCERS

LCrew == [ slot   |-> {"insert_lock", "insert"},
           put    |-> {"post_full"},
           item   |-> {"get_lock", "take"},
           taken  |-> {"post_empty"},
           inside |-> {"insert", "take"} ]

Producing == {"increment", "get", "wait_empty", "insert_lock", "insert", "post_full", "done"}
Consuming == {"wait_full", "get_lock", "take", "post_empty", "print"}

LKept == Kept(b, LThreads, pc, LCrew)

LegacyType ==
    /\ DOMAIN pc = LThreads
    /\ \A p \in 1 .. PRODUCERS : pc[p] \in Producing
    /\ \A k \in PRODUCERS + 1 .. PRODUCERS + CONSUMERS : pc[k] \in Consuming
    /\ temp \in [LThreads -> Nat]
    /\ i \in [1 .. PRODUCERS -> Nat]
    /\ c \in Nat
    /\ printed \in [LValues -> Int]

(* How many numbers up to k there are: on the paper, in the ring (of n      *)
(* items) and in the threads' hands.                                        *)
Paper(f, k)       == Total([v \in 1 .. k |-> f[v]])
InSlots(q, n, k)  == Many(1 .. n, Items(q, n, MAX), 1 .. k)
InHand(k)         == Many(LThreads, temp, 1 .. k)
NumbersUpTo(k)    == InHand(k) + InSlots(b, LKept, k) + Paper(printed, k)

Looking == Many(LThreads, pc, {"get"})

(* A producer that has counted and not looked may still see any number from *)
(* its own on, so that there is one number fewer up to the counter.         *)
NumbersRight ==
    \A k \in LValues :
        /\ k < c => NumbersUpTo(k) <= k
        /\ c <= k => NumbersUpTo(k) + Looking <= c

LegacyInv ==
    /\ LegacyType
    /\ Crewed(b, Nat, LThreads, pc, LCrew)
    /\ NumbersRight

LEMMA LThreadsFinite ==
    /\ IsFiniteSet(LThreads) /\ PRODUCERS \in Nat /\ CONSUMERS \in Nat
    /\ Legacy!Producers = 1 .. PRODUCERS /\ Legacy!Values = LValues
    /\ Legacy!Consumers = PRODUCERS + 1 .. PRODUCERS + CONSUMERS
    /\ \A t : t \in LThreads <=> t \in Legacy!Producers \/ t \in Legacy!Consumers
    /\ Legacy!Producers \intersect Legacy!Consumers = {}
<1>1. PRODUCERS \in Nat /\ CONSUMERS \in Nat
    BY Sizes
<1>2. IsFiniteSet(LThreads)
    BY <1>1, FS_Interval DEF LThreads
<1>3. QED
    BY <1>1, <1>2 DEF LThreads, LValues, Legacy!Producers, Legacy!Values, Legacy!Consumers

(* The ring and the folds of the module LegacyQueue are those of SemQueue   *)
(* and of Functions.                                                        *)
LEMMA LegacyRing ==
    /\ \A S : Legacy!Cardinality(S) = Cardinality(S)
    /\ \A q, o, size :
          /\ Legacy!ReserveSlot(q) = ReserveSlot(q) /\ Legacy!ReserveItem(q) = ReserveItem(q)
          /\ Legacy!PostFull(q) = PostFull(q) /\ Legacy!PostEmpty(q) = PostEmpty(q)
          /\ Legacy!Lock(q) = Lock(q) /\ Legacy!ReadSlot(q) = ReadSlot(q)
          /\ Legacy!NewQueue(size, o) = NewQueue(size, o)
          /\ Legacy!PutItem(q, o, size) = PutItem(q, o, size)
          /\ Legacy!TakeItem(q, size) = TakeItem(q, size)
          /\ Legacy!Items(q, o, size) = Items(q, o, size)
<1>1. \A S : Legacy!Cardinality(S) = Cardinality(S)
    BY DEF Legacy!Cardinality, Cardinality
<1>2. \A q : /\ Legacy!ReserveSlot(q) = ReserveSlot(q) /\ Legacy!ReserveItem(q) = ReserveItem(q)
             /\ Legacy!PostFull(q) = PostFull(q) /\ Legacy!PostEmpty(q) = PostEmpty(q)
             /\ Legacy!Lock(q) = Lock(q) /\ Legacy!ReadSlot(q) = ReadSlot(q)
    BY DEF Legacy!ReserveSlot, ReserveSlot, Legacy!ReserveItem, ReserveItem,
        Legacy!PostFull, PostFull, Legacy!PostEmpty, PostEmpty, Legacy!Lock, Lock,
        Legacy!ReadSlot, ReadSlot
<1>3. \A o, size : Legacy!NewQueue(size, o) = NewQueue(size, o)
    BY DEF Legacy!NewQueue, NewQueue
<1>4. \A q, o, size : Legacy!PutItem(q, o, size) = PutItem(q, o, size)
    BY DEF Legacy!PutItem, PutItem, Legacy!Unlock, Unlock, Legacy!AdvanceFill, AdvanceFill,
        Legacy!WriteSlot, WriteSlot, Legacy!NextSlot, NextSlot
<1>5. \A q, size : Legacy!TakeItem(q, size) = TakeItem(q, size)
    BY DEF Legacy!TakeItem, TakeItem, Legacy!Unlock, Unlock, Legacy!AdvanceUse, AdvanceUse,
        Legacy!NextSlot, NextSlot
<1>6. \A q, n, size : Legacy!Items(q, n, size) = Items(q, n, size)
    BY DEF Legacy!Items, Items
<1>7. QED
    BY <1>1, <1>2, <1>3, <1>4, <1>5, <1>6

LEMMA LegacyFold ==
    ASSUME NEW f, NEW k
    PROVE  Legacy!FoldFunctionOnSet(+, 0, f, 1 .. k) = FoldFunctionOnSet(+, 0, f, 1 .. k)
BY DEF Legacy!FoldFunctionOnSet, FoldFunctionOnSet, Legacy!MapThenFoldSet, MapThenFoldSet

(* One more item, or one fewer, among those that count. *)
LEMMA GrownCount ==
    ASSUME NEW q, NEW r, NEW n \in Nat, NEW o, Grown(q, r, n, o), NEW k \in Nat
    PROVE  InSlots(r, n + 1, k) = InSlots(q, n, k) + Part(o, 1 .. k)
<1> DEFINE A == At(1 .. n, Items(q, n, MAX), 1 .. k)
           C == At(1 .. n + 1, Items(r, n + 1, MAX), 1 .. k)
<1>1. /\ Items(r, n + 1, MAX)[n + 1] = o
      /\ \A j \in 1 .. n : Items(r, n + 1, MAX)[j] = Items(q, n, MAX)[j]
    BY DEF Grown
<1>2. C = IF o \in 1 .. k THEN A \union {n + 1} ELSE A
    BY <1>1 DEF At
<1>3. n + 1 \notin A /\ A \subseteq 1 .. n
    BY DEF At
<1>4. IsFiniteSet(A)
  <2>1. IsFiniteSet(1 .. n)
      BY FS_Interval
  <2>2. QED
      BY <1>3, <2>1, FS_Subset
<1> HIDE DEF A, C
<1>5. Cardinality(A) \in Nat /\ Cardinality(A \union {n + 1}) = Cardinality(A) + 1
    BY <1>3, <1>4, OneMore, FS_CardinalityType
<1>6. Cardinality(C) = Cardinality(A) + Part(o, 1 .. k)
    BY <1>2, <1>5 DEF Part
<1>7. QED
    BY <1>6 DEF InSlots, Many, A, C

LEMMA ShrunkCount ==
    ASSUME NEW q, NEW r, NEW n \in Nat, Shrunk(q, r, n), NEW k \in Nat
    PROVE  InSlots(r, n - 1, k) = InSlots(q, n, k) - Part(ReadSlot(q), 1 .. k)
<1> DEFINE A == At(1 .. n, Items(q, n, MAX), 1 .. k)
           R == A \ {1}
           C == At(1 .. n - 1, Items(r, n - 1, MAX), 1 .. k)
           F == [j \in R |-> j - 1]
<1>1. /\ n > 0 /\ Items(q, n, MAX)[1] = ReadSlot(q)
      /\ \A j \in 1 .. n - 1 : Items(r, n - 1, MAX)[j] = Items(q, n, MAX)[j + 1]
    BY DEF Shrunk
<1>2. A \subseteq 1 .. n /\ (1 \in A <=> ReadSlot(q) \in 1 .. k)
    BY <1>1 DEF At
<1>3. IsFiniteSet(A) /\ IsFiniteSet(R)
    BY <1>2, FS_Interval, FS_Subset
<1>4. ExistsBijection(R, C)
  <2>1. \A j \in R : j - 1 \in C
      BY <1>1 DEF At
  <2>2. \A j \in C : j + 1 \in R
      BY <1>1 DEF At
  <2>3. R \subseteq Int /\ C \subseteq Int
      BY DEF At
  <2> HIDE DEF R, C
  <2>4. F \in [R -> C] /\ \A j, l \in R : F[j] = F[l] => j = l
      BY <2>1, <2>3
  <2>5. \A j \in C : \E l \in R : F[l] = j
    <3> TAKE j \in C
    <3>1. j + 1 \in R /\ F[j + 1] = j
        BY <2>2, <2>3
    <3>2. QED
        BY <3>1
  <2> HIDE DEF F
  <2>6. F \in Bijection(R, C)
      BY <2>4, <2>5, Fun_IsBij
  <2>7. QED
      BY <2>6 DEF ExistsBijection
<1> HIDE DEF C
<1>5. Cardinality(C) = Cardinality(R)
    BY <1>3, <1>4, FS_Bijection
<1>6. /\ Cardinality(A) \in Nat
      /\ Cardinality(R) = IF 1 \in A THEN Cardinality(A) - 1 ELSE Cardinality(A)
    BY <1>3, FS_RemoveElement, FS_CardinalityType
<1> HIDE DEF A, R
<1>7. Cardinality(C) = Cardinality(A) - Part(ReadSlot(q), 1 .. k)
    BY <1>2, <1>5, <1>6 DEF Part
<1>8. QED
    BY <1>7 DEF InSlots, Many, A, C

LEMMA NumbersAre ==
    ASSUME LegacyType, Crewed(b, Nat, LThreads, pc, LCrew), NEW k \in LValues
    PROVE  /\ InHand(k) \in Nat /\ InSlots(b, LKept, k) \in Nat /\ Paper(printed, k) \in Int
           /\ Looking \in Nat /\ LKept \in Nat /\ k \in Nat
<1>1. LKept \in Nat /\ k \in Nat
    BY LThreadsFinite, KeptNumber DEF LKept, LValues
<1>2. InHand(k) \in Nat /\ Looking \in Nat
  <2>1. \A f, H : IsFiniteSet(At(LThreads, f, H))
      BY LThreadsFinite, FS_Subset DEF At
  <2>2. QED
      BY <2>1, FS_CardinalityType DEF InHand, Looking, Many
<1>3. InSlots(b, LKept, k) \in Nat
  <2>1. IsFiniteSet(1 .. LKept)
      BY <1>1, FS_Interval
  <2>2. IsFiniteSet(At(1 .. LKept, Items(b, LKept, MAX), 1 .. k))
      BY <2>1, FS_Subset DEF At
  <2>3. QED
      BY <2>2, FS_CardinalityType DEF InSlots, Many
<1>4. Paper(printed, k) \in Int
  <2>1. IsFiniteSet(1 .. k)
      BY <1>1, FS_Interval
  <2>2. [v \in 1 .. k |-> printed[v]] \in [1 .. k -> Int]
      BY <1>1, LThreadsFinite DEF LegacyType, LValues
  <2>3. QED
      BY <2>1, <2>2, TotalInt DEF Paper
<1>5. QED
    BY <1>1, <1>2, <1>3, <1>4

LEMMA LegacyInit == Legacy!Init => LegacyInv
<1> SUFFICES ASSUME Legacy!Init PROVE LegacyInv
    OBVIOUS
<1> USE LThreadsFinite, SlotsPositive
<1>1. /\ b = NewQueue(MAX, 0) /\ c = 0
      /\ pc = [t \in LThreads |-> IF t \in 1 .. PRODUCERS THEN "increment" ELSE "wait_full"]
      /\ temp = [t \in LThreads |-> 0] /\ i = [p \in 1 .. PRODUCERS |-> 0]
      /\ printed = [v \in LValues |-> 0]
    BY LegacyRing DEF Legacy!Init
<1>2. LegacyType
    BY <1>1 DEF LegacyType, Producing, Consuming, LThreads
<1>3. \A t \in LThreads : Role(LCrew, pc[t], 0, 0, 0, 0, 0)
    BY <1>1 DEF Role, LCrew, Part
<1>4. Crewed(b, Nat, LThreads, pc, LCrew) /\ LKept = 0
    BY <1>1, <1>3, CrewStarts DEF LKept
<1>5. ASSUME NEW k \in LValues
      PROVE  InHand(k) = 0 /\ InSlots(b, LKept, k) = 0 /\ Paper(printed, k) = 0
  <2>1. At(LThreads, temp, 1 .. k) = {} /\ At(1 .. LKept, Items(b, LKept, MAX), 1 .. k) = {}
      BY <1>1, <1>4 DEF At
  <2>2. IsFiniteSet(1 .. k)
      BY FS_Interval DEF LValues
  <2>3. /\ [v \in 1 .. k |-> printed[v]] \in [1 .. k -> Int]
        /\ \A v \in 1 .. k : [w \in 1 .. k |-> printed[w]][v] = 0
      BY <1>1 DEF LValues
  <2>4. Paper(printed, k) = 0
      BY <2>2, <2>3, TotalZero DEF Paper
  <2>5. QED
      BY <2>1, <2>4, FS_EmptySet DEF InHand, InSlots, Many
<1>6. Looking = 0
  <2>1. At(LThreads, pc, {"get"}) = {}
      BY <1>1 DEF At
  <2>2. QED
      BY <2>1, FS_EmptySet DEF Looking, Many
<1>7. NumbersRight
    BY <1>1, <1>5, <1>6 DEF NumbersRight, NumbersUpTo, LValues
<1>8. QED
    BY <1>2, <1>4, <1>7 DEF LegacyInv

(* A statement that is not one of the two critical sections moves no item.  *)
LEMMA LegacyMoves ==
    ASSUME LegacyInv, NEW x \in LThreads, NEW there, pc' = [pc EXCEPT ![x] = there],
           Moves(LCrew, pc[x], there, b, b')
    PROVE  /\ Crewed(b', Nat, LThreads, pc', LCrew) /\ LKept' = LKept
           /\ \A k : InSlots(b', LKept', k) = InSlots(b, LKept, k)
           /\ Looking' = Looking + Part(there, {"get"}) - Part(pc[x], {"get"})
<1>1. Stay(LThreads, pc, pc', x) /\ pc'[x] = there
    BY DEF LegacyInv, LegacyType, Stay
<1>2. /\ Crewed(b', Nat, LThreads, pc', LCrew)
      /\ Kept(b', LThreads, pc', LCrew) = Kept(b, LThreads, pc, LCrew)
      /\ \A n : Items(b', n, MAX) = Items(b, n, MAX)
  <2>1. /\ Crewed(b, Nat, LThreads, pc, LCrew)
        /\ Moves(LCrew, pc[x], pc'[x], b, b')
      BY <1>1 DEF LegacyInv
  <2>2. IsFiniteSet(LThreads) /\ MAX \in Nat \ {0}
      BY LThreadsFinite, SlotsPositive
  <2>3. x \in LThreads /\ Stay(LThreads, pc, pc', x)
      BY <1>1
  <2>4. QED
      BY ONLY <2>1, <2>2, <2>3, CrewMoves
<1>3. LKept' = LKept
    BY <1>2 DEF LKept
<1>4. \A k : InSlots(b', LKept', k) = InSlots(b, LKept, k)
    BY <1>2, <1>3 DEF InSlots
<1>5. Looking' = Looking + Part(there, {"get"}) - Part(pc[x], {"get"})
  <2>1. IsFiniteSet(LThreads) /\ x \in LThreads /\ Stay(LThreads, pc, pc', x)
      BY <1>1, LThreadsFinite
  <2>2. Many(LThreads, pc', {"get"}) =
            Many(LThreads, pc, {"get"}) + Part(pc'[x], {"get"}) - Part(pc[x], {"get"})
      BY ONLY <2>1, PartMoves
  <2>3. QED
      BY <1>1, <2>2 DEF Looking
<1>6. QED
    BY <1>2, <1>3, <1>4, <1>5

(* Nor does it do anything to the numbers. *)
LEMMA LegacyQuiet ==
    ASSUME LegacyInv, NEW x \in LThreads, NEW there, pc' = [pc EXCEPT ![x] = there],
           Moves(LCrew, pc[x], there, b, b'), there # "get", pc[x] # "get",
           c' = c, temp' = temp, printed' = printed, i' \in [1 .. PRODUCERS -> Nat],
           x \in 1 .. PRODUCERS => there \in Producing,
           x \notin 1 .. PRODUCERS => there \in Consuming
    PROVE  LegacyInv'
<1>1. /\ Crewed(b', Nat, LThreads, pc', LCrew) /\ LKept' = LKept
      /\ \A k : InSlots(b', LKept', k) = InSlots(b, LKept, k)
      /\ Looking' = Looking + Part(there, {"get"}) - Part(pc[x], {"get"})
    BY LegacyMoves
<1>2. LegacyType'
  <2>1. LegacyType /\ \A y \in LThreads : pc'[y] = IF y = x THEN there ELSE pc[y]
      BY DEF LegacyInv, LegacyType
  <2>2. \A y : /\ y \in 1 .. PRODUCERS => y \in LThreads
               /\ y \in PRODUCERS + 1 .. PRODUCERS + CONSUMERS =>
                     y \in LThreads /\ y \notin 1 .. PRODUCERS
      BY LThreadsFinite DEF LThreads
  <2>3. QED
      BY <2>1, <2>2 DEF LegacyType
<1>3. \A k \in LValues : NumbersUpTo(k)' = NumbersUpTo(k) /\ Looking \in Nat
    BY <1>1, NumbersAre DEF LegacyInv, NumbersUpTo, InHand, Paper
<1>4. \A k \in LValues : Looking' = Looking
    BY <1>1, <1>3 DEF Part
<1>5. NumbersRight'
    BY <1>3, <1>4 DEF LegacyInv, NumbersRight
<1>6. QED
    BY <1>1, <1>2, <1>5 DEF LegacyInv

(* A thread's temp is overwritten. *)
LEMMA InHandMoves ==
    ASSUME LegacyType, NEW x \in LThreads, NEW o, temp' = [temp EXCEPT ![x] = o], NEW k
    PROVE  /\ InHand(k)' = InHand(k) + Part(o, 1 .. k) - Part(temp[x], 1 .. k)
           /\ Part(temp[x], 1 .. k) \in {0, 1} /\ Part(o, 1 .. k) \in {0, 1}
<1>1. Stay(LThreads, temp, temp', x) /\ temp'[x] = o
    BY DEF LegacyType, Stay
<1>2. IsFiniteSet(LThreads) /\ x \in LThreads
    BY LThreadsFinite
<1>3. Many(LThreads, temp', 1 .. k) =
          Many(LThreads, temp, 1 .. k) + Part(temp'[x], 1 .. k) - Part(temp[x], 1 .. k)
  <2>1. Stay(LThreads, temp, temp', x)
      BY <1>1
  <2>2. QED
      BY ONLY <1>2, <2>1, PartMoves
<1>4. QED
    BY <1>1, <1>3 DEF InHand, Part

(* Three things may happen to the numbers up to k and to those who look.    *)
LEMMA NumbersKept ==
    ASSUME LegacyType, Crewed(b, Nat, LThreads, pc, LCrew), NumbersRight, c' = c,
           \A k \in LValues : /\ NumbersUpTo(k)' \in Int
                              /\ NumbersUpTo(k)' <= NumbersUpTo(k),
           Looking' = Looking
    PROVE  NumbersRight'
<1>1. \A k \in LValues : NumbersUpTo(k) \in Int /\ Looking \in Nat /\ k \in Nat /\ c \in Nat
    BY NumbersAre DEF NumbersUpTo, LegacyType
<1>2. QED
    BY <1>1 DEF NumbersRight

LEMMA LegacyPut ==
    ASSUME LegacyInv, NEW x \in 1 .. PRODUCERS, pc[x] = "insert",
           pc' = [pc EXCEPT ![x] = "post_full"], b' = PutItem(b, temp[x], MAX),
           temp' = [temp EXCEPT ![x] = 0], c' = c, printed' = printed, i' = i
    PROVE  LegacyInv'
<1>1. LegacyType /\ Crewed(b, Nat, LThreads, pc, LCrew) /\ NumbersRight
    BY DEF LegacyInv
<1>2. x \in LThreads /\ IsFiniteSet(LThreads) /\ MAX \in Nat \ {0}
    BY LThreadsFinite, SlotsPositive DEF LThreads
<1>3. PICK o : o = temp[x]
    OBVIOUS
<1>4. /\ pc'[x] = "post_full" /\ \A y \in LThreads : y # x => pc'[y] = pc[y]
      /\ o \in Nat
    BY <1>1, <1>2, <1>3 DEF LegacyType
<1>5. LegacyType'
  <2>1. \A y : /\ y \in 1 .. PRODUCERS => y \in LThreads
               /\ y \in PRODUCERS + 1 .. PRODUCERS + CONSUMERS =>
                     y \in LThreads /\ y \notin 1 .. PRODUCERS
      BY LThreadsFinite DEF LThreads
  <2>2. QED
      BY <1>1, <1>2, <1>4, <2>1 DEF LegacyType, Producing
<1>6. /\ Crewed(b', Nat, LThreads, pc', LCrew)
      /\ LKept' = LKept + 1 /\ Grown(b, b', LKept, o) /\ LKept \in Nat
  <2>1. Stay(LThreads, pc, pc', x) /\ x \in LThreads
      BY <1>2, <1>4 DEF Stay
  <2>2. Role(LCrew, pc[x], 1, 0, 0, 0, 1) /\ Role(LCrew, pc'[x], 0, 1, 0, 0, 0)
      BY <1>4 DEF Role, LCrew, Part
  <2>3. /\ MAX \in Nat \ {0} /\ IsFiniteSet(LThreads) /\ o \in Nat
        /\ Crewed(b, Nat, LThreads, pc, LCrew) /\ b' = PutItem(b, o, MAX)
      BY <1>1, <1>2, <1>3, <1>4
  <2>4. KeptIs(LKept, b, LThreads, pc, LCrew)
      BY DEF LKept, KeptIs
  <2>5. LKept \in Nat
      BY <2>3, KeptNumber DEF LKept
  <2>6. /\ Crewed(b', Nat, LThreads, pc', LCrew)
        /\ KeptIs(LKept + 1, b', LThreads, pc', LCrew)
        /\ Grown(b, b', LKept, o)
      BY ONLY <2>1, <2>2, <2>3, <2>4, <2>5, CrewPuts
  <2>7. QED
      BY <2>5, <2>6 DEF KeptIs, LKept
<1>7. Looking' = Looking
  <2>1. Stay(LThreads, pc, pc', x)
      BY <1>4 DEF Stay
  <2>2. Many(LThreads, pc', {"get"}) =
            Many(LThreads, pc, {"get"}) + Part(pc'[x], {"get"}) - Part(pc[x], {"get"})
        /\ Many(LThreads, pc, {"get"}) \in Nat
      BY ONLY <1>2, <2>1, PartMoves
  <2>3. QED
      BY <1>4, <2>2 DEF Looking, Part
<1>8. ASSUME NEW k \in LValues
      PROVE  NumbersUpTo(k)' \in Int /\ NumbersUpTo(k)' <= NumbersUpTo(k)
  <2>1. /\ InHand(k) \in Nat /\ InSlots(b, LKept, k) \in Nat /\ Paper(printed, k) \in Int
        /\ k \in Nat
      BY <1>1, NumbersAre
  <2>2. /\ InHand(k)' = InHand(k) + Part(0, 1 .. k) - Part(o, 1 .. k)
        /\ Part(o, 1 .. k) \in {0, 1}
      BY <1>1, <1>2, <1>3, InHandMoves
  <2>3. Part(0, 1 .. k) = 0
      BY DEF Part
  <2>4. InSlots(b', LKept + 1, k) = InSlots(b, LKept, k) + Part(o, 1 .. k)
    <3>1. LKept \in Nat /\ k \in Nat /\ Grown(b, b', LKept, o)
        BY <1>6, <2>1
    <3>2. QED
        BY ONLY <3>1, GrownCount
  <2>5. Paper(printed, k)' = Paper(printed, k)
      BY DEF Paper
  <2>6. NumbersUpTo(k)' = InHand(k)' + InSlots(b', LKept + 1, k) + Paper(printed, k)
      BY <1>6, <2>5 DEF NumbersUpTo
  <2>7. QED
      BY <2>1, <2>2, <2>3, <2>4, <2>6 DEF NumbersUpTo
<1>9. NumbersRight'
    BY <1>1, <1>7, <1>8, NumbersKept
<1>10. QED
    BY <1>5, <1>6, <1>9 DEF LegacyInv

LEMMA LegacyTake ==
    ASSUME LegacyInv, NEW x \in PRODUCERS + 1 .. PRODUCERS + CONSUMERS, pc[x] = "take",
           pc' = [pc EXCEPT ![x] = "post_empty"], b' = TakeItem(b, MAX),
           temp' = [temp EXCEPT ![x] = ReadSlot(b)], c' = c, printed' = printed, i' = i
    PROVE  LegacyInv'
<1>1. LegacyType /\ Crewed(b, Nat, LThreads, pc, LCrew) /\ NumbersRight
    BY DEF LegacyInv
<1>2. x \in LThreads /\ IsFiniteSet(LThreads) /\ MAX \in Nat \ {0} /\ x \notin 1 .. PRODUCERS
    BY LThreadsFinite, SlotsPositive DEF LThreads
<1>3. PICK o : o = ReadSlot(b)
    OBVIOUS
<1>4. pc'[x] = "post_empty" /\ \A y \in LThreads : y # x => pc'[y] = pc[y]
    BY <1>1, <1>2 DEF LegacyType
<1>5. /\ Crewed(b', Nat, LThreads, pc', LCrew)
      /\ LKept' = LKept - 1 /\ Shrunk(b, b', LKept) /\ LKept \in Nat /\ o \in Nat
  <2>1. Stay(LThreads, pc, pc', x) /\ x \in LThreads
      BY <1>2, <1>4 DEF Stay
  <2>2. Role(LCrew, pc[x], 0, 0, 1, 0, 1) /\ Role(LCrew, pc'[x], 0, 0, 0, 1, 0)
      BY <1>4 DEF Role, LCrew, Part
  <2>3. /\ MAX \in Nat \ {0} /\ IsFiniteSet(LThreads)
        /\ Crewed(b, Nat, LThreads, pc, LCrew) /\ b' = TakeItem(b, MAX)
      BY <1>1, <1>2
  <2>4. KeptIs(LKept, b, LThreads, pc, LCrew)
      BY DEF LKept, KeptIs
  <2>5. LKept \in Nat
      BY <2>3, KeptNumber DEF LKept
  <2>6. /\ Crewed(b', Nat, LThreads, pc', LCrew)
        /\ KeptIs(LKept - 1, b', LThreads, pc', LCrew)
        /\ Shrunk(b, b', LKept) /\ ReadSlot(b) \in Nat
      BY ONLY <2>1, <2>2, <2>3, <2>4, <2>5, CrewTakes
  <2>7. QED
      BY <1>3, <2>5, <2>6 DEF KeptIs, LKept
<1>6. LegacyType'
  <2>1. \A y : /\ y \in 1 .. PRODUCERS => y \in LThreads
               /\ y \in PRODUCERS + 1 .. PRODUCERS + CONSUMERS => y \in LThreads
      BY LThreadsFinite DEF LThreads
  <2>2. QED
      BY <1>1, <1>2, <1>3, <1>4, <1>5, <2>1 DEF LegacyType, Consuming
<1>7. Looking' = Looking
  <2>1. Stay(LThreads, pc, pc', x)
      BY <1>4 DEF Stay
  <2>2. Many(LThreads, pc', {"get"}) =
            Many(LThreads, pc, {"get"}) + Part(pc'[x], {"get"}) - Part(pc[x], {"get"})
        /\ Many(LThreads, pc, {"get"}) \in Nat
      BY ONLY <1>2, <2>1, PartMoves
  <2>3. QED
      BY <1>4, <2>2 DEF Looking, Part
<1>8. ASSUME NEW k \in LValues
      PROVE  NumbersUpTo(k)' \in Int /\ NumbersUpTo(k)' <= NumbersUpTo(k)
  <2>1. /\ InHand(k) \in Nat /\ InSlots(b, LKept, k) \in Nat /\ Paper(printed, k) \in Int
        /\ k \in Nat
      BY <1>1, NumbersAre
  <2>2. /\ InHand(k)' = InHand(k) + Part(o, 1 .. k) - Part(temp[x], 1 .. k)
        /\ Part(temp[x], 1 .. k) \in {0, 1} /\ Part(o, 1 .. k) \in {0, 1}
    <3>1. temp' = [temp EXCEPT ![x] = o]
        BY <1>3
    <3>2. QED
        BY ONLY <1>1, <1>2, <3>1, InHandMoves
  <2>3. InSlots(b', LKept - 1, k) = InSlots(b, LKept, k) - Part(o, 1 .. k)
    <3>1. LKept \in Nat /\ k \in Nat /\ Shrunk(b, b', LKept)
        BY <1>5, <2>1
    <3>2. QED
        BY ONLY <1>3, <3>1, ShrunkCount
  <2>4. Paper(printed, k)' = Paper(printed, k)
      BY DEF Paper
  <2>5. NumbersUpTo(k)' = InHand(k)' + InSlots(b', LKept - 1, k) + Paper(printed, k)
      BY <1>5, <2>4 DEF NumbersUpTo
  <2>6. QED
      BY <2>1, <2>2, <2>3, <2>5 DEF NumbersUpTo
<1>9. NumbersRight'
    BY <1>1, <1>7, <1>8, NumbersKept
<1>10. QED
    BY <1>5, <1>6, <1>9 DEF LegacyInv

(* The producer has counted: one more number may come. *)
LEMMA LegacyCounts ==
    ASSUME LegacyInv, NEW x \in 1 .. PRODUCERS, pc[x] = "increment",
           pc' = [pc EXCEPT ![x] = "get"], c' = c + 1,
           b' = b, temp' = temp, printed' = printed, i' = i
    PROVE  LegacyInv'
<1>1. LegacyType /\ Crewed(b, Nat, LThreads, pc, LCrew) /\ NumbersRight
    BY DEF LegacyInv
<1>2. x \in LThreads
    BY LThreadsFinite DEF LThreads
<1>3. /\ Crewed(b', Nat, LThreads, pc', LCrew) /\ LKept' = LKept
      /\ \A k : InSlots(b', LKept', k) = InSlots(b, LKept, k)
      /\ Looking' = Looking + Part("get", {"get"}) - Part(pc[x], {"get"})
  <2>1. Moves(LCrew, pc[x], "get", b, b')
      BY DEF Moves, Role, LCrew, Part
  <2>2. QED
      BY <1>2, <2>1, LegacyMoves
<1>4. LegacyType'
  <2>1. /\ \A y \in LThreads : pc'[y] = IF y = x THEN "get" ELSE pc[y]
        /\ DOMAIN pc' = LThreads
      BY <1>1, <1>2 DEF LegacyType
  <2>2. \A y : /\ y \in 1 .. PRODUCERS => y \in LThreads
               /\ y \in PRODUCERS + 1 .. PRODUCERS + CONSUMERS =>
                     y \in LThreads /\ y \notin 1 .. PRODUCERS
      BY LThreadsFinite DEF LThreads
  <2>3. QED
      BY <1>1, <1>2, <2>1, <2>2 DEF LegacyType, Producing
<1>5. \A k \in LValues : NumbersUpTo(k)' = NumbersUpTo(k)
    BY <1>3 DEF NumbersUpTo, InHand, Paper
<1>6. \A k \in LValues : /\ NumbersUpTo(k) \in Int /\ Looking \in Nat /\ k \in Nat
                         /\ Looking' = Looking + 1
    BY <1>1, <1>3, NumbersAre DEF NumbersUpTo, Part
<1>7. ASSUME NEW k \in LValues
      PROVE  /\ k < c' => NumbersUpTo(k)' <= k
             /\ c' <= k => NumbersUpTo(k)' + Looking' <= c'
  <2>1. /\ k < c => NumbersUpTo(k) <= k
        /\ c <= k => NumbersUpTo(k) + Looking <= c
      BY <1>1 DEF NumbersRight
  <2>2. c \in Nat
      BY <1>1 DEF LegacyType
  <2>3. QED
      BY <1>5, <1>6, <2>1, <2>2
<1>8. QED
    BY <1>3, <1>4, <1>7 DEF LegacyInv, NumbersRight

(* The producer looks: it sees the number that the counter has now. *)
LEMMA LegacyLooks ==
    ASSUME LegacyInv, NEW x \in 1 .. PRODUCERS, pc[x] = "get",
           pc' = [pc EXCEPT ![x] = "wait_empty"], temp' = [temp EXCEPT ![x] = c],
           b' = b, c' = c, printed' = printed, i' = i
    PROVE  LegacyInv'
<1>1. LegacyType /\ Crewed(b, Nat, LThreads, pc, LCrew) /\ NumbersRight /\ c \in Nat
    BY DEF LegacyInv, LegacyType
<1>2. x \in LThreads
    BY LThreadsFinite DEF LThreads
<1>3. /\ Crewed(b', Nat, LThreads, pc', LCrew) /\ LKept' = LKept
      /\ \A k : InSlots(b', LKept', k) = InSlots(b, LKept, k)
      /\ Looking' = Looking + Part("wait_empty", {"get"}) - Part(pc[x], {"get"})
  <2>1. Moves(LCrew, pc[x], "wait_empty", b, b')
      BY DEF Moves, Role, LCrew, Part
  <2>2. QED
      BY <1>2, <2>1, LegacyMoves
<1>4. LegacyType'
  <2>1. /\ \A y \in LThreads : pc'[y] = IF y = x THEN "wait_empty" ELSE pc[y]
        /\ DOMAIN pc' = LThreads
      BY <1>1, <1>2 DEF LegacyType
  <2>2. \A y : /\ y \in 1 .. PRODUCERS => y \in LThreads
               /\ y \in PRODUCERS + 1 .. PRODUCERS + CONSUMERS =>
                     y \in LThreads /\ y \notin 1 .. PRODUCERS
      BY LThreadsFinite DEF LThreads
  <2>3. QED
      BY <1>1, <1>2, <2>1, <2>2 DEF LegacyType, Producing
<1>5. ASSUME NEW k \in LValues
      PROVE  /\ k < c => NumbersUpTo(k)' <= k
             /\ c <= k => NumbersUpTo(k)' + Looking' <= c
  <2>1. /\ k < c => NumbersUpTo(k) <= k
        /\ c <= k => NumbersUpTo(k) + Looking <= c
      BY <1>1 DEF NumbersRight
  <2>2. /\ InHand(k)' = InHand(k) + Part(c, 1 .. k) - Part(temp[x], 1 .. k)
        /\ Part(temp[x], 1 .. k) \in {0, 1} /\ Part(c, 1 .. k) \in {0, 1}
      BY <1>1, <1>2, InHandMoves
  <2>3. k < c => Part(c, 1 .. k) = 0
      BY <1>1 DEF Part, LValues
  <2>4. /\ InHand(k) \in Nat /\ InSlots(b, LKept, k) \in Nat /\ Paper(printed, k) \in Int
        /\ Looking \in Nat /\ k \in Nat
      BY <1>1, NumbersAre
  <2>5. Looking' = Looking - 1
      BY <1>3, <2>4 DEF Part
  <2>6. NumbersUpTo(k)' = InHand(k)' + InSlots(b, LKept, k) + Paper(printed, k)
      BY <1>3 DEF NumbersUpTo, Paper
  <2>7. NumbersUpTo(k) = InHand(k) + InSlots(b, LKept, k) + Paper(printed, k)
      BY DEF NumbersUpTo
  <2>8. /\ NumbersUpTo(k) \in Int /\ NumbersUpTo(k)' \in Int
        /\ NumbersUpTo(k)' <= NumbersUpTo(k) + Part(c, 1 .. k)
      BY <2>2, <2>4, <2>6, <2>7
  <2>9. k < c => NumbersUpTo(k)' <= k
      BY <1>1, <2>1, <2>3, <2>4, <2>8
  <2>10. c <= k => NumbersUpTo(k)' + Looking' <= c
    <3>1. NumbersUpTo(k)' <= NumbersUpTo(k) + 1
        BY <2>2, <2>8
    <3>2. QED
        BY <1>1, <2>1, <2>4, <2>5, <2>8, <3>1
  <2>11. QED
      BY <2>9, <2>10
<1>6. NumbersRight'
    BY <1>5 DEF NumbersRight
<1>7. QED
    BY <1>3, <1>4, <1>6 DEF LegacyInv

(* What is printed counts once on the paper, if it is a number at all. *)
LEMMA PaperPrints ==
    ASSUME NEW f \in [LValues -> Int], NEW v, NEW k \in LValues
    PROVE  Paper([f EXCEPT ![v] = f[v] + 1], k) = Paper(f, k) + Part(v, 1 .. k)
<1> DEFINE g == [f EXCEPT ![v] = f[v] + 1]
           F == [w \in 1 .. k |-> f[w]]
           G == [w \in 1 .. k |-> g[w]]
<1>1. k \in Nat /\ 1 .. k \subseteq LValues /\ IsFiniteSet(1 .. k)
  <2>1. k \in Nat /\ 1 .. k \subseteq LValues
      BY LThreadsFinite DEF LValues
  <2>2. QED
      BY <2>1, FS_Interval
<1>2. F \in [1 .. k -> Int] /\ G \in [1 .. k -> Int]
  <2>1. \A w \in LValues : f[w] \in Int /\ g[w] \in Int
      OBVIOUS
  <2> HIDE DEF g
  <2>2. QED
      BY <1>1, <2>1
<1>3. \A w \in 1 .. k : F[w] = f[w] /\ G[w] = IF w = v THEN f[w] + 1 ELSE f[w]
    BY <1>1
<1>4. Paper(f, k) = Total(F) /\ Paper(g, k) = Total(G)
    BY DEF Paper
<1>5. CASE v \in 1 .. k
  <2>1. \A w \in 1 .. k \ {v} : G[w] = F[w]
      BY <1>3
  <2>2. G[v] = F[v] + 1 /\ F[v] \in Int
      BY <1>2, <1>3, <1>5
  <2> HIDE DEF F, G, g
  <2>3. Total(G) = Total(F) + G[v] - F[v]
      BY <1>1, <1>2, <1>5, <2>1, TotalChange
  <2>4. Total(F) \in Int
      BY <1>1, <1>2, TotalInt
  <2>5. QED
      BY <1>4, <1>5, <2>2, <2>3, <2>4 DEF Part, g
<1>6. CASE v \notin 1 .. k
  <2>1. G = F
      BY <1>2, <1>3, <1>6
  <2>2. Total(F) \in Int
    <3> HIDE DEF F
    <3> QED
        BY <1>1, <1>2, TotalInt
  <2>3. Part(v, 1 .. k) = 0
      BY <1>6 DEF Part
  <2> HIDE DEF F, G, g
  <2>4. QED
      BY <1>4, <2>1, <2>2, <2>3 DEF g
<1>7. QED
    BY <1>5, <1>6

LEMMA LegacyPrints ==
    ASSUME LegacyInv, NEW x \in PRODUCERS + 1 .. PRODUCERS + CONSUMERS, pc[x] = "print",
           pc' = [pc EXCEPT ![x] = "wait_full"], temp' = [temp EXCEPT ![x] = 0],
           printed' = [printed EXCEPT ![temp[x]] = printed[temp[x]] + 1],
           b' = b, c' = c, i' = i
    PROVE  LegacyInv'
<1>1. LegacyType /\ Crewed(b, Nat, LThreads, pc, LCrew) /\ NumbersRight
    BY DEF LegacyInv
<1>2. x \in LThreads /\ x \notin 1 .. PRODUCERS
    BY LThreadsFinite DEF LThreads
<1>3. PICK o : o = temp[x]
    OBVIOUS
<1>4. /\ Crewed(b', Nat, LThreads, pc', LCrew) /\ LKept' = LKept
      /\ \A k : InSlots(b', LKept', k) = InSlots(b, LKept, k)
      /\ Looking' = Looking + Part("wait_full", {"get"}) - Part(pc[x], {"get"})
  <2>1. Moves(LCrew, pc[x], "wait_full", b, b')
      BY DEF Moves, Role, LCrew, Part
  <2>2. QED
      BY <1>2, <2>1, LegacyMoves
<1>5. LegacyType'
  <2>1. /\ \A y \in LThreads : pc'[y] = IF y = x THEN "wait_full" ELSE pc[y]
        /\ DOMAIN pc' = LThreads
      BY <1>1, <1>2 DEF LegacyType
  <2>2. \A y : /\ y \in 1 .. PRODUCERS => y \in LThreads
               /\ y \in PRODUCERS + 1 .. PRODUCERS + CONSUMERS =>
                     y \in LThreads /\ y \notin 1 .. PRODUCERS
      BY LThreadsFinite DEF LThreads
  <2>3. printed' \in [LValues -> Int]
    <3>1. PICK f \in [LValues -> Int] : f = printed
        BY <1>1 DEF LegacyType
    <3>2. \A w \in LValues : f[w] + 1 \in Int
        OBVIOUS
    <3>3. [f EXCEPT ![o] = f[o] + 1] \in [LValues -> Int]
        BY <3>2
    <3>4. QED
        BY <1>3, <3>1, <3>3
  <2>4. temp' \in [LThreads -> Nat]
      BY <1>1 DEF LegacyType
  <2>5. QED
      BY <1>1, <1>2, <2>1, <2>2, <2>3, <2>4 DEF LegacyType, Consuming
<1>6. ASSUME NEW k \in LValues
      PROVE  NumbersUpTo(k)' \in Int /\ NumbersUpTo(k)' <= NumbersUpTo(k)
  <2>1. /\ InHand(k) \in Nat /\ InSlots(b, LKept, k) \in Nat /\ Paper(printed, k) \in Int
        /\ k \in Nat
      BY <1>1, NumbersAre
  <2>2. /\ InHand(k)' = InHand(k) + Part(0, 1 .. k) - Part(o, 1 .. k)
        /\ Part(o, 1 .. k) \in {0, 1}
      BY <1>1, <1>2, <1>3, InHandMoves
  <2>3. Part(0, 1 .. k) = 0
      BY DEF Part
  <2>4. Paper(printed', k) = Paper(printed, k) + Part(o, 1 .. k)
    <3>1. printed \in [LValues -> Int] /\ printed' = [printed EXCEPT ![o] = printed[o] + 1]
        BY <1>1, <1>3 DEF LegacyType
    <3>2. PICK f \in [LValues -> Int] : f = printed
        BY <3>1
    <3>3. Paper([f EXCEPT ![o] = f[o] + 1], k) = Paper(f, k) + Part(o, 1 .. k)
        BY PaperPrints
    <3>4. QED
        BY <3>1, <3>2, <3>3
  <2>5. NumbersUpTo(k)' = InHand(k)' + InSlots(b, LKept, k) + Paper(printed', k)
      BY <1>4 DEF NumbersUpTo
  <2>6. QED
      BY <2>1, <2>2, <2>3, <2>4, <2>5 DEF NumbersUpTo
<1>7. NumbersRight'
  <2>1. ASSUME NEW k \in LValues PROVE Looking' = Looking
    <3>1. Looking \in Nat
        BY <1>1, NumbersAre
    <3>2. QED
        BY <1>4, <3>1 DEF Part
  <2>2. LValues = {} => NumbersRight'
      BY DEF NumbersRight, LValues
  <2>3. QED
      BY <1>1, <1>6, <2>1, <2>2, NumbersKept
<1>8. QED
    BY <1>4, <1>5, <1>7 DEF LegacyInv

LEMMA LegacyNext == LegacyInv /\ Legacy!Next => LegacyInv'
<1> SUFFICES ASSUME LegacyInv, Legacy!Next PROVE LegacyInv'
    OBVIOUS
<1> USE LThreadsFinite
<1>0. LegacyType
    BY DEF LegacyInv
<1>1. ASSUME NEW x \in 1 .. PRODUCERS, Legacy!IncrementCounter(x) PROVE LegacyInv'
    BY <1>1, LegacyCounts DEF Legacy!IncrementCounter, Legacy!Goto
<1>2. ASSUME NEW x \in 1 .. PRODUCERS, Legacy!GetCounter(x) PROVE LegacyInv'
    BY <1>2, LegacyLooks DEF Legacy!GetCounter, Legacy!Goto
<1>3. ASSUME NEW x \in 1 .. PRODUCERS, Legacy!WaitEmpty(x) PROVE LegacyInv'
  <2>1. /\ pc[x] = "wait_empty" /\ pc' = [pc EXCEPT ![x] = "insert_lock"]
        /\ b.empty > 0 /\ b' = ReserveSlot(b)
        /\ c' = c /\ temp' = temp /\ printed' = printed /\ i' = i
      BY <1>3, LegacyRing DEF Legacy!WaitEmpty, Legacy!Goto, Legacy!QueueUnchanged
  <2>2. Moves(LCrew, pc[x], "insert_lock", b, b')
      BY <2>1 DEF Moves, Role, LCrew, Part
  <2>3. QED
      BY <1>0, <2>1, <2>2, LegacyQuiet DEF LegacyType, Producing
<1>4. ASSUME NEW x \in 1 .. PRODUCERS, Legacy!InsertLock(x) PROVE LegacyInv'
  <2>1. /\ pc[x] = "insert_lock" /\ pc' = [pc EXCEPT ![x] = "insert"]
        /\ b.lock > 0 /\ b' = Lock(b)
        /\ c' = c /\ temp' = temp /\ printed' = printed /\ i' = i
      BY <1>4, LegacyRing DEF Legacy!InsertLock, Legacy!Goto, Legacy!QueueUnchanged
  <2>2. Moves(LCrew, pc[x], "insert", b, b')
      BY <2>1 DEF Moves, Role, LCrew, Part
  <2>3. QED
      BY <1>0, <2>1, <2>2, LegacyQuiet DEF LegacyType, Producing
<1>5. ASSUME NEW x \in 1 .. PRODUCERS, Legacy!Insert(x) PROVE LegacyInv'
    BY <1>5, LegacyRing, LegacyPut DEF Legacy!Insert, Legacy!Goto
<1>6. ASSUME NEW x \in 1 .. PRODUCERS, Legacy!Inserted(x) PROVE LegacyInv'
  <2>1. /\ pc[x] = "post_full" /\ b' = PostFull(b)
        /\ pc' = [pc EXCEPT ![x] = IF i[x] + 1 < 1 THEN "increment" ELSE "done"]
        /\ i' = [i EXCEPT ![x] = i[x] + 1]
        /\ c' = c /\ temp' = temp /\ printed' = printed
      BY <1>6, LegacyRing DEF Legacy!Inserted, Legacy!Goto
  <2>2. pc' = [pc EXCEPT ![x] = "done"] /\ i' \in [1 .. PRODUCERS -> Nat]
    <3>1. i \in [1 .. PRODUCERS -> Nat] /\ i[x] \in Nat
        BY <1>0 DEF LegacyType
    <3>2. ~ (i[x] + 1 < 1) /\ i[x] + 1 \in Nat
        BY <3>1
    <3>3. pc' = [pc EXCEPT ![x] = "done"]
        BY <2>1, <3>2
    <3>4. QED
        BY <2>1, <3>1, <3>2, <3>3
  <2>3. Moves(LCrew, pc[x], "done", b, b')
      BY <2>1 DEF Moves, Role, LCrew, Part
  <2>4. QED
      BY <2>1, <2>2, <2>3, LegacyQuiet DEF Producing
<1>7. ASSUME NEW x \in PRODUCERS + 1 .. PRODUCERS + CONSUMERS, Legacy!WaitFull(x)
      PROVE LegacyInv'
  <2>1. /\ pc[x] = "wait_full" /\ pc' = [pc EXCEPT ![x] = "get_lock"]
        /\ b.full > 0 /\ b' = ReserveItem(b)
        /\ c' = c /\ temp' = temp /\ printed' = printed /\ i' = i
      BY <1>7, LegacyRing DEF Legacy!WaitFull, Legacy!Goto, Legacy!QueueUnchanged
  <2>2. Moves(LCrew, pc[x], "get_lock", b, b')
      BY <2>1 DEF Moves, Role, LCrew, Part
  <2>3. QED
      BY <1>0, <2>1, <2>2, LegacyQuiet DEF LegacyType, Consuming
<1>8. ASSUME NEW x \in PRODUCERS + 1 .. PRODUCERS + CONSUMERS, Legacy!GetLock(x)
      PROVE LegacyInv'
  <2>1. /\ pc[x] = "get_lock" /\ pc' = [pc EXCEPT ![x] = "take"]
        /\ b.lock > 0 /\ b' = Lock(b)
        /\ c' = c /\ temp' = temp /\ printed' = printed /\ i' = i
      BY <1>8, LegacyRing DEF Legacy!GetLock, Legacy!Goto, Legacy!QueueUnchanged
  <2>2. Moves(LCrew, pc[x], "take", b, b')
      BY <2>1 DEF Moves, Role, LCrew, Part
  <2>3. QED
      BY <1>0, <2>1, <2>2, LegacyQuiet DEF LegacyType, Consuming
<1>9. ASSUME NEW x \in PRODUCERS + 1 .. PRODUCERS + CONSUMERS, Legacy!Take(x)
      PROVE LegacyInv'
    BY <1>9, LegacyRing, LegacyTake DEF Legacy!Take, Legacy!Goto
<1>10. ASSUME NEW x \in PRODUCERS + 1 .. PRODUCERS + CONSUMERS, Legacy!Taken(x)
       PROVE LegacyInv'
  <2>1. /\ pc[x] = "post_empty" /\ pc' = [pc EXCEPT ![x] = "print"]
        /\ b' = PostEmpty(b)
        /\ c' = c /\ temp' = temp /\ printed' = printed /\ i' = i
      BY <1>10, LegacyRing DEF Legacy!Taken, Legacy!Goto, Legacy!QueueUnchanged
  <2>2. Moves(LCrew, pc[x], "print", b, b')
      BY <2>1 DEF Moves, Role, LCrew, Part
  <2>3. QED
      BY <1>0, <2>1, <2>2, LegacyQuiet DEF LegacyType, Consuming
<1>11. ASSUME NEW x \in PRODUCERS + 1 .. PRODUCERS + CONSUMERS, Legacy!PrintValue(x)
       PROVE LegacyInv'
    BY <1>11, LegacyPrints DEF Legacy!PrintValue, Legacy!Goto
<1>12. ASSUME b' = b, pc' = pc, temp' = temp, c' = c, printed' = printed, i' = i
       PROVE LegacyInv'
    BY <1>0, <1>12
    DEF LegacyInv, LegacyType, NumbersRight, NumbersUpTo, InHand, InSlots, Paper, Looking, LKept
<1>13. CASE Legacy!SetEnd \/ Legacy!Hang
    BY <1>12, <1>13 DEF Legacy!SetEnd, Legacy!Hang, Legacy!vars
<1>14. QED
    BY <1>1, <1>2, <1>3, <1>4, <1>5, <1>6, <1>7, <1>8, <1>9, <1>10, <1>11, <1>13
    DEF Legacy!Next, Legacy!Producer, Legacy!Consumer

(* UpTo counts the same numbers: the producers between the two calls are    *)
(* threads at "get", and what is stored is what Kept counts.                *)
LEMMA LegacyUpTo ==
    ASSUME LegacyInv, NEW k \in LValues
    PROVE  Legacy!UpTo(k) = NumbersUpTo(k)
<1> USE LThreadsFinite
<1>1. LegacyType
    BY DEF LegacyInv
<1>2. Legacy!Stored = Items(b, LKept, MAX)
  <2>1. /\ {p \in Legacy!Producers : pc[p] = "post_full"} = At(LThreads, pc, {"post_full"})
        /\ {l \in Legacy!Consumers : pc[l] \in {"get_lock", "take"}} =
              At(LThreads, pc, {"get_lock", "take"})
      BY <1>1 DEF At, LegacyType, Producing, Consuming
  <2>2. LKept = b.full + Many(LThreads, pc, {"post_full"})
                       + Many(LThreads, pc, {"get_lock", "take"})
      BY DEF LKept, Kept, Stock, LCrew
  <2>3. QED
      BY <2>1, <2>2, LegacyRing DEF Legacy!Stored, Many
<1>3. Cardinality({t \in DOMAIN temp : temp[t] \in 1 .. k}) = InHand(k)
    BY <1>1 DEF InHand, Many, At, LegacyType
<1>4. Cardinality({j \in DOMAIN Legacy!Stored : Legacy!Stored[j] \in 1 .. k})
          = InSlots(b, LKept, k)
  <2>1. DOMAIN Items(b, LKept, MAX) = 1 .. LKept
      BY DEF Items
  <2>2. QED
      BY <1>2, <2>1 DEF InSlots, Many, At
<1>5. Legacy!FoldFunctionOnSet(+, 0, printed, 1 .. k) = Paper(printed, k)
  <2>1. 1 .. k \in SUBSET LValues /\ IsFiniteSet(1 .. k)
    <3>1. k \in Nat /\ 1 .. k \in SUBSET LValues
        BY DEF LValues
    <3>2. QED
        BY <3>1, FS_Interval
  <2>2. \A v \in LValues : printed[v] \in Int
      BY <1>1 DEF LegacyType
  <2>3. FoldFunctionOnSet(+, 0, printed, 1 .. k) = Total([v \in 1 .. k |-> printed[v]])
      BY ONLY <2>1, <2>2, FoldOnSetIsTotal
  <2>4. QED
      BY <2>3, LegacyFold DEF Paper
<1>6. QED
    BY <1>3, <1>4, <1>5, LegacyRing DEF Legacy!UpTo, NumbersUpTo

LEMMA LegacyNumbers == LegacyInv => Legacy!NumbersNotReused
<1> SUFFICES ASSUME LegacyInv, NEW k \in LValues PROVE Legacy!UpTo(k) <= k
    BY LThreadsFinite DEF Legacy!NumbersNotReused
<1>1. /\ k < c => NumbersUpTo(k) <= k
      /\ c <= k => NumbersUpTo(k) + Looking <= c
    BY DEF LegacyInv, NumbersRight
<1>2. NumbersUpTo(k) \in Int /\ Looking \in Nat /\ k \in Nat /\ c \in Nat
    BY NumbersAre DEF LegacyInv, LegacyType, NumbersUpTo
<1>3. QED
    BY <1>1, <1>2, LegacyUpTo

-----------------------------------------------------------------------------
(* The linked queue of fifo.c and token.c.  Of the threads D of the program *)
(* those at Busy are inside push or pop; L is the list, dummy first.        *)

Tailing  == {"push_link", "push_tail", "push_unlock"}
Heading  == {"pop_read", "pop_empty", "pop_take", "pop_unlock"}
Handling == {"push_lock", "push_link", "pop_unlock", "pop_free"}
Busy     == Tailing \union Heading \union Handling

NoRepeats(L) == \A j, k \in 1 .. Len(L) : L[j] = L[k] => j = k

InList(L) == {L[k] : k \in 1 .. Len(L)}

HeapType(D) ==
    /\ node \in [Nodes -> [value : Int, next : Nodes \union {None}]]
    /\ allocated \subseteq Nodes
    /\ tmp \in [D -> Nodes \union {None}] /\ item \in [D -> Int] /\ DOMAIN pc = D
    /\ head_lock \in {0, 1} /\ tail_lock \in {0, 1}

(* The two locks, each with at most one thread behind it. *)
HeapLocked(D) ==
    /\ \A t \in D : pc[t] \in Tailing => tail_lock = 0
    /\ \A t, u \in D : pc[t] \in Tailing /\ pc[u] \in Tailing => t = u
    /\ \A t \in D : pc[t] \in Heading => head_lock = 0
    /\ \A t, u \in D : pc[t] \in Heading /\ pc[u] \in Heading => t = u

Chain(L) ==
    /\ L \in Seq(Nodes) /\ L # <<>>
    /\ NoRepeats(L)
    /\ L[1] = head
    /\ \A k \in 1 .. Len(L) : node[L[k]].next = IF k < Len(L) THEN L[k + 1] ELSE None

(* tail is the end of the list, or a push is about to make it so: until     *)
(* then it may be a node that a pop has freed.                              *)
TailRight(D, L) ==
    /\ (\A t \in D : pc[t] # "push_tail") => tail = L[Len(L)]
    /\ \A t \in D : pc[t] = "push_tail" => tmp[t] = L[Len(L)]

(* A node is in the list, in the hands of one thread, or with malloc.       *)
HandsRight(D, L) ==
    /\ InList(L) \subseteq allocated
    /\ \A t \in D : pc[t] \in Handling => tmp[t] \in allocated /\ tmp[t] \notin InList(L)
    /\ \A t, u \in D :
          pc[t] \in Handling /\ pc[u] \in Handling /\ tmp[t] = tmp[u] => t = u
    /\ \A n \in allocated : n \in InList(L) \/ \E t \in D : pc[t] \in Handling /\ tmp[t] = n
    /\ \A t \in D : pc[t] \in {"push_lock", "push_link"} =>
          node[tmp[t]].value = item[t] /\ node[tmp[t]].next = None
    /\ \A t \in D : pc[t] = "pop_take" => tmp[t] = head /\ Len(L) > 1

HeapInv(D, L) ==
    HeapType(D) /\ HeapLocked(D) /\ Chain(L) /\ TailRight(D, L) /\ HandsRight(D, L)

LEMMA NullIsNoNode == None \notin Nodes /\ IsFiniteSet(Nodes)
<1>1. IsFiniteSet(Nodes) <=> Linked!IsFiniteSet(Nodes)
    BY DEF IsFiniteSet, Linked!IsFiniteSet
<1>2. QED
    BY <1>1, DemosAssumption DEF Linked!TwoLockAssumption

(* The list has a first and a last node, both in it. *)
LEMMA ListEnds ==
    ASSUME NEW L \in Seq(Nodes), L # <<>>
    PROVE  /\ Len(L) \in Nat \ {0} /\ \A k \in 1 .. Len(L) : L[k] \in Nodes
           /\ L[1] \in InList(L) /\ L[Len(L)] \in InList(L)
<1>1. Len(L) \in Nat \ {0} /\ \A k \in 1 .. Len(L) : L[k] \in Nodes
    OBVIOUS
<1>2. QED
    BY <1>1 DEF InList

(* A step of the calling program. *)
LEMMA HeapAside ==
    ASSUME NEW D, NEW L, HeapInv(D, L), NEW x \in D, NEW there, there \notin Busy,
           pc[x] \notin Busy, pc' = [pc EXCEPT ![x] = there],
           NEW v \in Int, item' = [item EXCEPT ![x] = v],
           node' = node, allocated' = allocated, tmp' = tmp, head' = head, tail' = tail,
           head_lock' = head_lock, tail_lock' = tail_lock
    PROVE  HeapInv(D, L)'
<1> USE DEF HeapInv
<1>0. /\ \A y \in D : pc'[y] = IF y = x THEN there ELSE pc[y]
      /\ \A y \in D : y # x => item'[y] = item[y]
    BY DEF HeapType
<1>1. HeapType(D)'
    BY DEF HeapType
<1>2. HeapLocked(D)'
    BY <1>0 DEF HeapLocked, Busy
<1>3. Chain(L)'
    BY DEF Chain
<1>4. TailRight(D, L)'
    BY <1>0 DEF TailRight, Busy, Tailing
<1>5. HandsRight(D, L)'
    BY <1>0 DEF HandsRight, Busy, Handling, Heading
<1>6. QED
    BY <1>1, <1>2, <1>3, <1>4, <1>5

LEMMA HeapPushAlloc ==
    ASSUME NEW D, NEW L, HeapInv(D, L), NEW x \in D, Linked!PushAlloc(x)
    PROVE  HeapInv(D, L)'
<1> USE DEF HeapInv
<1>1. PICK n \in Nodes \ allocated :
          /\ allocated' = allocated \union {n}
          /\ node' = [node EXCEPT ![n] = [value |-> item[x], next |-> None]]
          /\ tmp' = [tmp EXCEPT ![x] = n]
    BY DEF Linked!PushAlloc, Linked!SetTmp, Linked!Fields
<1>2. /\ pc[x] = "push_alloc" /\ pc' = [pc EXCEPT ![x] = "push_lock"]
      /\ item' = item /\ head' = head /\ tail' = tail
      /\ head_lock' = head_lock /\ tail_lock' = tail_lock
    BY DEF Linked!PushAlloc, Linked!Goto, Linked!queueVars
<1>3. /\ \A y \in D : pc'[y] = IF y = x THEN "push_lock" ELSE pc[y]
      /\ \A y \in D : tmp'[y] = IF y = x THEN n ELSE tmp[y]
      /\ \A m \in Nodes : m # n => node'[m] = node[m]
      /\ node'[n] = [value |-> item[x], next |-> None]
    BY <1>1, <1>2 DEF HeapType
<1>4. n \notin InList(L) /\ \A k \in 1 .. Len(L) : L[k] \in Nodes /\ L[k] # n
    BY <1>1 DEF HandsRight, InList, HeapType
<1>5. HeapType(D)'
  <2>1. [value |-> item[x], next |-> None] \in [value : Int, next : Nodes \union {None}]
      BY DEF HeapType
  <2>2. QED
      BY <1>1, <1>2, <2>1 DEF HeapType
<1>6. HeapLocked(D)'
    BY <1>2, <1>3 DEF HeapLocked, Tailing, Heading
<1>7. Chain(L)'
    BY <1>2, <1>3, <1>4 DEF Chain
<1>8. TailRight(D, L)'
    BY <1>2, <1>3 DEF TailRight
<1>9. HandsRight(D, L)'
  <2>1. \A t \in D : pc[t] \in Handling => tmp[t] \in allocated /\ tmp[t] # n
      BY <1>1 DEF HandsRight
  <2>2. \A t \in D : pc[t] \in Handling => tmp[t] \in Nodes
      BY <2>1 DEF HeapType
  <2>3. pc[x] \notin Handling /\ pc'[x] \in Handling
      BY <1>2, <1>3 DEF Handling
  <2>4. \A t \in D : t # x => (pc'[t] \in Handling <=> pc[t] \in Handling)
      BY <1>3
  <2>5. /\ InList(L) \subseteq allocated'
        /\ \A t \in D : pc'[t] \in Handling => tmp'[t] \in allocated' /\ tmp'[t] \notin InList(L)
        /\ \A t, u \in D :
              pc'[t] \in Handling /\ pc'[u] \in Handling /\ tmp'[t] = tmp'[u] => t = u
      BY <1>1, <1>3, <1>4, <2>1, <2>3, <2>4 DEF HandsRight
  <2>6. \A m \in allocated' :
            m \in InList(L) \/ \E t \in D : pc'[t] \in Handling /\ tmp'[t] = m
      BY <1>1, <1>3, <2>3, <2>4 DEF HandsRight
  <2>7. \A t \in D : pc'[t] \in {"push_lock", "push_link"} =>
            node'[tmp'[t]].value = item'[t] /\ node'[tmp'[t]].next = None
      BY <1>2, <1>3, <2>1, <2>2 DEF HandsRight, Handling
  <2>8. \A t \in D : pc'[t] = "pop_take" => tmp'[t] = head' /\ Len(L) > 1
      BY <1>2, <1>3 DEF HandsRight
  <2>9. QED
      BY <2>5, <2>6, <2>7, <2>8 DEF HandsRight
<1>10. QED
    BY <1>5, <1>6, <1>7, <1>8, <1>9

LEMMA HeapPushLock ==
    ASSUME NEW D, NEW L, HeapInv(D, L), NEW x \in D, Linked!PushLock(x)
    PROVE  HeapInv(D, L)'
<1> USE DEF HeapInv
<1>1. /\ pc[x] = "push_lock" /\ pc' = [pc EXCEPT ![x] = "push_link"]
      /\ tail_lock > 0 /\ tail_lock' = tail_lock - 1 /\ head_lock' = head_lock
      /\ item' = item /\ tmp' = tmp /\ head' = head /\ tail' = tail
      /\ node' = node /\ allocated' = allocated
    BY DEF Linked!PushLock, Linked!Goto, Linked!heapVars
<1>2. \A y \in D : pc'[y] = IF y = x THEN "push_link" ELSE pc[y]
    BY <1>1 DEF HeapType
<1>3. tail_lock = 1 /\ tail_lock' = 0
    BY <1>1 DEF HeapType
<1>4. HeapType(D)'
    BY <1>1, <1>3 DEF HeapType
<1>5. HeapLocked(D)'
    BY <1>1, <1>2, <1>3 DEF HeapLocked, Tailing, Heading
<1>6. Chain(L)'
    BY <1>1 DEF Chain
<1>7. TailRight(D, L)'
    BY <1>1, <1>2 DEF TailRight
<1>8. HandsRight(D, L)'
    BY <1>1, <1>2 DEF HandsRight, Handling
<1>9. QED
    BY <1>4, <1>5, <1>6, <1>7, <1>8

Longer(L, M, n) ==
    /\ M \in Seq(Nodes) /\ M # <<>> /\ Len(M) = Len(L) + 1
    /\ \A k \in 1 .. Len(L) : M[k] = L[k]
    /\ M[Len(M)] = n
    /\ InList(M) = InList(L) \union {n}

Shorter(L, M) ==
    /\ M \in Seq(Nodes) /\ M # <<>> /\ Len(M) = Len(L) - 1
    /\ \A k \in 1 .. Len(M) : M[k] = L[k + 1]
    /\ InList(M) = InList(L) \ {L[1]} /\ L[1] \in InList(L)

LEMMA ListGrows ==
    ASSUME NEW L \in Seq(Nodes), L # <<>>, NEW n \in Nodes
    PROVE  Longer(L, Append(L, n), n)
<1> DEFINE M == Append(L, n)
<1>1. /\ M \in Seq(Nodes) /\ M # <<>> /\ Len(M) = Len(L) + 1 /\ Len(L) \in Nat
      /\ \A k \in 1 .. Len(L) : M[k] = L[k]
      /\ M[Len(M)] = n
    OBVIOUS
<1>2. InList(M) = InList(L) \union {n}
  <2>1. ASSUME NEW k \in 1 .. Len(M) PROVE M[k] \in InList(L) \union {n}
      BY <1>1 DEF InList
  <2>2. ASSUME NEW k \in 1 .. Len(L) PROVE L[k] \in InList(M)
    <3>1. k \in 1 .. Len(M) /\ M[k] = L[k]
        BY <1>1
    <3>2. QED
        BY <3>1 DEF InList
  <2>3. n \in InList(M)
    <3>1. Len(M) \in 1 .. Len(M)
        BY <1>1
    <3>2. QED
        BY <1>1, <3>1 DEF InList
  <2>4. InList(M) \subseteq InList(L) \union {n}
      BY <2>1 DEF InList
  <2>5. InList(L) \subseteq InList(M)
      BY <2>2 DEF InList
  <2>6. QED
      BY <2>3, <2>4, <2>5
<1> HIDE DEF M
<1>3. Longer(L, M, n)
    BY <1>1, <1>2 DEF Longer
<1>4. QED
    BY <1>3 DEF M

LEMMA ListShrinks ==
    ASSUME NEW L \in Seq(Nodes), Len(L) > 1, NoRepeats(L)
    PROVE  Shorter(L, Tail(L))
<1> DEFINE M == Tail(L)
<1> USE DEF NoRepeats
<1>1. /\ M \in Seq(Nodes) /\ M # <<>> /\ Len(M) = Len(L) - 1 /\ Len(L) \in Nat
      /\ \A k \in 1 .. Len(M) : M[k] = L[k + 1]
  <2>1. L # <<>> /\ Len(L) \in Nat
      OBVIOUS
  <2>2. M \in Seq(Nodes) /\ Len(M) = Len(L) - 1
      BY <2>1
  <2>3. M # <<>>
    <3>1. Len(<<>>) = 0 /\ Len(M) # 0
        BY <2>1, <2>2
    <3>2. QED
        BY <3>1
  <2>4. \A k \in 1 .. Len(L) - 1 : Tail(L)[k] = L[k + 1]
      BY <2>1, HeadTailProperties
  <2>5. QED
      BY <2>1, <2>2, <2>3, <2>4
<1>2. InList(M) = InList(L) \ {L[1]}
  <2>1. ASSUME NEW k \in 1 .. Len(M) PROVE M[k] \in InList(L) \ {L[1]}
    <3>1. k + 1 \in 1 .. Len(L) /\ k + 1 # 1 /\ 1 \in 1 .. Len(L)
        BY <1>1
    <3>2. QED
        BY <1>1, <3>1 DEF InList
  <2>2. ASSUME NEW k \in 1 .. Len(L), k # 1 PROVE L[k] \in InList(M)
    <3>1. k - 1 \in 1 .. Len(M) /\ M[k - 1] = L[k]
        BY <1>1, <2>2
    <3>2. QED
        BY <3>1 DEF InList
  <2>3. InList(M) \subseteq InList(L) \ {L[1]}
      BY <2>1 DEF InList
  <2>4. InList(L) \ {L[1]} \subseteq InList(M)
      BY <2>2 DEF InList
  <2>5. QED
      BY <2>3, <2>4
<1>3. L[1] \in InList(L)
    BY <1>1 DEF InList
<1> HIDE DEF M
<1>4. Shorter(L, M)
    BY <1>1, <1>2, <1>3 DEF Shorter
<1>5. QED
    BY <1>4 DEF M

(* The new node is linked behind tail, which is the end of the list because *)
(* no other push is between its two assignments.                            *)
LEMMA HeapPushLink ==
    ASSUME NEW D, NEW L, HeapInv(D, L), NEW x \in D, Linked!PushLink(x),
           NEW M, M = Append(L, tmp[x])
    PROVE  HeapInv(D, M)' /\ tail = L[Len(L)]
<1> USE DEF HeapInv
<1>1. PICK n : n = tmp[x]
    OBVIOUS
<1>2. /\ pc[x] = "push_link" /\ pc' = [pc EXCEPT ![x] = "push_tail"]
      /\ tail_lock' = tail_lock /\ head_lock' = head_lock
      /\ item' = item /\ tmp' = tmp /\ head' = head /\ tail' = tail
      /\ allocated' = allocated
      /\ node' = [node EXCEPT ![tail].next = n]
    BY <1>1 DEF Linked!PushLink, Linked!Goto, Linked!queueVars
<1>3. \A y \in D : pc'[y] = IF y = x THEN "push_tail" ELSE pc[y]
    BY <1>2 DEF HeapType
<1>4. tail = L[Len(L)]
    BY <1>2 DEF TailRight, HeapLocked, Tailing
<1>5. L \in Seq(Nodes) /\ L # <<>> /\ Len(L) \in Nat \ {0} /\ tail \in Nodes
    BY <1>4, ListEnds DEF Chain
<1>6. n \in Nodes /\ n \in allocated /\ n \notin InList(L)
    BY <1>1, <1>2 DEF HandsRight, HeapType, Handling
<1>7. /\ M \in Seq(Nodes) /\ M # <<>> /\ Len(M) = Len(L) + 1
      /\ \A k \in 1 .. Len(L) : M[k] = L[k]
      /\ M[Len(M)] = n
      /\ InList(M) = InList(L) \union {n}
  <2>1. Longer(L, Append(L, n), n)
      BY <1>5, <1>6, ListGrows
  <2>2. M = Append(L, n)
      BY <1>1
  <2>3. QED
      BY <2>1, <2>2 DEF Longer
<1>8. /\ \A m \in Nodes : m # tail => node'[m] = node[m]
      /\ node'[tail].next = n /\ node'[tail].value = node[tail].value
      /\ tail \in InList(L) /\ n # tail
      /\ node[n].next = None /\ node[n].value = item[x]
  <2>1. node[tail] \in [value : Int, next : Nodes \union {None}]
      BY <1>5 DEF HeapType
  <2>2. tail \in InList(L)
      BY <1>4, <1>5, ListEnds
  <2>3. QED
      BY <1>1, <1>2, <1>5, <1>6, <2>1, <2>2 DEF HeapType, HandsRight
<1>9. HeapType(D)'
  <2>1. node' \in [Nodes -> [value : Int, next : Nodes \union {None}]]
      BY <1>2, <1>5, <1>6 DEF HeapType
  <2>2. QED
      BY <1>2, <2>1 DEF HeapType
<1>10. HeapLocked(D)'
    BY <1>2, <1>3 DEF HeapLocked, Tailing, Heading
<1>11. Chain(M)'
  <2>1. ASSUME NEW j \in 1 .. Len(M), NEW k \in 1 .. Len(M), M[j] = M[k]
        PROVE  j = k
    <3>1. \A l \in 1 .. Len(L) : M[l] = L[l] /\ L[l] \in InList(L)
        BY <1>7 DEF InList
    <3>2. (j \in 1 .. Len(L) \/ j = Len(M)) /\ (k \in 1 .. Len(L) \/ k = Len(M))
        BY <1>5, <1>7
    <3>3. QED
        BY <1>6, <1>7, <2>1, <3>1, <3>2 DEF Chain, NoRepeats
  <2>2. M[1] = head'
      BY <1>2, <1>5, <1>7 DEF Chain
  <2>3. ASSUME NEW k \in 1 .. Len(M)
        PROVE  node'[M[k]].next = IF k < Len(M) THEN M[k + 1] ELSE None
    <3>1. CASE k = Len(M)
        BY <1>6, <1>7, <1>8, <3>1
    <3>2. CASE k = Len(L)
        BY <1>4, <1>5, <1>7, <1>8, <3>2
    <3>3. CASE k # Len(M) /\ k # Len(L)
      <4>1. k \in 1 .. Len(L) /\ k < Len(L) /\ k + 1 \in 1 .. Len(L) /\ Len(L) \in 1 .. Len(L)
          BY <1>5, <1>7, <3>3
      <4>2. M[k] = L[k] /\ L[k] # tail /\ L[k] \in Nodes /\ M[k + 1] = L[k + 1]
          BY <1>4, <1>5, <1>7, <4>1 DEF Chain, NoRepeats
      <4>3. node'[L[k]] = node[L[k]] /\ node[L[k]].next = L[k + 1]
          BY <1>8, <4>1, <4>2 DEF Chain
      <4>4. k < Len(M)
          BY <1>5, <1>7, <4>1
      <4>5. QED
          BY <4>2, <4>3, <4>4
    <3>4. QED
        BY <3>1, <3>2, <3>3
  <2>4. QED
      BY <1>7, <2>1, <2>2, <2>3 DEF Chain, NoRepeats
<1>12. TailRight(D, M)'
  <2>1. \A t \in D : pc'[t] = "push_tail" => t = x
      BY <1>2, <1>3 DEF HeapLocked, Tailing
  <2>2. QED
      BY <1>1, <1>2, <1>3, <1>7, <2>1 DEF TailRight
<1>13. HandsRight(D, M)'
  <2>1. \A t \in D : pc'[t] \in Handling <=> pc[t] \in Handling /\ t # x
      BY <1>3 DEF Handling
  <2>2. pc[x] \in Handling /\ \A t \in D : pc[t] \in Handling /\ tmp[t] = n => t = x
      BY <1>1, <1>2 DEF HandsRight, Handling
  <2>3. /\ InList(M) \subseteq allocated'
        /\ \A t \in D : pc'[t] \in Handling => tmp'[t] \in allocated' /\ tmp'[t] \notin InList(M)
        /\ \A t, u \in D :
              pc'[t] \in Handling /\ pc'[u] \in Handling /\ tmp'[t] = tmp'[u] => t = u
      BY <1>2, <1>6, <1>7, <2>1, <2>2 DEF HandsRight
  <2>4. \A m \in allocated' :
            m \in InList(M) \/ \E t \in D : pc'[t] \in Handling /\ tmp'[t] = m
      BY <1>1, <1>2, <1>7, <2>1 DEF HandsRight
  <2>5. ASSUME NEW t \in D, pc'[t] \in {"push_lock", "push_link"}
        PROVE  node'[tmp'[t]].value = item'[t] /\ node'[tmp'[t]].next = None
    <3>1. pc[t] \in {"push_lock", "push_link"} /\ pc[t] \in Handling
        BY <1>3, <2>5 DEF Handling
    <3>2. tmp[t] # tail /\ tmp[t] \in Nodes
        BY <1>8, <3>1 DEF HandsRight, HeapType
    <3>3. QED
        BY <1>2, <1>8, <3>1, <3>2 DEF HandsRight
  <2>6. \A t \in D : pc'[t] = "pop_take" => tmp'[t] = head' /\ Len(M) > 1
      BY <1>2, <1>3, <1>5, <1>7 DEF HandsRight
  <2>7. QED
      BY <2>3, <2>4, <2>5, <2>6 DEF HandsRight
<1>14. QED
    BY <1>4, <1>9, <1>10, <1>11, <1>12, <1>13

LEMMA HeapPushTail ==
    ASSUME NEW D, NEW L, HeapInv(D, L), NEW x \in D, Linked!PushTail(x)
    PROVE  HeapInv(D, L)'
<1> USE DEF HeapInv
<1>1. /\ pc[x] = "push_tail" /\ pc' = [pc EXCEPT ![x] = "push_unlock"]
      /\ tail_lock' = tail_lock /\ head_lock' = head_lock
      /\ item' = item /\ tmp' = tmp /\ head' = head /\ tail' = tmp[x]
      /\ node' = node /\ allocated' = allocated
    BY DEF Linked!PushTail, Linked!Goto, Linked!heapVars
<1>2. \A y \in D : pc'[y] = IF y = x THEN "push_unlock" ELSE pc[y]
    BY <1>1 DEF HeapType
<1>3. HeapType(D)'
    BY <1>1 DEF HeapType
<1>4. HeapLocked(D)'
    BY <1>1, <1>2 DEF HeapLocked, Tailing, Heading
<1>5. Chain(L)'
    BY <1>1 DEF Chain
<1>6. TailRight(D, L)'
    BY <1>1, <1>2 DEF TailRight
<1>7. HandsRight(D, L)'
    BY <1>1, <1>2 DEF HandsRight, Handling
<1>8. QED
    BY <1>3, <1>4, <1>5, <1>6, <1>7

LEMMA HeapPushUnlock ==
    ASSUME NEW D, NEW L, HeapInv(D, L), NEW x \in D, NEW there, there \notin Busy,
           pc[x] = "push_unlock", pc' = [pc EXCEPT ![x] = there],
           tail_lock' = tail_lock + 1, NEW v \in Int, item' = [item EXCEPT ![x] = v],
           tmp' = [tmp EXCEPT ![x] = None], node' = node, allocated' = allocated,
           head' = head, tail' = tail, head_lock' = head_lock
    PROVE  HeapInv(D, L)'
<1> USE DEF HeapInv
<1>1. /\ \A y \in D : pc'[y] = IF y = x THEN there ELSE pc[y]
      /\ \A y \in D : y # x => item'[y] = item[y] /\ tmp'[y] = tmp[y]
    BY DEF HeapType
<1>2. /\ there \notin Tailing /\ there \notin Heading /\ there \notin Handling
      /\ there \notin {"push_tail", "push_lock", "push_link", "pop_take"}
    BY DEF Busy, Tailing, Heading, Handling
<1>3. tail_lock' = 1 /\ \A y \in D : pc'[y] \notin Tailing
    BY <1>1, <1>2 DEF HeapLocked, HeapType, Tailing
<1>4. HeapType(D)'
    BY <1>3 DEF HeapType
<1>5. HeapLocked(D)'
    BY <1>1, <1>2, <1>3 DEF HeapLocked
<1>6. Chain(L)'
    BY DEF Chain
<1>7. TailRight(D, L)'
    BY <1>1, <1>2 DEF TailRight
<1>8. HandsRight(D, L)'
  <2>1. \A y \in D : /\ pc'[y] \in Handling <=> pc[y] \in Handling
                     /\ pc[y] \in Handling => y # x
      BY <1>1, <1>2 DEF Handling
  <2>2. QED
      BY <1>1, <1>2, <2>1 DEF HandsRight
<1>9. QED
    BY <1>4, <1>5, <1>6, <1>7, <1>8

LEMMA OneOrMore ==
    ASSUME NEW n \in Nat \ {0}
    PROVE  n = 1 \/ n > 1
OBVIOUS

LEMMA HeapPopLock ==
    ASSUME NEW D, NEW L, HeapInv(D, L), NEW x \in D, Linked!PopLock(x)
    PROVE  HeapInv(D, L)'
<1> USE DEF HeapInv
<1>1. /\ pc[x] = "pop_lock" /\ pc' = [pc EXCEPT ![x] = "pop_read"]
      /\ head_lock > 0 /\ head_lock' = head_lock - 1 /\ tail_lock' = tail_lock
      /\ item' = item /\ tmp' = tmp /\ head' = head /\ tail' = tail
      /\ node' = node /\ allocated' = allocated
    BY DEF Linked!PopLock, Linked!Goto, Linked!heapVars
<1>2. \A y \in D : pc'[y] = IF y = x THEN "pop_read" ELSE pc[y]
    BY <1>1 DEF HeapType
<1>3. head_lock = 1 /\ head_lock' = 0
    BY <1>1 DEF HeapType
<1>4. HeapType(D)'
    BY <1>1, <1>3 DEF HeapType
<1>5. HeapLocked(D)'
    BY <1>1, <1>2, <1>3 DEF HeapLocked, Tailing, Heading
<1>6. Chain(L)'
    BY <1>1 DEF Chain
<1>7. TailRight(D, L)'
    BY <1>1, <1>2 DEF TailRight
<1>8. HandsRight(D, L)'
    BY <1>1, <1>2 DEF HandsRight, Handling
<1>9. QED
    BY <1>4, <1>5, <1>6, <1>7, <1>8

(* The dummy has no successor exactly when it is all there is. *)
LEMMA HeadNext ==
    ASSUME NEW D, NEW L, HeapInv(D, L)
    PROVE  /\ node[head].next = None <=> Len(L) = 1
           /\ head \in Nodes /\ head \in InList(L)
           /\ Len(L) > 1 => node[head].next = L[2] /\ L[2] \in Nodes /\ L[2] \in InList(L)
<1>1. /\ L \in Seq(Nodes) /\ L # <<>> /\ L[1] = head
      /\ \A k \in 1 .. Len(L) : node[L[k]].next = IF k < Len(L) THEN L[k + 1] ELSE None
    BY DEF HeapInv, Chain
<1>2. /\ Len(L) \in Nat \ {0} /\ \A k \in 1 .. Len(L) : L[k] \in Nodes
      /\ L[1] \in InList(L)
    BY <1>1, ListEnds
<1>3. node[head].next = IF Len(L) > 1 THEN L[2] ELSE None
    BY <1>1, <1>2
<1>4. Len(L) > 1 => L[2] \in Nodes /\ L[2] \in InList(L)
    BY <1>2 DEF InList
<1>5. 1 \in 1 .. Len(L) /\ head \in Nodes
    BY <1>1, <1>2
<1>6. node[head].next = None <=> Len(L) = 1
  <2>1. CASE Len(L) = 1
      BY <1>3, <2>1
  <2>2. CASE Len(L) > 1
      BY <1>3, <1>4, <2>2, NullIsNoNode
  <2>3. Len(L) = 1 \/ Len(L) > 1
    <3>1. Len(L) \in Nat \ {0}
        BY <1>2
    <3>2. QED
        BY ONLY <3>1, OneOrMore
  <2>4. QED
      BY <2>1, <2>2, <2>3
<1>7. QED
    BY <1>1, <1>2, <1>3, <1>4, <1>5, <1>6

LEMMA HeapPopRead ==
    ASSUME NEW D, NEW L, HeapInv(D, L), NEW x \in D, Linked!PopRead(x)
    PROVE  HeapInv(D, L)'
<1>0. (node[head].next = None <=> Len(L) = 1) /\ head \in Nodes
    BY HeadNext
<1> USE DEF HeapInv
<1>1. PICK there : there = IF node[head].next = None THEN "pop_empty" ELSE "pop_take"
    OBVIOUS
<1>2. /\ pc[x] = "pop_read" /\ pc' = [pc EXCEPT ![x] = there]
      /\ head_lock' = head_lock /\ tail_lock' = tail_lock
      /\ item' = item /\ tmp' = [tmp EXCEPT ![x] = head] /\ head' = head /\ tail' = tail
      /\ node' = node /\ allocated' = allocated
    BY <1>1 DEF Linked!PopRead, Linked!Goto, Linked!heapVars, Linked!queueVars, Linked!SetTmp
<1>3. /\ \A y \in D : pc'[y] = IF y = x THEN there ELSE pc[y]
      /\ \A y \in D : tmp'[y] = IF y = x THEN head ELSE tmp[y]
    BY <1>2 DEF HeapType
<1>4. /\ there \in {"pop_empty", "pop_take"} /\ head \in Nodes
      /\ there = "pop_take" => Len(L) > 1
  <2>1. Len(L) \in Nat \ {0}
      BY ListEnds DEF Chain
  <2>2. Len(L) = 1 \/ Len(L) > 1
      BY ONLY <2>1, OneOrMore
  <2>3. QED
      BY <1>0, <1>1, <2>2
<1>5. HeapType(D)'
    BY <1>2, <1>4 DEF HeapType
<1>6. HeapLocked(D)'
    BY <1>2, <1>3, <1>4 DEF HeapLocked, Tailing, Heading
<1>7. Chain(L)'
    BY <1>2 DEF Chain
<1>8. TailRight(D, L)'
    BY <1>2, <1>3, <1>4 DEF TailRight
<1>9. HandsRight(D, L)'
  <2>1. \A y \in D : /\ pc'[y] \in Handling <=> pc[y] \in Handling
                     /\ pc[y] \in Handling => y # x
      BY <1>2, <1>3, <1>4 DEF Handling
  <2>2. QED
      BY <1>2, <1>3, <1>4, <2>1 DEF HandsRight
<1>10. QED
    BY <1>5, <1>6, <1>7, <1>8, <1>9

(* A pop that has found the queue empty, and gives the lock back. *)
LEMMA HeapPopEmpty ==
    ASSUME NEW D, NEW L, HeapInv(D, L), NEW x \in D, NEW there, there \notin Busy,
           pc[x] = "pop_empty", pc' = [pc EXCEPT ![x] = there],
           head_lock' = head_lock + 1, tmp' = [tmp EXCEPT ![x] = None],
           item' = item, node' = node, allocated' = allocated,
           head' = head, tail' = tail, tail_lock' = tail_lock
    PROVE  HeapInv(D, L)'
<1> USE DEF HeapInv
<1>1. \A y \in D : /\ pc'[y] = IF y = x THEN there ELSE pc[y]
                   /\ y # x => tmp'[y] = tmp[y]
    BY DEF HeapType
<1>2. /\ there \notin Tailing /\ there \notin Heading /\ there \notin Handling
      /\ there \notin {"push_tail", "push_lock", "push_link", "pop_take"}
    BY DEF Busy, Tailing, Heading, Handling
<1>3. head_lock' = 1 /\ \A y \in D : pc'[y] \notin Heading
    BY <1>1, <1>2 DEF HeapLocked, HeapType, Heading
<1>4. HeapType(D)'
    BY <1>3 DEF HeapType
<1>5. HeapLocked(D)'
  <2>1. \A y \in D : pc'[y] \in Tailing <=> pc[y] \in Tailing
      BY <1>1, <1>2 DEF Tailing
  <2>2. QED
      BY <1>3, <2>1 DEF HeapLocked
<1>6. Chain(L)'
    BY DEF Chain
<1>7. TailRight(D, L)'
    BY <1>1, <1>2 DEF TailRight
<1>8. HandsRight(D, L)'
  <2>1. \A y \in D : /\ pc'[y] \in Handling <=> pc[y] \in Handling
                     /\ pc[y] \in Handling => y # x
      BY <1>1, <1>2 DEF Handling
  <2>2. QED
      BY <1>1, <1>2, <2>1 DEF HandsRight
<1>9. QED
    BY <1>4, <1>5, <1>6, <1>7, <1>8

(* The second node becomes the dummy. *)
LEMMA HeapPopTake ==
    ASSUME NEW D, NEW L, HeapInv(D, L), NEW x \in D, Linked!PopTake(x), NEW M, M = Tail(L)
    PROVE  /\ HeapInv(D, M)' /\ Len(L) > 1
           /\ item' = [item EXCEPT ![x] = node[L[2]].value]
<1> USE DEF HeapInv
<1>1. /\ pc[x] = "pop_take" /\ pc' = [pc EXCEPT ![x] = "pop_unlock"]
      /\ head_lock' = head_lock /\ tail_lock' = tail_lock
      /\ tmp' = tmp /\ tail' = tail /\ node' = node /\ allocated' = allocated
      /\ head' = node[tmp[x]].next
      /\ item' = [item EXCEPT ![x] = node[node[tmp[x]].next].value]
    BY DEF Linked!PopTake, Linked!Goto, Linked!heapVars, Linked!SetItem
<1>2. tmp[x] = head /\ Len(L) > 1
    BY <1>1 DEF HandsRight
<1>3. node[head].next = L[2] /\ L[2] \in Nodes /\ head \in Nodes /\ head \in InList(L)
    BY <1>2, HeadNext
<1>4. head' = L[2] /\ item' = [item EXCEPT ![x] = node[L[2]].value]
    BY <1>1, <1>2, <1>3
<1>5. /\ L \in Seq(Nodes) /\ Len(L) \in Nat \ {0} /\ NoRepeats(L) /\ L[1] = head
    BY ListEnds DEF Chain
<1>6. /\ M \in Seq(Nodes) /\ M # <<>> /\ Len(M) = Len(L) - 1
      /\ \A k \in 1 .. Len(M) : M[k] = L[k + 1]
      /\ InList(M) = InList(L) \ {head}
  <2>1. Shorter(L, Tail(L))
      BY <1>2, <1>5, ListShrinks
  <2>2. QED
      BY <1>5, <2>1 DEF Shorter
<1>7. \A y \in D : pc'[y] = IF y = x THEN "pop_unlock" ELSE pc[y]
    BY <1>1 DEF HeapType
<1>8. HeapType(D)'
  <2>1. node[L[2]].value \in Int
    <3>1. node[L[2]] \in [value : Int, next : Nodes \union {None}]
        BY <1>3 DEF HeapType
    <3>2. QED
        BY <3>1
  <2>2. QED
      BY <1>1, <1>4, <2>1 DEF HeapType
<1>9. HeapLocked(D)'
    BY <1>1, <1>7 DEF HeapLocked, Tailing, Heading
<1>10. Chain(M)'
  <2>1. NoRepeats(M)
    <3> SUFFICES ASSUME NEW j \in 1 .. Len(M), NEW k \in 1 .. Len(M), M[j] = M[k]
                 PROVE  j = k
        BY DEF NoRepeats
    <3>1. j + 1 \in 1 .. Len(L) /\ k + 1 \in 1 .. Len(L) /\ L[j + 1] = L[k + 1]
        BY <1>5, <1>6
    <3>2. j + 1 = k + 1
        BY <1>5, <3>1 DEF NoRepeats
    <3>3. QED
        BY <1>6, <3>2
  <2>2. M[1] = head'
      BY <1>2, <1>4, <1>5, <1>6
  <2>3. ASSUME NEW k \in 1 .. Len(M)
        PROVE  node'[M[k]].next = IF k < Len(M) THEN M[k + 1] ELSE None
    <3>1. /\ k + 1 \in 1 .. Len(L) /\ M[k] = L[k + 1]
          /\ k < Len(M) <=> k + 1 < Len(L)
          /\ k < Len(M) => M[k + 1] = L[(k + 1) + 1]
        BY <1>5, <1>6
    <3>2. node[L[k + 1]].next = IF k + 1 < Len(L) THEN L[(k + 1) + 1] ELSE None
        BY <3>1 DEF Chain
    <3>3. QED
        BY <1>1, <3>1, <3>2
  <2>4. QED
      BY <1>6, <2>1, <2>2, <2>3 DEF Chain
<1>11. TailRight(D, M)'
  <2>1. M[Len(M)] = L[Len(L)]
      BY <1>2, <1>5, <1>6
  <2>2. \A t \in D : pc'[t] = "push_tail" <=> pc[t] = "push_tail"
      BY <1>1, <1>7
  <2>3. QED
      BY <1>1, <2>1, <2>2 DEF TailRight
<1>12. HandsRight(D, M)'
  <2>1. /\ \A t \in D : pc'[t] \in Handling <=> pc[t] \in Handling \/ t = x
        /\ pc[x] \notin Handling
      BY <1>1, <1>7 DEF Handling
  <2>2. head \in allocated /\ \A t \in D : pc[t] \in Handling => tmp[t] # head
      BY <1>3 DEF HandsRight
  <2>3. /\ InList(M) \subseteq allocated'
        /\ \A t \in D : pc'[t] \in Handling => tmp'[t] \in allocated' /\ tmp'[t] \notin InList(M)
        /\ \A t, u \in D :
              pc'[t] \in Handling /\ pc'[u] \in Handling /\ tmp'[t] = tmp'[u] => t = u
      BY <1>1, <1>2, <1>6, <2>1, <2>2 DEF HandsRight
  <2>4. \A m \in allocated' :
            m \in InList(M) \/ \E t \in D : pc'[t] \in Handling /\ tmp'[t] = m
      BY <1>1, <1>2, <1>6, <2>1 DEF HandsRight
  <2>5. \A t \in D : pc'[t] \in {"push_lock", "push_link"} =>
            node'[tmp'[t]].value = item'[t] /\ node'[tmp'[t]].next = None
      BY <1>1, <1>7 DEF HandsRight, HeapType
  <2>6. \A t \in D : pc'[t] # "pop_take"
      BY <1>1, <1>7 DEF HeapLocked, Heading
  <2>7. QED
      BY <2>3, <2>4, <2>5, <2>6 DEF HandsRight
<1>13. QED
    BY <1>2, <1>4, <1>8, <1>9, <1>10, <1>11, <1>12

LEMMA HeapPopUnlock ==
    ASSUME NEW D, NEW L, HeapInv(D, L), NEW x \in D, Linked!PopUnlock(x)
    PROVE  HeapInv(D, L)'
<1> USE DEF HeapInv
<1>1. /\ pc[x] = "pop_unlock" /\ pc' = [pc EXCEPT ![x] = "pop_free"]
      /\ head_lock' = head_lock + 1 /\ tail_lock' = tail_lock
      /\ item' = item /\ tmp' = tmp /\ head' = head /\ tail' = tail
      /\ node' = node /\ allocated' = allocated
    BY DEF Linked!PopUnlock, Linked!Goto, Linked!heapVars
<1>2. \A y \in D : pc'[y] = IF y = x THEN "pop_free" ELSE pc[y]
    BY <1>1 DEF HeapType
<1>3. head_lock' = 1 /\ \A y \in D : pc'[y] \notin Heading
    BY <1>1, <1>2 DEF HeapLocked, HeapType, Heading
<1>4. HeapType(D)'
    BY <1>1, <1>3 DEF HeapType
<1>5. HeapLocked(D)'
  <2>1. \A y \in D : pc'[y] \in Tailing <=> pc[y] \in Tailing
      BY <1>1, <1>2 DEF Tailing
  <2>2. QED
      BY <1>1, <1>3, <2>1 DEF HeapLocked
<1>6. Chain(L)'
    BY <1>1 DEF Chain
<1>7. TailRight(D, L)'
    BY <1>1, <1>2 DEF TailRight
<1>8. HandsRight(D, L)'
  <2>1. \A y \in D : pc'[y] \in Handling <=> pc[y] \in Handling
      BY <1>1, <1>2 DEF Handling
  <2>2. QED
      BY <1>1, <1>2, <2>1 DEF HandsRight
<1>9. QED
    BY <1>4, <1>5, <1>6, <1>7, <1>8

LEMMA HeapPopFree ==
    ASSUME NEW D, NEW L, HeapInv(D, L), NEW x \in D, NEW there, there \notin Busy,
           NEW v \in Int, pc[x] = "pop_free", pc' = [pc EXCEPT ![x] = there],
           allocated' = allocated \ {tmp[x]},
           node' = [node EXCEPT ![tmp[x]] = [value |-> v, next |-> None]],
           tmp' = [tmp EXCEPT ![x] = None], item' = item, head' = head, tail' = tail,
           head_lock' = head_lock, tail_lock' = tail_lock
    PROVE  HeapInv(D, L)'
<1> USE DEF HeapInv
<1>1. PICK n : n = tmp[x]
    OBVIOUS
<1>2. /\ \A y \in D : /\ pc'[y] = IF y = x THEN there ELSE pc[y]
                      /\ y # x => tmp'[y] = tmp[y]
      /\ \A m \in Nodes : m # n => node'[m] = node[m]
    BY <1>1 DEF HeapType
<1>3. /\ there \notin Tailing /\ there \notin Heading /\ there \notin Handling
      /\ there \notin {"push_tail", "push_lock", "push_link", "pop_take"}
    BY DEF Busy, Tailing, Heading, Handling
<1>4. /\ n \in allocated /\ n \notin InList(L)
      /\ \A t \in D : pc[t] \in Handling /\ tmp[t] = n => t = x
    BY <1>1 DEF HandsRight, Handling
<1>5. \A k \in 1 .. Len(L) : L[k] \in Nodes /\ L[k] # n
    BY <1>4, ListEnds DEF Chain, InList
<1>6. HeapType(D)'
  <2>1. [value |-> v, next |-> None] \in [value : Int, next : Nodes \union {None}]
      OBVIOUS
  <2>2. QED
      BY <2>1 DEF HeapType
<1>7. HeapLocked(D)'
  <2>1. \A y \in D : /\ pc'[y] \in Tailing <=> pc[y] \in Tailing
                     /\ pc'[y] \in Heading <=> pc[y] \in Heading
      BY <1>2, <1>3 DEF Tailing, Heading
  <2>2. QED
      BY <2>1 DEF HeapLocked
<1>8. Chain(L)'
    BY <1>2, <1>5 DEF Chain
<1>9. TailRight(D, L)'
    BY <1>2, <1>3 DEF TailRight
<1>10. HandsRight(D, L)'
  <2>1. \A y \in D : pc'[y] \in Handling <=> pc[y] \in Handling /\ y # x
      BY <1>2, <1>3 DEF Handling
  <2>2. /\ InList(L) \subseteq allocated'
        /\ \A t \in D : pc'[t] \in Handling => tmp'[t] \in allocated' /\ tmp'[t] \notin InList(L)
        /\ \A t, u \in D :
              pc'[t] \in Handling /\ pc'[u] \in Handling /\ tmp'[t] = tmp'[u] => t = u
      BY <1>1, <1>2, <1>4, <2>1 DEF HandsRight
  <2>3. \A m \in allocated' :
            m \in InList(L) \/ \E t \in D : pc'[t] \in Handling /\ tmp'[t] = m
      BY <1>1, <1>2, <2>1 DEF HandsRight
  <2>4. ASSUME NEW t \in D, pc'[t] \in {"push_lock", "push_link"}
        PROVE  node'[tmp'[t]].value = item'[t] /\ node'[tmp'[t]].next = None
    <3>1. t # x /\ pc[t] \in {"push_lock", "push_link"} /\ pc[t] \in Handling
        BY <1>2, <1>3, <2>4 DEF Handling
    <3>2. tmp'[t] = tmp[t] /\ tmp[t] \in Nodes /\ tmp[t] # n
        BY <1>2, <1>4, <3>1 DEF HandsRight, HeapType
    <3>3. QED
        BY <1>2, <3>1, <3>2 DEF HandsRight
  <2>5. \A t \in D : pc'[t] = "pop_take" => tmp'[t] = head' /\ Len(L) > 1
      BY <1>2, <1>3 DEF HandsRight
  <2>6. QED
      BY <2>2, <2>3, <2>4, <2>5 DEF HandsRight
<1>11. QED
    BY <1>6, <1>7, <1>8, <1>9, <1>10

(* Walk follows next from head on: a table of nodes of which the list is    *)
(* the part before the first None.                                          *)

StepTo(g, k) ==
    IF k = 0 THEN head ELSE IF g[k - 1] = None THEN None ELSE node[g[k - 1]].next

Places    == 0 .. Cardinality(Nodes)
WalkTable == CHOOSE g : g = [k \in Places |-> StepTo(g, k)]
WalkEnd(g) ==
    CHOOSE k \in Places : g[k] # None /\ (k < Cardinality(Nodes) => g[k + 1] = None)

LEMMA WalkIsTable ==
    /\ Linked!Walk = [k \in 1 .. WalkEnd(WalkTable) + 1 |-> WalkTable[k - 1]]
    /\ Token!Walk = [k \in 1 .. WalkEnd(WalkTable) + 1 |-> WalkTable[k - 1]]
BY DEF Linked!Walk, Token!Walk, Linked!Cardinality, Token!Cardinality, Cardinality,
       WalkTable, WalkEnd, StepTo, Places

(* No more nodes can be in a list than there are. *)
LEMMA ListFits ==
    ASSUME NEW L \in Seq(Nodes), NoRepeats(L)
    PROVE  Len(L) <= Cardinality(Nodes) /\ Cardinality(Nodes) \in Nat
<1>1. Len(L) \in Nat /\ DOMAIN L = 1 .. Len(L) /\ L \in [1 .. Len(L) -> Nodes]
    OBVIOUS
<1>2. L \in Injection(1 .. Len(L), Nodes)
    BY <1>1 DEF NoRepeats, Injection, IsInjective
<1>3. Cardinality(1 .. Len(L)) <= Cardinality(Nodes)
    BY <1>2, NullIsNoNode, FS_Injection
<1>4. Cardinality(1 .. Len(L)) = Len(L)
    BY <1>1, FS_Interval
<1>5. QED
    BY <1>3, <1>4, NullIsNoNode, FS_CardinalityType

LEMMA TableIsList ==
    ASSUME NEW L, Chain(L)
    PROVE  \A k \in Places : WalkTable[k] = IF k < Len(L) THEN L[k + 1] ELSE None
<1> DEFINE G == [k \in Places |-> IF k < Len(L) THEN L[k + 1] ELSE None]
<1>1. /\ L \in Seq(Nodes) /\ L # <<>> /\ L[1] = head /\ NoRepeats(L)
      /\ \A k \in 1 .. Len(L) : node[L[k]].next = IF k < Len(L) THEN L[k + 1] ELSE None
    BY DEF Chain
<1>2. /\ Len(L) \in Nat \ {0} /\ \A k \in 1 .. Len(L) : L[k] \in Nodes /\ L[k] # None
      /\ Cardinality(Nodes) \in Nat
    BY <1>1, ListEnds, ListFits, NullIsNoNode
<1>3. \A k \in Places : G[k] = StepTo(G, k)
  <2> SUFFICES ASSUME NEW k \in Places PROVE G[k] = StepTo(G, k)
      OBVIOUS
  <2>1. CASE k = 0
      BY <1>1, <1>2, <2>1 DEF StepTo, Places
  <2>2. CASE k # 0
    <3>1. k - 1 \in Places /\ G[k - 1] = IF k - 1 < Len(L) THEN L[k] ELSE None
        BY <1>2, <2>2 DEF Places
    <3>2. CASE k - 1 < Len(L)
      <4>1. k \in 1 .. Len(L)
          BY <1>2, <2>2, <3>2 DEF Places
      <4>2. G[k - 1] = L[k] /\ L[k] # None /\ node[L[k]].next = G[k]
          BY <1>1, <1>2, <3>1, <3>2, <4>1
      <4>3. QED
          BY <2>2, <4>2 DEF StepTo
    <3>3. CASE ~ (k - 1 < Len(L))
        BY <1>2, <2>2, <3>1, <3>3 DEF StepTo, Places
    <3>4. QED
        BY <3>2, <3>3
  <2>3. QED
      BY <2>1, <2>2
<1>4. G = [k \in Places |-> StepTo(G, k)]
    BY <1>3
<1> HIDE DEF G
<1>5. WalkTable = [k \in Places |-> StepTo(WalkTable, k)]
    BY <1>4 DEF WalkTable
<1>6. \A k \in Places : WalkTable[k] = G[k]
  <2> DEFINE S == {k \in Nat : k \in Places => WalkTable[k] = G[k]}
  <2>1. \A k \in Places : WalkTable[k] = StepTo(WalkTable, k) /\ G[k] = StepTo(G, k)
      BY <1>3, <1>5
  <2>2. 0 \in S
    <3>1. 0 \in Places
        BY <1>2 DEF Places
    <3>2. QED
        BY <2>1, <3>1 DEF StepTo
  <2>3. ASSUME NEW k \in S PROVE k + 1 \in S
    <3>1. SUFFICES ASSUME k + 1 \in Places PROVE WalkTable[k + 1] = G[k + 1]
        OBVIOUS
    <3>2. k \in Places /\ (k + 1) - 1 = k /\ k + 1 # 0
        BY <1>2, <3>1 DEF Places
    <3>3. WalkTable[k] = G[k]
        BY <3>2
    <3>4. StepTo(WalkTable, k + 1) = StepTo(G, k + 1)
        BY <3>2, <3>3 DEF StepTo
    <3>5. QED
        BY <2>1, <3>1, <3>4
  <2>4. \A k \in Nat : k \in S
    <3>1. S \in SUBSET Nat /\ \A k \in S : k + 1 \in S
        BY <2>3
    <3> HIDE DEF S
    <3>2. QED
        BY <2>2, <3>1, NumberInduction
  <2>5. QED
      BY <1>2, <2>4 DEF Places
<1>7. QED
    BY <1>6 DEF G

LEMMA WalkIsList ==
    ASSUME NEW L, Chain(L)
    PROVE  Linked!Walk = L /\ Token!Walk = L
<1> DEFINE e == WalkEnd(WalkTable)
<1>1. L \in Seq(Nodes) /\ L # <<>> /\ NoRepeats(L)
    BY DEF Chain
<1>2. /\ Len(L) \in Nat \ {0} /\ \A k \in 1 .. Len(L) : L[k] \in Nodes /\ L[k] # None
      /\ Cardinality(Nodes) \in Nat /\ Len(L) <= Cardinality(Nodes)
    BY <1>1, ListEnds, ListFits, NullIsNoNode
<1>3. \A k \in Places : WalkTable[k] = IF k < Len(L) THEN L[k + 1] ELSE None
    BY TableIsList
<1>4. \A k \in Places :
          (WalkTable[k] # None /\ (k < Cardinality(Nodes) => WalkTable[k + 1] = None))
              <=> k = Len(L) - 1
  <2> SUFFICES ASSUME NEW k \in Places
               PROVE  (WalkTable[k] # None
                         /\ (k < Cardinality(Nodes) => WalkTable[k + 1] = None))
                      <=> k = Len(L) - 1
      OBVIOUS
  <2>1. k \in Nat /\ k <= Cardinality(Nodes)
      BY <1>2 DEF Places
  <2>2. WalkTable[k] # None <=> k < Len(L)
    <3>1. k < Len(L) => k + 1 \in 1 .. Len(L)
        BY <1>2, <2>1
    <3>2. QED
        BY <1>2, <1>3, <3>1
  <2>3. k < Cardinality(Nodes) => (WalkTable[k + 1] = None <=> ~ (k + 1 < Len(L)))
    <3>1. ASSUME k < Cardinality(Nodes) PROVE k + 1 \in Places
        BY <1>2, <2>1, <3>1 DEF Places
    <3>2. k + 1 < Len(L) => (k + 1) + 1 \in 1 .. Len(L)
        BY <1>2, <2>1
    <3>3. QED
        BY <1>2, <1>3, <3>1, <3>2
  <2>4. QED
      BY <1>2, <2>1, <2>2, <2>3
<1>5. Len(L) - 1 \in Places
    BY <1>2 DEF Places
<1>6. e = Len(L) - 1
    BY <1>4, <1>5 DEF WalkEnd
<1>7. [k \in 1 .. e + 1 |-> WalkTable[k - 1]] = L
  <2>1. e + 1 = Len(L)
      BY <1>2, <1>6
  <2>2. \A k \in 1 .. Len(L) : WalkTable[k - 1] = L[k]
    <3> TAKE k \in 1 .. Len(L)
    <3>1. k - 1 \in Places /\ k - 1 < Len(L) /\ (k - 1) + 1 = k
        BY <1>2 DEF Places
    <3>2. QED
        BY <1>3, <3>1
  <2>3. L = [k \in 1 .. Len(L) |-> L[k]]
      BY <1>1
  <2>4. QED
      BY <2>1, <2>2, <2>3
<1>8. QED
    BY <1>7, WalkIsTable

(* The values behind the dummy. *)
Queued(L) == [k \in 1 .. Len(L) - 1 |-> node[L[k + 1]].value]

LEMMA WalkHolds ==
    ASSUME NEW L, Chain(L)
    PROVE  /\ Linked!Linked = InList(L) /\ Token!Linked = InList(L)
           /\ Linked!Contents = Queued(L)
<1>1. Linked!Walk = L /\ Token!Walk = L
    BY WalkIsList
<1>2. DOMAIN L = 1 .. Len(L)
    BY DEF Chain
<1>3. QED
    BY <1>1, <1>2 DEF Linked!Linked, Token!Linked, Linked!Contents, InList, Queued

LEMMA WalkHoldsBoth ==
    /\ \A L : Chain(L) => Linked!Linked = InList(L) /\ Token!Linked = InList(L)
                          /\ Linked!Contents = Queued(L)
    /\ (\A L : Chain(L) => Linked!Linked = InList(L) /\ Token!Linked = InList(L)
                           /\ Linked!Contents = Queued(L))'
<1>1. \A L : Chain(L) => Linked!Linked = InList(L) /\ Token!Linked = InList(L)
                         /\ Linked!Contents = Queued(L)
    BY WalkHolds
<1>2. QED
    BY <1>1, PTL

(* What the two programs' NoUseAfterFree and NoNodeLost ask for.            *)
LEMMA HeapIsSafe ==
    ASSUME NEW D, NEW L, HeapInv(D, L)
    PROVE  /\ \A t \in D : pc[t] = "push_link" => tail \in allocated
           /\ \A t \in D : pc[t] = "pop_read" => head \in allocated
           /\ \A t \in D : pc[t] = "pop_take" =>
                  {tmp[t], node[tmp[t]].next} \subseteq allocated
           /\ \A t \in D : pc[t] = "pop_free" =>
                  /\ tmp[t] \in allocated \ InList(L)
                  /\ \A u \in D : pc[u] = "pop_free" /\ tmp[t] = tmp[u] => t = u
           /\ allocated = InList(L) \union {tmp[t] : t \in {u \in D : pc[u] \in Handling}}
<1>1. HeapLocked(D) /\ Chain(L) /\ TailRight(D, L) /\ HandsRight(D, L)
    BY DEF HeapInv
<1>2. head \in InList(L) /\ L[Len(L)] \in InList(L) /\ InList(L) \subseteq allocated
    BY <1>1, HeadNext, ListEnds DEF Chain, HandsRight
<1>3. ASSUME NEW t \in D, pc[t] = "push_link" PROVE tail \in allocated
  <2>1. \A u \in D : pc[u] # "push_tail"
      BY <1>1, <1>3 DEF HeapLocked, Tailing
  <2>2. QED
      BY <1>1, <1>2, <2>1 DEF TailRight
<1>4. ASSUME NEW t \in D, pc[t] = "pop_take"
      PROVE  {tmp[t], node[tmp[t]].next} \subseteq allocated
  <2>1. tmp[t] = head /\ Len(L) > 1
      BY <1>1, <1>4 DEF HandsRight
  <2>2. QED
      BY <1>2, <2>1, HeadNext
<1>5. ASSUME NEW t \in D, pc[t] = "pop_free"
      PROVE  /\ tmp[t] \in allocated \ InList(L)
             /\ \A u \in D : pc[u] = "pop_free" /\ tmp[t] = tmp[u] => t = u
    BY <1>1, <1>5 DEF HandsRight, Handling
<1>6. allocated = InList(L) \union {tmp[t] : t \in {u \in D : pc[u] \in Handling}}
    BY <1>1 DEF HandsRight
<1>7. QED
    BY <1>2, <1>3, <1>4, <1>5, <1>6

LEMMA LinkedIsSafe ==
    ASSUME NEW L, HeapInv(1 .. THREADS, L)
    PROVE  Linked!NoUseAfterFree /\ Linked!NoNodeLost
<1>1. Linked!Linked = InList(L)
    BY WalkHolds DEF HeapInv
<1>2. Linked!NoUseAfterFree
  <2> DEFINE D == 1 .. THREADS
  <2>1. /\ \A t \in D : pc[t] = "push_link" => tail \in allocated
        /\ \A t \in D : pc[t] = "pop_read" => head \in allocated
        /\ \A t \in D : pc[t] = "pop_take" =>
               {tmp[t], node[tmp[t]].next} \subseteq allocated
        /\ \A t \in D : pc[t] = "pop_free" =>
               /\ tmp[t] \in allocated \ Linked!Linked
               /\ \A u \in D : pc[u] = "pop_free" /\ tmp[t] = tmp[u] => t = u
      BY <1>1, HeapIsSafe
  <2>2. QED
      BY ONLY <2>1 DEF Linked!NoUseAfterFree, Linked!At
<1>3. Linked!NoNodeLost
    BY <1>1, HeapIsSafe DEF Linked!NoNodeLost, Linked!At, Handling
<1>4. QED
    BY <1>2, <1>3

LEMMA TokenIsSafe ==
    ASSUME NEW L, HeapInv(1 .. CLIENTS, L)
    PROVE  Token!NoUseAfterFree /\ Token!NoNodeLost
<1>1. Token!Linked = InList(L)
    BY WalkHolds DEF HeapInv
<1>2. Token!NoUseAfterFree
  <2> DEFINE D == 1 .. CLIENTS
  <2>1. /\ \A t \in D : pc[t] = "push_link" => tail \in allocated
        /\ \A t \in D : pc[t] = "pop_read" => head \in allocated
        /\ \A t \in D : pc[t] = "pop_take" =>
               {tmp[t], node[tmp[t]].next} \subseteq allocated
        /\ \A t \in D : pc[t] = "pop_free" =>
               /\ tmp[t] \in allocated \ Token!Linked
               /\ \A u \in D : pc[u] = "pop_free" /\ tmp[t] = tmp[u] => t = u
      BY <1>1, HeapIsSafe
  <2>2. QED
      BY ONLY <2>1 DEF Token!NoUseAfterFree, Token!At
<1>3. Token!NoNodeLost
    BY <1>1, HeapIsSafe DEF Token!NoNodeLost, Token!At, Handling
<1>4. QED
    BY <1>2, <1>3

(* The queue as QueueHolds makes it, the list L of nodes with vals behind   *)
(* the dummy.                                                               *)
StartValue(vals, nv, k) == IF k = 1 THEN nv ELSE vals[k - 1]
StartNext(L, k)         == IF k = Len(L) THEN None ELSE L[k + 1]

StartHeap(L, vals, nv) ==
    [n \in Nodes |->
        IF \E k \in DOMAIN L : L[k] = n
        THEN LET k == CHOOSE k \in DOMAIN L : L[k] = n
             IN  [value |-> StartValue(vals, nv, k), next |-> StartNext(L, k)]
        ELSE [value |-> nv, next |-> None]]

GivenValues(L, vals) == \A k \in 1 .. Len(L) - 1 : vals[k] \in Int
StartsWith(L, vals)  == \A k \in 1 .. Len(L) - 1 : node[L[k + 1]].value = vals[k]

LEMMA Successor ==
    ASSUME NEW n \in Nat, NEW k \in 1 .. n
    PROVE  /\ k # n => k + 1 \in 1 .. n
           /\ k # 1 => k - 1 \in 1 .. n - 1
           /\ k < n <=> k # n
OBVIOUS

LEMMA HeapStart ==
    ASSUME NEW D, NEW L \in Seq(Nodes), L # <<>>, NoRepeats(L), NEW vals, NEW nv \in Int,
           GivenValues(L, vals), allocated = {L[k] : k \in DOMAIN L}, node = StartHeap(L, vals, nv),
           head = L[1], tail = L[Len(L)], head_lock = 1, tail_lock = 1,
           item = [t \in D |-> nv], tmp = [t \in D |-> None],
           NEW start, start \notin Busy, pc = [t \in D |-> start]
    PROVE  HeapInv(D, L) /\ StartsWith(L, vals)
<1>1. /\ Len(L) \in Nat \ {0} /\ DOMAIN L = 1 .. Len(L)
      /\ \A k \in 1 .. Len(L) : L[k] \in Nodes
    BY ListEnds
<1>2. \A k \in 1 .. Len(L) :
          node[L[k]] = [value |-> StartValue(vals, nv, k), next |-> StartNext(L, k)]
  <2> SUFFICES ASSUME NEW k \in 1 .. Len(L)
               PROVE  node[L[k]] = [value |-> StartValue(vals, nv, k),
                                    next |-> StartNext(L, k)]
      OBVIOUS
  <2>1. PICK j : j = CHOOSE m \in DOMAIN L : L[m] = L[k]
      OBVIOUS
  <2>2. j = k
      BY <1>1, <2>1 DEF NoRepeats
  <2>3. L[k] \in Nodes /\ \E m \in DOMAIN L : L[m] = L[k]
      BY <1>1
  <2>4. node[L[k]] = [value |-> StartValue(vals, nv, j), next |-> StartNext(L, j)]
      BY <2>1, <2>3 DEF StartHeap
  <2>5. QED
      BY <2>2, <2>4
<1>3. ASSUME NEW k \in 1 .. Len(L)
      PROVE  /\ StartValue(vals, nv, k) \in Int
             /\ StartNext(L, k) \in Nodes \union {None}
             /\ StartNext(L, k) = IF k < Len(L) THEN L[k + 1] ELSE None
  <2>1. /\ k # Len(L) => k + 1 \in 1 .. Len(L)
        /\ k # 1 => k - 1 \in 1 .. Len(L) - 1
        /\ k < Len(L) <=> k # Len(L)
      BY ONLY <1>1, k \in 1 .. Len(L), Successor
  <2>2. StartValue(vals, nv, k) \in Int
      BY <2>1 DEF StartValue, GivenValues
  <2>3. StartNext(L, k) \in Nodes \union {None}
      BY <1>1, <2>1 DEF StartNext
  <2>4. StartNext(L, k) = IF k < Len(L) THEN L[k + 1] ELSE None
      BY <2>1 DEF StartNext
  <2>5. QED
      BY <2>2, <2>3, <2>4
<1>4. \A n \in Nodes : node[n] \in [value : Int, next : Nodes \union {None}]
  <2> SUFFICES ASSUME NEW n \in Nodes
               PROVE  node[n] \in [value : Int, next : Nodes \union {None}]
      OBVIOUS
  <2>1. CASE \E k \in 1 .. Len(L) : L[k] = n
    <3>1. PICK k \in 1 .. Len(L) : L[k] = n
        BY <2>1
    <3>2. PICK v, w : v = StartValue(vals, nv, k) /\ w = StartNext(L, k)
        OBVIOUS
    <3>3. node[n] = [value |-> v, next |-> w]
        BY <1>2, <3>1, <3>2
    <3>4. v \in Int /\ w \in Nodes \union {None}
        BY <1>3, <3>2
    <3>5. QED
        BY <3>3, <3>4
  <2>2. CASE ~ \E k \in 1 .. Len(L) : L[k] = n
      BY <1>1, <2>2 DEF StartHeap
  <2>3. QED
      BY <2>1, <2>2
<1>5. HeapType(D)
  <2>1. node = [n \in Nodes |-> node[n]]
      BY DEF StartHeap
  <2>2. node \in [Nodes -> [value : Int, next : Nodes \union {None}]]
      BY <1>4, <2>1
  <2>3. allocated \subseteq Nodes
      BY <1>1
  <2>4. QED
      BY <2>2, <2>3 DEF HeapType
<1>6. \A t \in D : pc[t] \notin Busy
    OBVIOUS
<1>7. HeapLocked(D) /\ TailRight(D, L)
    BY <1>6 DEF HeapLocked, TailRight, Busy, Tailing, Heading
<1>8. HandsRight(D, L)
    BY <1>1, <1>6 DEF HandsRight, InList, Busy, Handling, Heading
<1>9. Chain(L)
  <2>1. ASSUME NEW k \in 1 .. Len(L)
        PROVE  node[L[k]].next = IF k < Len(L) THEN L[k + 1] ELSE None
    <3>1. node[L[k]] = [value |-> StartValue(vals, nv, k), next |-> StartNext(L, k)]
        BY <1>2
    <3>2. node[L[k]].next = StartNext(L, k)
        BY ONLY <3>1
    <3>3. QED
        BY <1>3, <3>2
  <2>2. QED
      BY <2>1 DEF Chain
<1>10. ASSUME NEW k \in 1 .. Len(L) - 1 PROVE node[L[k + 1]].value = vals[k]
  <2>1. k + 1 \in 1 .. Len(L) /\ k + 1 # 1 /\ (k + 1) - 1 = k
      BY <1>1
  <2>2. node[L[k + 1]].value = StartValue(vals, nv, k + 1)
    <3>1. node[L[k + 1]] = [value |-> StartValue(vals, nv, k + 1),
                            next |-> StartNext(L, k + 1)]
        BY <1>2, <2>1
    <3>2. QED
        BY ONLY <3>1
  <2>3. StartValue(vals, nv, k + 1) = vals[k]
      BY <2>1 DEF StartValue
  <2>4. QED
      BY <2>2, <2>3
<1>11. QED
    BY <1>5, <1>7, <1>8, <1>9, <1>10 DEF HeapInv, StartsWith

(* The values in the list, and those of the threads at P, who are bringing  *)
(* one or have taken one out, are different members of V.                   *)
Apart(D, L, P, V) ==
    /\ \A k \in 2 .. Len(L) : node[L[k]].value \in V
    /\ \A j, k \in 2 .. Len(L) : node[L[j]].value = node[L[k]].value => j = k
    /\ \A t \in D : pc[t] \in P => item[t] \in V
    /\ \A t \in D : pc[t] \in P => \A k \in 2 .. Len(L) : node[L[k]].value # item[t]
    /\ \A t, u \in D : pc[t] \in P /\ pc[u] \in P /\ item[t] = item[u] => t = u

SameValues(L) == \A k \in 2 .. Len(L) : node'[L[k]].value = node[L[k]].value

LEMMA ApartStays ==
    ASSUME NEW D, NEW L, NEW P, NEW V, Apart(D, L, P, V), SameValues(L),
           \A t \in D : pc'[t] \in P => pc[t] \in P /\ item'[t] = item[t]
    PROVE  Apart(D, L, P, V)'
BY DEF Apart, SameValues

(* Thread x comes to P with a value that nobody has. *)
LEMMA ApartGains ==
    ASSUME NEW D, NEW L, NEW P, NEW V, Apart(D, L, P, V), SameValues(L),
           NEW x \in D, NEW v \in V, item'[x] = v,
           \A k \in 2 .. Len(L) : node[L[k]].value # v,
           \A t \in D : t # x /\ pc[t] \in P => item[t] # v,
           \A t \in D : t # x /\ pc'[t] \in P => pc[t] \in P /\ item'[t] = item[t]
    PROVE  Apart(D, L, P, V)'
<1>1. /\ \A k \in 2 .. Len(L) : node'[L[k]].value \in V /\ node'[L[k]].value # v
      /\ \A j, k \in 2 .. Len(L) : node'[L[j]].value = node'[L[k]].value => j = k
    BY DEF Apart, SameValues
<1>2. \A t \in D : pc'[t] \in P =>
          item'[t] \in V /\ \A k \in 2 .. Len(L) : node'[L[k]].value # item'[t]
    BY <1>1 DEF Apart, SameValues
<1>3. \A t, u \in D : pc'[t] \in P /\ pc'[u] \in P /\ item'[t] = item'[u] => t = u
    BY DEF Apart
<1>4. QED
    BY <1>1, <1>2, <1>3 DEF Apart

(* What x has brought becomes the last of the list. *)
LEMMA ApartLinks ==
    ASSUME NEW D, NEW L, NEW P, NEW V, Apart(D, L, P, V), SameValues(L),
           NEW n, NEW M, Longer(L, M, n), L \in Seq(Nodes), L # <<>>,
           NEW x \in D, pc[x] \in P, pc'[x] \notin P, node'[n].value = item[x],
           \A t \in D : t # x /\ pc'[t] \in P => pc[t] \in P /\ item'[t] = item[t]
    PROVE  Apart(D, M, P, V)'
<1>1. /\ Len(L) \in Nat \ {0} /\ Len(M) = Len(L) + 1
      /\ \A k \in 1 .. Len(L) : M[k] = L[k]
      /\ M[Len(M)] = n
    BY ListEnds DEF Longer
<1>2. \A k \in 2 .. Len(M) : k \in 2 .. Len(L) \/ k = Len(M)
    BY ONLY <1>1
<1>3. \A k \in 2 .. Len(L) :
          /\ node'[M[k]].value = node[L[k]].value
          /\ node[L[k]].value \in V /\ node[L[k]].value # item[x]
    BY <1>1 DEF Apart, SameValues
<1>4. node'[M[Len(M)]].value = item[x] /\ item[x] \in V
    BY <1>1 DEF Apart
<1>5. \A k \in 2 .. Len(M) : node'[M[k]].value \in V
    BY <1>2, <1>3, <1>4
<1>6. ASSUME NEW j \in 2 .. Len(M), NEW k \in 2 .. Len(M),
             node'[M[j]].value = node'[M[k]].value
      PROVE  j = k
  <2>1. (j \in 2 .. Len(L) \/ j = Len(M)) /\ (k \in 2 .. Len(L) \/ k = Len(M))
      BY <1>2
  <2>2. QED
      BY <1>3, <1>4, <1>6, <2>1 DEF Apart
<1>7. ASSUME NEW t \in D, pc'[t] \in P
      PROVE  item'[t] \in V /\ \A k \in 2 .. Len(M) : node'[M[k]].value # item'[t]
  <2>1. t # x /\ pc[t] \in P /\ item'[t] = item[t]
      BY <1>7
  <2>2. item[t] # item[x] /\ \A k \in 2 .. Len(L) : node[L[k]].value # item[t]
      BY <2>1 DEF Apart
  <2>3. QED
      BY <1>2, <1>3, <1>4, <2>1, <2>2 DEF Apart
<1>8. \A t, u \in D : pc'[t] \in P /\ pc'[u] \in P /\ item'[t] = item'[u] => t = u
    BY DEF Apart
<1>9. QED
    BY <1>5, <1>6, <1>7, <1>8 DEF Apart

(* x takes the first of the list. *)
LEMMA ApartTakes ==
    ASSUME NEW D, NEW L, NEW P, NEW V, Apart(D, L, P, V), node' = node,
           NEW M, Shorter(L, M), L \in Seq(Nodes), Len(L) > 1,
           NEW x \in D, item'[x] = node[L[2]].value,
           \A t \in D : t # x /\ pc'[t] \in P => pc[t] \in P /\ item'[t] = item[t]
    PROVE  Apart(D, M, P, V)' /\ item'[x] \in V
<1>1. /\ Len(L) \in Nat /\ Len(M) = Len(L) - 1
      /\ \A k \in 1 .. Len(M) : M[k] = L[k + 1]
    BY DEF Shorter
<1>2. \A k \in 2 .. Len(M) :
          k + 1 \in 2 .. Len(L) /\ k + 1 # 2 /\ k \in 1 .. Len(M) /\ k \in Int
    BY ONLY <1>1
<1>3. 2 \in 2 .. Len(L)
    BY <1>1
<1>4. \A k \in 2 .. Len(M) : node'[M[k]].value = node[L[k + 1]].value
    BY <1>1, <1>2
<1>5. \A k \in 2 .. Len(M) :
          /\ node[L[k + 1]].value \in V
          /\ node[L[k + 1]].value # node[L[2]].value
    BY <1>2, <1>3 DEF Apart
<1>6. node[L[2]].value \in V /\ \A t \in D : pc[t] \in P => item[t] # node[L[2]].value
    BY <1>3 DEF Apart
<1>7. ASSUME NEW j \in 2 .. Len(M), NEW k \in 2 .. Len(M),
             node'[M[j]].value = node'[M[k]].value
      PROVE  j = k
  <2>1. node[L[j + 1]].value = node[L[k + 1]].value
      BY <1>4, <1>7
  <2>2. j + 1 = k + 1
      BY <1>2, <2>1 DEF Apart
  <2>3. QED
      BY <1>2, <2>2
<1>8. ASSUME NEW t \in D, pc'[t] \in P
      PROVE  item'[t] \in V /\ \A k \in 2 .. Len(M) : node'[M[k]].value # item'[t]
  <2>1. CASE t = x
      BY <1>4, <1>5, <1>6, <2>1
  <2>2. CASE t # x
    <3>1. pc[t] \in P /\ item'[t] = item[t]
        BY <1>8, <2>2
    <3>2. QED
        BY <1>2, <1>4, <3>1 DEF Apart
  <2>3. QED
      BY <2>1, <2>2
<1>9. ASSUME NEW t \in D, NEW u \in D, pc'[t] \in P, pc'[u] \in P, item'[t] = item'[u]
      PROVE  t = u
    BY <1>6, <1>9 DEF Apart
<1>10. QED
    BY <1>4, <1>5, <1>6, <1>7, <1>8, <1>9 DEF Apart

(* Only the node that malloc hands out or free takes back changes its value, *)
(* and neither is in the list.                                              *)
LEMMA AllocKeepsValues ==
    ASSUME NEW D, NEW L, HeapInv(D, L), NEW x \in D, Linked!PushAlloc(x)
    PROVE  SameValues(L)
<1>1. PICK n \in Nodes \ allocated :
          node' = [node EXCEPT ![n] = [value |-> item[x], next |-> None]]
    BY DEF Linked!PushAlloc, Linked!Fields
<1>2. \A k \in 1 .. Len(L) : L[k] \in Nodes /\ L[k] # n
  <2>1. InList(L) \subseteq allocated /\ L \in Seq(Nodes)
      BY DEF HeapInv, HandsRight, Chain
  <2>2. QED
      BY <1>1, <2>1 DEF InList
<1>3. \A k \in 2 .. Len(L) : k \in 1 .. Len(L)
  <2>1. Len(L) \in Nat
      BY DEF HeapInv, Chain
  <2>2. QED
      BY <2>1
<1>4. QED
    BY <1>1, <1>2, <1>3 DEF SameValues, HeapInv, HeapType

LEMMA FreeKeepsValues ==
    ASSUME NEW D, NEW L, HeapInv(D, L), NEW x \in D, pc[x] = "pop_free", NEW r,
           node' = [node EXCEPT ![tmp[x]] = r]
    PROVE  SameValues(L)
<1>1. \A k \in 1 .. Len(L) : L[k] \in Nodes /\ L[k] # tmp[x]
  <2>1. tmp[x] \notin InList(L) /\ L \in Seq(Nodes)
      BY DEF HeapInv, HandsRight, Chain, Handling
  <2>2. QED
      BY <2>1 DEF InList
<1>2. \A k \in 2 .. Len(L) : k \in 1 .. Len(L)
  <2>1. Len(L) \in Nat
      BY DEF HeapInv, Chain
  <2>2. QED
      BY <2>1
<1>3. QED
    BY <1>1, <1>2 DEF SameValues, HeapInv, HeapType

LEMMA LinkKeepsValues ==
    ASSUME NEW D, NEW L, HeapInv(D, L), NEW x \in D, Linked!PushLink(x)
    PROVE  \A n \in Nodes : node'[n].value = node[n].value
<1>1. node' = [node EXCEPT ![tail].next = tmp[x]]
    BY DEF Linked!PushLink
<1>2. QED
    BY <1>1 DEF HeapInv, HeapType

-----------------------------------------------------------------------------
(* fifo.c *)

Callers    == 1 .. THREADS
FifoPlaces == {"idle", "push_alloc", "push_lock", "push_link", "push_tail", "push_unlock",
               "pop_lock", "pop_read", "pop_empty", "pop_take", "pop_unlock", "pop_free",
               "print"}
Carrying   == {"push_alloc", "push_lock", "push_link", "pop_unlock", "pop_free"}
EmptyHand  == {"idle", "pop_lock", "pop_read", "pop_empty", "pop_take"}

QueueRight(L) == HeapInv(Callers, L) /\ Apart(Callers, L, Carrying, 1 .. VALUES)

FifoType ==
    /\ destroyed \in BOOLEAN
    /\ pc \in [Callers -> FifoPlaces] /\ item \in [Callers -> Int]
    /\ \A t \in Callers : pc[t] \in EmptyHand => item[t] = 0

LinkedInv ==
    /\ FifoType
    /\ IF destroyed THEN allocated = {} /\ \A t \in Callers : pc[t] = "idle"
       ELSE \E L : QueueRight(L)

(* In the beginning there is only the dummy. *)
LEMMA LinkedStart ==
    ASSUME Linked!Init
    PROVE  FifoType /\ ~ destroyed /\ \E L : Len(L) = 1 /\ QueueRight(L)
<1>1. /\ pc = [t \in Callers |-> "idle"] /\ item = [t \in Callers |-> 0]
      /\ tmp = [t \in Callers |-> None] /\ destroyed = FALSE
    BY DEF Linked!Init, Callers
<1>2. PICK dummy \in Nodes : Linked!QueueHolds(<<dummy>>, <<>>)
    BY DEF Linked!Init
<1> DEFINE L == <<dummy>>
<1>3. /\ L \in Seq(Nodes) /\ L # <<>> /\ Len(L) = 1 /\ NoRepeats(L)
    BY DEF NoRepeats
<1>4. /\ allocated = {L[k] : k \in DOMAIN L} /\ node = StartHeap(L, <<>>, 0)
      /\ head = L[1] /\ tail = L[Len(L)] /\ head_lock = 1 /\ tail_lock = 1
    BY <1>2 DEF Linked!QueueHolds, Linked!Fields, StartHeap, StartValue, StartNext
<1> HIDE DEF L
<1>5. "idle" \notin Busy /\ 0 \in Int
    BY DEF Busy, Tailing, Heading, Handling
<1>6. GivenValues(L, <<>>)
    BY <1>3 DEF GivenValues
<1>7. HeapInv(Callers, L)
    BY <1>1, <1>3, <1>4, <1>5, <1>6, HeapStart
<1>8. Apart(Callers, L, Carrying, 1 .. VALUES)
  <2>1. /\ \A k \in 2 .. Len(L) : FALSE
        /\ \A t \in Callers : pc[t] \notin Carrying
      BY <1>1, <1>3 DEF Carrying
  <2>2. QED
      BY <2>1 DEF Apart
<1>9. FifoType
  <2>1. "idle" \in FifoPlaces
      BY DEF FifoPlaces
  <2>2. pc \in [Callers -> FifoPlaces] /\ item \in [Callers -> Int]
      BY <1>1, <2>1
  <2>3. \A t \in Callers : item[t] = 0
      BY <1>1
  <2>4. destroyed \in BOOLEAN
      BY <1>1
  <2>5. QED
      BY <2>2, <2>3, <2>4 DEF FifoType
<1>10. QED
    BY <1>1, <1>3, <1>7, <1>8, <1>9 DEF QueueRight

LEMMA LinkedInit == Linked!Init => LinkedInv
BY LinkedStart DEF LinkedInv

(* A step of thread x from one place to another. *)
LEMMA FifoMoves ==
    ASSUME FifoType, NEW x \in Callers, NEW there \in FifoPlaces,
           pc' = [pc EXCEPT ![x] = there]
    PROVE  /\ pc' \in [Callers -> FifoPlaces] /\ pc'[x] = there
           /\ \A t \in Callers : t # x => pc'[t] = pc[t]
BY DEF FifoType

(* A step that leaves every item, and takes nobody to Carrying. *)
LEMMA FifoKeeps ==
    ASSUME FifoType, NEW L, QueueRight(L), HeapInv(Callers, L)', SameValues(L),
           NEW x \in Callers, NEW here, NEW there \in FifoPlaces,
           pc[x] = here, pc' = [pc EXCEPT ![x] = there],
           there \in Carrying => here \in Carrying,
           there \in EmptyHand => here \in EmptyHand,
           item' = item, destroyed' = FALSE
    PROVE  LinkedInv'
<1>1. /\ pc' \in [Callers -> FifoPlaces] /\ pc'[x] = there
      /\ \A t \in Callers : t # x => pc'[t] = pc[t]
    BY FifoMoves
<1>2. FifoType'
    BY <1>1 DEF FifoType
<1>3. \A t \in Callers : pc'[t] \in Carrying => pc[t] \in Carrying /\ item'[t] = item[t]
    BY <1>1
<1>4. Apart(Callers, L, Carrying, 1 .. VALUES)'
    BY <1>3, ApartStays DEF QueueRight
<1>5. QED
    BY <1>2, <1>4 DEF LinkedInv, QueueRight

LEMMA SameNode ==
    ASSUME NEW L, node' = node
    PROVE  SameValues(L)
BY DEF SameValues

(* A step outside push and pop. *)
LEMMA FifoAside ==
    ASSUME FifoType, NEW L, QueueRight(L), NEW x \in Callers, pc[x] \notin Busy,
           NEW there \in FifoPlaces, there \notin Busy, pc' = [pc EXCEPT ![x] = there],
           NEW v \in Int, item' = [item EXCEPT ![x] = v], there \in EmptyHand => v = 0,
           there \in Carrying =>
              /\ v \in 1 .. VALUES
              /\ \A k \in 2 .. Len(L) : node[L[k]].value # v
              /\ \A t \in Callers : item[t] # v,
           node' = node, allocated' = allocated, tmp' = tmp, head' = head,
           tail' = tail, head_lock' = head_lock, tail_lock' = tail_lock,
           destroyed' = FALSE
    PROVE  LinkedInv'
<1>1. /\ pc' \in [Callers -> FifoPlaces] /\ pc'[x] = there
      /\ \A t \in Callers : t # x => pc'[t] = pc[t]
    BY FifoMoves
<1>2. /\ item' \in [Callers -> Int] /\ item'[x] = v
      /\ \A t \in Callers : t # x => item'[t] = item[t]
    BY DEF FifoType
<1>3. FifoType'
  <2>1. \A t \in Callers : pc'[t] \in EmptyHand => item'[t] = 0
      BY <1>1, <1>2 DEF FifoType
  <2>2. QED
      BY <1>1, <1>2, <2>1 DEF FifoType
<1>4. HeapInv(Callers, L)'
    BY HeapAside DEF QueueRight
<1>5. SameValues(L)
    BY SameNode
<1>6. Apart(Callers, L, Carrying, 1 .. VALUES)'
  <2>1. CASE there \in Carrying
      BY <1>1, <1>2, <1>5, <2>1, ApartGains DEF QueueRight
  <2>2. CASE there \notin Carrying
    <3>1. \A t \in Callers : pc'[t] \in Carrying => pc[t] \in Carrying /\ item'[t] = item[t]
        BY <1>1, <1>2, <2>2
    <3>2. QED
        BY <1>5, <3>1, ApartStays DEF QueueRight
  <2>3. QED
      BY <2>1, <2>2
<1>7. QED
    BY <1>3, <1>4, <1>6 DEF LinkedInv, QueueRight

LEMMA FifoCallPush ==
    ASSUME FifoType, NEW L, QueueRight(L), NEW x \in Callers, NEW v \in 1 .. VALUES,
           Linked!CallPush(x, v)
    PROVE  LinkedInv'
<1>1. /\ pc[x] = "idle" /\ pc' = [pc EXCEPT ![x] = "push_alloc"]
      /\ item' = [item EXCEPT ![x] = v] /\ v \in Int
      /\ node' = node /\ allocated' = allocated /\ tmp' = tmp /\ head' = head
      /\ tail' = tail /\ head_lock' = head_lock /\ tail_lock' = tail_lock
      /\ destroyed' = FALSE
    BY DEF Linked!CallPush, Linked!Goto, Linked!SetItem, Linked!heapVars, Linked!queueVars,
           FifoType
<1>2. \A t \in Callers : item[t] # v
    BY DEF Linked!CallPush, Linked!Fresh, Callers
<1>3. \A k \in 2 .. Len(L) : node[L[k]].value # v
  <2>1. Linked!Contents = Queued(L) /\ Len(L) \in Nat
      BY WalkHolds DEF QueueRight, HeapInv, Chain
  <2>2. \A k \in 1 .. Len(L) - 1 : node[L[k + 1]].value # v
      BY <2>1 DEF Linked!CallPush, Linked!Fresh, Queued
  <2>3. \A k \in 2 .. Len(L) : k - 1 \in 1 .. Len(L) - 1 /\ (k - 1) + 1 = k
      BY <2>1
  <2>4. QED
      BY <2>2, <2>3
<1>4. "push_alloc" \in FifoPlaces /\ "push_alloc" \notin Busy /\ "idle" \notin Busy
      /\ "push_alloc" \notin EmptyHand
    BY DEF FifoPlaces, Busy, Tailing, Heading, Handling, EmptyHand
<1>5. pc[x] \notin Busy
    BY <1>1, <1>4
<1>6. QED
    BY <1>1, <1>2, <1>3, <1>4, <1>5, FifoAside

LEMMA FifoCallPop ==
    ASSUME FifoType, NEW L, QueueRight(L), NEW x \in Callers, Linked!CallPop(x)
    PROVE  LinkedInv'
<1>1. /\ pc[x] = "idle" /\ pc' = [pc EXCEPT ![x] = "pop_lock"] /\ item' = item
      /\ node' = node /\ allocated' = allocated /\ tmp' = tmp /\ head' = head
      /\ tail' = tail /\ head_lock' = head_lock /\ tail_lock' = tail_lock
      /\ destroyed' = FALSE
    BY DEF Linked!CallPop, Linked!Goto, Linked!heapVars, Linked!queueVars, FifoType
<1>2. item' = [item EXCEPT ![x] = 0]
  <2>1. item[x] = 0
      BY <1>1 DEF FifoType, EmptyHand
  <2>2. QED
      BY <1>1, <2>1 DEF FifoType
<1>3. /\ "pop_lock" \in FifoPlaces /\ "pop_lock" \notin Busy /\ "idle" \notin Busy
      /\ "pop_lock" \notin Carrying /\ 0 \in Int
    BY DEF FifoPlaces, Busy, Tailing, Heading, Handling, Carrying
<1>4. pc[x] \notin Busy
    BY <1>1, <1>3
<1>5. QED
    BY <1>1, <1>2, <1>3, <1>4, FifoAside

LEMMA FifoPrint ==
    ASSUME FifoType, ~ destroyed, NEW L, QueueRight(L), NEW x \in Callers,
           Linked!PrintValue(x)
    PROVE  LinkedInv'
<1>1. /\ pc[x] = "print" /\ pc' = [pc EXCEPT ![x] = "idle"]
      /\ item' = [item EXCEPT ![x] = 0]
      /\ node' = node /\ allocated' = allocated /\ tmp' = tmp /\ head' = head
      /\ tail' = tail /\ head_lock' = head_lock /\ tail_lock' = tail_lock
      /\ destroyed' = FALSE
    BY DEF Linked!PrintValue, Linked!Goto, Linked!SetItem, Linked!heapVars,
           Linked!queueVars, FifoType
<1>2. /\ "idle" \in FifoPlaces /\ "idle" \notin Busy /\ "print" \notin Busy
      /\ "idle" \notin Carrying /\ 0 \in Int
    BY DEF FifoPlaces, Busy, Tailing, Heading, Handling, Carrying
<1>3. pc[x] \notin Busy
    BY <1>1, <1>2
<1>4. QED
    BY <1>1, <1>2, <1>3, FifoAside

LEMMA FifoPushLink ==
    ASSUME FifoType, ~ destroyed, NEW L, QueueRight(L), NEW x \in Callers,
           Linked!PushLink(x), destroyed' = destroyed, NEW M, M = Append(L, tmp[x])
    PROVE  FifoType' /\ QueueRight(M)'
<1>1. /\ pc[x] = "push_link" /\ pc' = [pc EXCEPT ![x] = "push_tail"]
      /\ item' = item /\ destroyed' = FALSE
    BY DEF Linked!PushLink, Linked!Goto, FifoType
<1>2. /\ "push_tail" \in FifoPlaces /\ "push_tail" \notin EmptyHand
      /\ "push_tail" \notin Carrying /\ "push_link" \in Carrying
      /\ "push_link" \in Handling
    BY DEF FifoPlaces, EmptyHand, Carrying, Handling
<1>3. /\ pc' \in [Callers -> FifoPlaces] /\ pc'[x] = "push_tail"
      /\ \A t \in Callers : t # x => pc'[t] = pc[t]
    BY <1>1, <1>2, FifoMoves
<1>4. FifoType'
    BY <1>1, <1>2, <1>3 DEF FifoType
<1>5. HeapInv(Callers, L) /\ Apart(Callers, L, Carrying, 1 .. VALUES)
    BY DEF QueueRight
<1>6. HeapInv(Callers, M)'
    BY <1>5, HeapPushLink
<1>7. PICK n : n = tmp[x]
    OBVIOUS
<1>8. n \in Nodes /\ node[n].value = item[x]
    BY <1>1, <1>2, <1>5, <1>7 DEF HeapInv, HandsRight, HeapType
<1>9. \A m \in Nodes : node'[m].value = node[m].value
    BY <1>5, LinkKeepsValues
<1>10. /\ L \in Seq(Nodes) /\ L # <<>> /\ Len(L) \in Nat
       /\ \A k \in 1 .. Len(L) : L[k] \in Nodes
    BY <1>5 DEF HeapInv, Chain
<1>11. SameValues(L)
  <2>1. \A k \in 2 .. Len(L) : k \in 1 .. Len(L)
      BY <1>10
  <2>2. QED
      BY <1>9, <1>10, <2>1 DEF SameValues
<1>12. Longer(L, M, n)
  <2>1. M = Append(L, n)
      BY <1>7
  <2>2. QED
      BY <1>8, <1>10, <2>1, ListGrows
<1>13. node'[n].value = item[x]
    BY <1>8, <1>9
<1>14. \A t \in Callers : t # x /\ pc'[t] \in Carrying => pc[t] \in Carrying /\ item'[t] = item[t]
    BY <1>1, <1>3
<1>15. pc[x] \in Carrying /\ pc'[x] \notin Carrying
    BY <1>1, <1>2, <1>3
<1>16. Apart(Callers, M, Carrying, 1 .. VALUES)'
    BY <1>5, <1>10, <1>11, <1>12, <1>13, <1>14, <1>15, ApartLinks
<1>17. QED
    BY <1>4, <1>6, <1>16 DEF QueueRight

LEMMA FifoPushUnlock ==
    ASSUME FifoType, ~ destroyed, NEW L, QueueRight(L), NEW x \in Callers,
           Linked!PushUnlock(x), destroyed' = destroyed
    PROVE  FifoType' /\ QueueRight(L)'
<1>1. /\ pc[x] = "push_unlock" /\ pc' = [pc EXCEPT ![x] = "idle"]
      /\ tail_lock' = tail_lock + 1 /\ item' = [item EXCEPT ![x] = 0]
      /\ tmp' = [tmp EXCEPT ![x] = None] /\ node' = node /\ allocated' = allocated
      /\ head' = head /\ tail' = tail /\ head_lock' = head_lock /\ destroyed' = FALSE
    BY DEF Linked!PushUnlock, Linked!Goto, Linked!SetItem, Linked!SetTmp, Linked!heapVars,
           FifoType
<1>2. /\ "idle" \in FifoPlaces /\ "idle" \notin Busy /\ "idle" \notin Carrying /\ 0 \in Int
    BY DEF FifoPlaces, Busy, Tailing, Heading, Handling, Carrying
<1>3. /\ pc' \in [Callers -> FifoPlaces] /\ pc'[x] = "idle"
      /\ \A t \in Callers : t # x => pc'[t] = pc[t]
    BY <1>1, <1>2, FifoMoves
<1>4. /\ item' \in [Callers -> Int] /\ item'[x] = 0
      /\ \A t \in Callers : t # x => item'[t] = item[t]
    BY <1>1 DEF FifoType
<1>5. FifoType'
  <2>1. \A t \in Callers : pc'[t] \in EmptyHand => item'[t] = 0
      BY <1>3, <1>4 DEF FifoType
  <2>2. QED
      BY <1>1, <1>3, <1>4, <2>1 DEF FifoType
<1>6. HeapInv(Callers, L) /\ Apart(Callers, L, Carrying, 1 .. VALUES)
    BY DEF QueueRight
<1>7. HeapInv(Callers, L)'
    BY <1>1, <1>2, <1>6, HeapPushUnlock
<1>8. \A t \in Callers : pc'[t] \in Carrying => pc[t] \in Carrying /\ item'[t] = item[t]
    BY <1>2, <1>3, <1>4
<1>9. SameValues(L)
    BY <1>1, SameNode
<1>10. Apart(Callers, L, Carrying, 1 .. VALUES)'
    BY <1>6, <1>8, <1>9, ApartStays
<1>11. QED
    BY <1>5, <1>7, <1>10 DEF QueueRight

LEMMA FifoPopTake ==
    ASSUME FifoType, ~ destroyed, NEW L, QueueRight(L), NEW x \in Callers,
           Linked!PopTake(x), destroyed' = destroyed, NEW M, M = Tail(L)
    PROVE  FifoType' /\ QueueRight(M)'
<1>1. HeapInv(Callers, L) /\ Apart(Callers, L, Carrying, 1 .. VALUES)
    BY DEF QueueRight
<1>2. /\ HeapInv(Callers, M)' /\ Len(L) > 1
      /\ item' = [item EXCEPT ![x] = node[L[2]].value]
    BY <1>1, HeapPopTake
<1>3. /\ pc[x] = "pop_take" /\ pc' = [pc EXCEPT ![x] = "pop_unlock"]
      /\ node' = node /\ destroyed' = FALSE
    BY DEF Linked!PopTake, Linked!Goto, Linked!heapVars, FifoType
<1>4. "pop_unlock" \in FifoPlaces /\ "pop_unlock" \notin EmptyHand
    BY DEF FifoPlaces, EmptyHand
<1>5. /\ pc' \in [Callers -> FifoPlaces] /\ pc'[x] = "pop_unlock"
      /\ \A t \in Callers : t # x => pc'[t] = pc[t]
    BY <1>3, <1>4, FifoMoves
<1>6. /\ item'[x] = node[L[2]].value /\ DOMAIN item' = Callers
      /\ \A t \in Callers : t # x => item'[t] = item[t]
    BY <1>2 DEF FifoType
<1>7. L \in Seq(Nodes) /\ Shorter(L, M)
  <2>1. L \in Seq(Nodes) /\ NoRepeats(L)
      BY <1>1 DEF HeapInv, Chain
  <2>2. Shorter(L, Tail(L))
      BY <1>2, <2>1, ListShrinks
  <2>3. QED
      BY <2>1, <2>2
<1>8. \A t \in Callers : t # x /\ pc'[t] \in Carrying => pc[t] \in Carrying /\ item'[t] = item[t]
    BY <1>5, <1>6
<1>9. Apart(Callers, M, Carrying, 1 .. VALUES)' /\ item'[x] \in 1 .. VALUES
  <2>1. Apart(Callers, L, Carrying, 1 .. VALUES)
      BY <1>1
  <2>2. node' = node /\ Len(L) > 1 /\ item'[x] = node[L[2]].value
      BY <1>2, <1>3, <1>6
  <2>3. QED
      BY ONLY <1>7, <1>8, <2>1, <2>2, x \in Callers, ApartTakes
<1>10. FifoType'
  <2>1. item' \in [Callers -> Int]
      BY <1>2, <1>9, <1>6 DEF FifoType
  <2>2. \A t \in Callers : pc'[t] \in EmptyHand => item'[t] = 0
      BY <1>4, <1>5, <1>6 DEF FifoType
  <2>3. QED
      BY <1>3, <1>5, <2>1, <2>2 DEF FifoType
<1>11. QED
    BY <1>2, <1>9, <1>10 DEF QueueRight

(* Only PushLink and PopTake change the list, and no other step a value in  *)
(* it.                                                                      *)
LEMMA ListStays ==
    ASSUME NEW L, HeapInv(Callers, L), NEW x \in Callers, Linked!QueueStep(x),
           pc[x] # "push_link", pc[x] # "pop_take"
    PROVE  HeapInv(Callers, L)' /\ SameValues(L)
<1>a. /\ "idle" \notin Busy /\ "print" \notin Busy /\ 0 \in Int
    BY DEF Busy, Tailing, Heading, Handling
<1>1. CASE Linked!PushAlloc(x)
    BY <1>1, HeapPushAlloc, AllocKeepsValues
<1>2. CASE Linked!PushLock(x)
  <2>1. node' = node
      BY <1>2 DEF Linked!PushLock, Linked!heapVars
  <2>2. QED
      BY <1>2, <2>1, HeapPushLock, SameNode
<1>3. CASE Linked!PushTail(x)
  <2>1. node' = node
      BY <1>3 DEF Linked!PushTail, Linked!heapVars
  <2>2. QED
      BY <1>3, <2>1, HeapPushTail, SameNode
<1>4. CASE Linked!PushUnlock(x)
  <2>1. /\ pc[x] = "push_unlock" /\ pc' = [pc EXCEPT ![x] = "idle"]
        /\ tail_lock' = tail_lock + 1 /\ item' = [item EXCEPT ![x] = 0]
        /\ tmp' = [tmp EXCEPT ![x] = None] /\ node' = node /\ allocated' = allocated
        /\ head' = head /\ tail' = tail /\ head_lock' = head_lock
      BY <1>4 DEF Linked!PushUnlock, Linked!Goto, Linked!SetItem, Linked!SetTmp,
                  Linked!heapVars
  <2>2. HeapInv(Callers, L)'
      BY <1>a, <2>1, HeapPushUnlock
  <2>3. QED
      BY <2>1, <2>2, SameNode
<1>5. CASE Linked!PopLock(x)
  <2>1. node' = node
      BY <1>5 DEF Linked!PopLock, Linked!heapVars
  <2>2. QED
      BY <1>5, <2>1, HeapPopLock, SameNode
<1>6. CASE Linked!PopRead(x)
  <2>1. node' = node
      BY <1>6 DEF Linked!PopRead, Linked!heapVars
  <2>2. QED
      BY <1>6, <2>1, HeapPopRead, SameNode
<1>7. CASE Linked!PopEmpty(x)
  <2>1. /\ pc[x] = "pop_empty" /\ pc' = [pc EXCEPT ![x] = "print"]
        /\ head_lock' = head_lock + 1 /\ tmp' = [tmp EXCEPT ![x] = None]
        /\ item' = item /\ node' = node /\ allocated' = allocated
        /\ head' = head /\ tail' = tail /\ tail_lock' = tail_lock
      BY <1>7 DEF Linked!PopEmpty, Linked!Goto, Linked!SetTmp, Linked!heapVars
  <2>2. HeapInv(Callers, L)'
      BY <1>a, <2>1, HeapPopEmpty
  <2>3. QED
      BY <2>1, <2>2, SameNode
<1>8. CASE Linked!PopUnlock(x)
  <2>1. node' = node
      BY <1>8 DEF Linked!PopUnlock, Linked!heapVars
  <2>2. QED
      BY <1>8, <2>1, HeapPopUnlock, SameNode
<1>9. CASE Linked!PopFree(x)
  <2>1. /\ pc[x] = "pop_free" /\ pc' = [pc EXCEPT ![x] = "print"]
        /\ allocated' = allocated \ {tmp[x]}
        /\ node' = [node EXCEPT ![tmp[x]] = [value |-> 0, next |-> None]]
        /\ tmp' = [tmp EXCEPT ![x] = None] /\ item' = item /\ head' = head
        /\ tail' = tail /\ head_lock' = head_lock /\ tail_lock' = tail_lock
      BY <1>9 DEF Linked!PopFree, Linked!Goto, Linked!SetTmp, Linked!queueVars,
                   Linked!Fields
  <2>2. HeapInv(Callers, L)'
      BY <1>a, <2>1, HeapPopFree
  <2>3. SameValues(L)
      BY <2>1, FreeKeepsValues
  <2>4. QED
      BY <2>2, <2>3
<1>10. ~ Linked!PushLink(x) /\ ~ Linked!PopTake(x)
    BY DEF Linked!PushLink, Linked!PopTake, Linked!Goto
<1>11. QED
    BY <1>1, <1>2, <1>3, <1>4, <1>5, <1>6, <1>7, <1>8, <1>9, <1>10 DEF Linked!QueueStep

(* The steps that leave the items too, by where they lead from and to.      *)
QuietMoves ==
    {<<"push_alloc", "push_lock">>, <<"push_lock", "push_link">>,
     <<"push_tail", "push_unlock">>, <<"pop_lock", "pop_read">>,
     <<"pop_read", "pop_empty">>, <<"pop_read", "pop_take">>,
     <<"pop_empty", "print">>, <<"pop_unlock", "pop_free">>, <<"pop_free", "print">>}

LEMMA QuietSteps ==
    ASSUME NEW x \in Callers, Linked!QueueStep(x),
           pc[x] # "push_link", pc[x] # "pop_take", pc[x] # "push_unlock"
    PROVE  /\ item' = item
           /\ \E there : /\ pc' = [pc EXCEPT ![x] = there]
                         /\ <<pc[x], there>> \in QuietMoves
<1> USE DEF Linked!Goto, QuietMoves
<1>1. CASE Linked!PushAlloc(x)
    BY <1>1 DEF Linked!PushAlloc
<1>2. CASE Linked!PushLock(x)
    BY <1>2 DEF Linked!PushLock
<1>3. CASE Linked!PushTail(x)
    BY <1>3 DEF Linked!PushTail
<1>4. CASE Linked!PopLock(x)
    BY <1>4 DEF Linked!PopLock
<1>5. CASE Linked!PopRead(x)
    BY <1>5 DEF Linked!PopRead
<1>6. CASE Linked!PopEmpty(x)
    BY <1>6 DEF Linked!PopEmpty
<1>7. CASE Linked!PopUnlock(x)
    BY <1>7 DEF Linked!PopUnlock
<1>8. CASE Linked!PopFree(x)
    BY <1>8 DEF Linked!PopFree
<1>9. ~ Linked!PushLink(x) /\ ~ Linked!PopTake(x) /\ ~ Linked!PushUnlock(x)
    BY DEF Linked!PushLink, Linked!PopTake, Linked!PushUnlock
<1>10. QED
    BY <1>1, <1>2, <1>3, <1>4, <1>5, <1>6, <1>7, <1>8, <1>9 DEF Linked!QueueStep

(* The others, by where the thread is. *)
LEMMA LoudSteps ==
    ASSUME NEW x \in Callers, Linked!QueueStep(x)
    PROVE  /\ pc[x] = "push_link" => Linked!PushLink(x)
           /\ pc[x] = "pop_take" => Linked!PopTake(x)
           /\ pc[x] = "push_unlock" => Linked!PushUnlock(x)
BY DEF Linked!QueueStep, Linked!Goto, Linked!PushAlloc, Linked!PushLock, Linked!PushLink,
       Linked!PushTail, Linked!PushUnlock, Linked!PopLock, Linked!PopRead, Linked!PopEmpty,
       Linked!PopTake, Linked!PopUnlock, Linked!PopFree

LEMMA FifoWork ==
    ASSUME FifoType, ~ destroyed, NEW L, QueueRight(L), NEW x \in Callers,
           Linked!QueueStep(x), destroyed' = destroyed
    PROVE  LinkedInv'
<1>1. HeapInv(Callers, L) /\ destroyed' = FALSE
    BY DEF QueueRight, FifoType
<1>2. ASSUME NEW M, FifoType', QueueRight(M)' PROVE LinkedInv'
    BY <1>1, <1>2 DEF LinkedInv
<1>3. CASE pc[x] = "push_link"
    BY <1>2, <1>3, LoudSteps, FifoPushLink
<1>4. CASE pc[x] = "pop_take"
    BY <1>2, <1>4, LoudSteps, FifoPopTake
<1>5. CASE pc[x] = "push_unlock"
    BY <1>2, <1>5, LoudSteps, FifoPushUnlock
<1>6. CASE pc[x] # "push_link" /\ pc[x] # "pop_take" /\ pc[x] # "push_unlock"
  <2>1. HeapInv(Callers, L)' /\ SameValues(L) /\ item' = item
      BY <1>1, <1>6, ListStays, QuietSteps
  <2>2. PICK here, there : /\ pc[x] = here /\ pc' = [pc EXCEPT ![x] = there]
                           /\ <<here, there>> \in QuietMoves
      BY <1>6, QuietSteps
  <2>3. there \in FifoPlaces
      BY <2>2 DEF FifoPlaces, QuietMoves
  <2>4. there \in Carrying => here \in Carrying
      BY <2>2 DEF Carrying, QuietMoves
  <2>5. there \in EmptyHand => here \in EmptyHand
      BY <2>2 DEF EmptyHand, QuietMoves
  <2>6. QED
      BY <1>1, <2>1, <2>2, <2>3, <2>4, <2>5, FifoKeeps
<1>7. QED
    BY <1>3, <1>4, <1>5, <1>6


LEMMA FifoCleanUp ==
    ASSUME FifoType, NEW L, QueueRight(L), Linked!CleanUp
    PROVE  LinkedInv'
<1>1. /\ \A t \in Callers : pc[t] = "idle"
      /\ Linked!Contents = <<>> /\ destroyed' = TRUE /\ pc' = pc /\ item' = item
      /\ allocated' = allocated \ {head}
    BY DEF Linked!CleanUp, Linked!Cleanup, Callers
<1>2. L \in Seq(Nodes) /\ L # <<>> /\ L[1] = head /\ Linked!Contents = Queued(L)
    BY WalkHolds DEF QueueRight, HeapInv, Chain
<1>3. Len(L) = 1
  <2>1. Len(L) \in Nat \ {0}
      BY <1>2, ListEnds
  <2>2. DOMAIN Queued(L) = 1 .. Len(L) - 1 /\ DOMAIN <<>> = {}
      BY DEF Queued
  <2>3. \A k \in 1 .. Len(L) - 1 : FALSE
      BY <1>1, <1>2, <2>2
  <2>4. Len(L) = 1 \/ Len(L) > 1
      BY ONLY <2>1, OneOrMore
  <2>5. QED
      BY <2>1, <2>3, <2>4
<1>4. InList(L) = {head}
    BY <1>2, <1>3 DEF InList
<1>5. \A t \in Callers : pc[t] \notin Handling
    BY <1>1 DEF Handling
<1>6. \A n \in allocated : n \in InList(L)
    BY <1>5 DEF QueueRight, HeapInv, HandsRight
<1>7. allocated' = {}
    BY <1>1, <1>4, <1>6
<1>8. FifoType'
    BY <1>1 DEF FifoType
<1>9. QED
    BY <1>1, <1>7, <1>8 DEF LinkedInv

LEMMA LinkedNext == LinkedInv /\ Linked!Next => LinkedInv'
<1> SUFFICES ASSUME LinkedInv, Linked!Next PROVE LinkedInv'
    OBVIOUS
<1>1. FifoType
    BY DEF LinkedInv
<1>2. CASE destroyed
  <2>1. allocated = {} /\ \A t \in Callers : pc[t] = "idle"
      BY <1>2 DEF LinkedInv
  <2>2. ASSUME NEW x \in Callers PROVE ~ Linked!Work(x) /\ ~ Linked!PrintValue(x)
    <3>1. pc[x] = "idle"
        BY <2>1
    <3>2. QED
        BY <3>1
        DEF Linked!Work, Linked!PrintValue, Linked!QueueStep, Linked!Goto, Linked!PushAlloc,
            Linked!PushLock, Linked!PushLink, Linked!PushTail, Linked!PushUnlock,
            Linked!PopLock, Linked!PopRead, Linked!PopEmpty, Linked!PopTake,
            Linked!PopUnlock, Linked!PopFree
  <2>3. Linked!Terminated
      BY <1>2, <2>2 DEF Linked!Next, Linked!CallPush, Linked!CallPop, Linked!CleanUp, Callers
  <2>4. /\ destroyed' = destroyed /\ allocated' = allocated /\ pc' = pc /\ item' = item
      BY <2>3 DEF Linked!Terminated, Linked!vars, Linked!twoLockVars, Linked!heapVars
  <2>5. FifoType'
      BY <1>1, <2>4 DEF FifoType
  <2>6. QED
      BY <1>2, <2>1, <2>4, <2>5 DEF LinkedInv
<1>3. CASE ~ destroyed
  <2>1. PICK L : QueueRight(L)
      BY <1>3 DEF LinkedInv
  <2>2. ASSUME NEW x \in Callers, NEW v \in 1 .. VALUES, Linked!CallPush(x, v)
        PROVE  LinkedInv'
      BY <1>1, <2>1, <2>2, FifoCallPush
  <2>3. ASSUME NEW x \in Callers, Linked!CallPop(x)
        PROVE  LinkedInv'
      BY <1>1, <2>1, <2>3, FifoCallPop
  <2>4. ASSUME NEW x \in Callers, Linked!PrintValue(x)
        PROVE  LinkedInv'
      BY <1>1, <1>3, <2>1, <2>4, FifoPrint
  <2>5. ASSUME NEW x \in Callers, Linked!Work(x)
        PROVE  LinkedInv'
    <3>1. Linked!QueueStep(x) /\ destroyed' = destroyed
        BY <2>5 DEF Linked!Work
    <3>2. QED
        BY <1>1, <1>3, <2>1, <3>1, FifoWork
  <2>6. CASE Linked!CleanUp
      BY <1>1, <2>1, <2>6, FifoCleanUp
  <2>7. CASE Linked!Terminated
      BY <1>3, <2>7 DEF Linked!Terminated
  <2>8. QED
      BY <2>2, <2>3, <2>4, <2>5, <2>6, <2>7 DEF Linked!Next, Callers
<1>4. QED
    BY <1>2, <1>3

LEMMA LinkedStutter == LinkedInv /\ UNCHANGED <<linkedVars, destroyed, pc>> => LinkedInv'
<1> SUFFICES ASSUME LinkedInv, UNCHANGED <<linkedVars, destroyed, pc>> PROVE LinkedInv'
    OBVIOUS
<1>1. /\ node' = node /\ allocated' = allocated /\ head' = head /\ tail' = tail
      /\ head_lock' = head_lock /\ tail_lock' = tail_lock /\ item' = item /\ tmp' = tmp
      /\ destroyed' = destroyed /\ pc' = pc
    BY DEF linkedVars
<1>2. FifoType'
    BY <1>1 DEF LinkedInv, FifoType
<1>3. \A L : QueueRight(L) => QueueRight(L)'
    BY <1>1 DEF QueueRight, HeapInv, HeapType, HeapLocked, Chain, TailRight, HandsRight, Apart
<1>4. QED
    BY <1>1, <1>2, <1>3 DEF LinkedInv

LEMMA LinkedHeapSafe == LinkedInv => Linked!HeapSafe
<1> SUFFICES ASSUME LinkedInv PROVE Linked!HeapSafe
    OBVIOUS
<1>1. CASE destroyed
    BY <1>1 DEF LinkedInv, Linked!HeapSafe
<1>2. CASE ~ destroyed
  <2>1. PICK L : QueueRight(L)
      BY <1>2 DEF LinkedInv
  <2>2. Linked!NoUseAfterFree /\ Linked!NoNodeLost
      BY <2>1, LinkedIsSafe DEF QueueRight, Callers
  <2>3. QED
      BY <1>2, <2>2 DEF Linked!HeapSafe
<1>3. QED
    BY <1>1, <1>2

-----------------------------------------------------------------------------
(* token.c *)

Seats        == 1 .. CLIENTS
Tks          == 0 .. NO_OF_TOKENS - 1
TakingPlaces == {"pop_lock", "pop_read", "pop_take"}
GivingPlaces == {"push_tail", "push_unlock", "post_available"}
OutPlaces    == {"return", "push_alloc", "push_lock", "push_link", "push_tail",
                 "push_unlock", "post_available", "give_signal"}
Bringing     == {"push_alloc", "push_lock", "push_link", "pop_unlock", "pop_free", "assign"}
Assigned      == {"enter", "return"}
TokenPlaces  == {"get", "enter", "pop_unlock", "pop_free", "assign", "done"}
                  \union TakingPlaces \union OutPlaces

AtPlaces(P) == {y \in Seats : pc[y] \in P}

(* The tokens in the queue, on their way to it, or just out of it. *)
Spread(L) ==
    {node[L[k]].value : k \in 2 .. Len(L)} \union {item[y] : y \in AtPlaces(Bringing)}

OutOf(k) == {y \in Seats : pc[y] \in OutPlaces /\ token_id[y] = k}

TokenType ==
    /\ pc \in [Seats -> TokenPlaces] /\ main \in {"join", "done"}
    /\ item \in [Seats -> Int] /\ token_id \in [Seats -> Int]
    /\ tokens_available \in Nat /\ sem_arr \in [Tks -> Nat] /\ DOMAIN ct_assns = Tks

(* A token is in the queue, with a thread that brings it there or takes it  *)
(* out, or with the client it is assigned to.                               *)
HeldRight(L) ==
    \A y \in Seats : pc[y] \in Assigned =>
        token_id[y] \in Tks /\ ct_assns[token_id[y]] = y /\ token_id[y] \notin Spread(L)

(* tokens_available is never ahead of the list: it counts what is in the    *)
(* list and neither claimed by a pop nor yet to be announced.               *)
Available(L) ==
    tokens_available + Cardinality(AtPlaces(TakingPlaces))
                     + Cardinality(AtPlaces(GivingPlaces)) = Len(L) - 1

(* The semaphore of a token and the clients on their way out with it. *)
SignalRight ==
    /\ \A y \in Seats : pc[y] \in OutPlaces => token_id[y] \in Tks
    /\ \A k \in Tks : sem_arr[k] + Cardinality(OutOf(k)) = 1

TokensRight(L) ==
    /\ HeapInv(Seats, L) /\ Apart(Seats, L, Bringing, Tks)
    /\ HeldRight(L) /\ Available(L)

TokenInv ==
    /\ TokenType
    /\ IF main = "join" THEN SignalRight /\ \E L : TokensRight(L)
       ELSE \A y \in Seats : pc[y] = "done"

LEMMA SeatsFinite ==
    /\ IsFiniteSet(Seats) /\ NO_OF_TOKENS \in Nat \ {0}
    /\ \A S \in SUBSET Seats : IsFiniteSet(S) /\ Cardinality(S) \in Nat
<1>1. IsFiniteSet(Seats)
    BY Sizes, FS_Interval DEF Seats
<1>2. QED
    BY <1>1, FS_Subset, FS_CardinalityType, DemosAssumption DEF Token!TokenAssumption

(* Client x goes from one place to another: how many are at P. *)
LEMMA ComesTo ==
    ASSUME DOMAIN pc = Seats, NEW x \in Seats, NEW here, NEW there, pc[x] = here,
           pc' = [pc EXCEPT ![x] = there], NEW P, here \notin P, there \in P
    PROVE  /\ Cardinality(AtPlaces(P)') = Cardinality(AtPlaces(P)) + 1
           /\ Cardinality(AtPlaces(P)) \in Nat
<1>1. IsFiniteSet(AtPlaces(P))
    BY SeatsFinite DEF AtPlaces
<1>2. \A y \in Seats : pc'[y] = IF y = x THEN there ELSE pc[y]
    OBVIOUS
<1>3. x \notin AtPlaces(P) /\ AtPlaces(P)' = AtPlaces(P) \union {x}
    BY <1>2 DEF AtPlaces
<1>4. QED
    BY <1>1, <1>3, OneMore

LEMMA GoesFrom ==
    ASSUME DOMAIN pc = Seats, NEW x \in Seats, NEW here, NEW there, pc[x] = here,
           pc' = [pc EXCEPT ![x] = there], NEW P, here \in P, there \notin P
    PROVE  /\ Cardinality(AtPlaces(P)') = Cardinality(AtPlaces(P)) - 1
           /\ Cardinality(AtPlaces(P)) \in Nat
<1>1. IsFiniteSet(AtPlaces(P))
    BY SeatsFinite DEF AtPlaces
<1>2. \A y \in Seats : pc'[y] = IF y = x THEN there ELSE pc[y]
    OBVIOUS
<1>3. x \in AtPlaces(P) /\ AtPlaces(P)' = AtPlaces(P) \ {x}
    BY <1>2 DEF AtPlaces
<1>4. QED
    BY <1>1, <1>3, OneLess

LEMMA PassesBy ==
    ASSUME DOMAIN pc = Seats, NEW x \in Seats, NEW here, NEW there, pc[x] = here,
           pc' = [pc EXCEPT ![x] = there], NEW P, here \in P <=> there \in P
    PROVE  /\ Cardinality(AtPlaces(P)') = Cardinality(AtPlaces(P))
           /\ Cardinality(AtPlaces(P)) \in Nat
<1>1. \A y \in Seats : pc'[y] = IF y = x THEN there ELSE pc[y]
    OBVIOUS
<1>2. AtPlaces(P)' = AtPlaces(P) /\ AtPlaces(P) \in SUBSET Seats
    BY <1>1 DEF AtPlaces
<1>3. QED
    BY <1>2, SeatsFinite

LEMMA HeldStays ==
    ASSUME NEW L, HeldRight(L), NEW M, Spread(M)' \subseteq Spread(L),
           token_id' = token_id, ct_assns' = ct_assns,
           \A y \in Seats : pc'[y] \in Assigned => pc[y] \in Assigned
    PROVE  HeldRight(M)'
BY DEF HeldRight

LEMMA SignalStays ==
    ASSUME SignalRight, token_id' = token_id, sem_arr' = sem_arr,
           \A y \in Seats : pc'[y] \in OutPlaces <=> pc[y] \in OutPlaces
    PROVE  SignalRight'
<1>1. \A k \in Tks : OutOf(k)' = OutOf(k)
    BY DEF OutOf
<1>2. QED
    BY <1>1 DEF SignalRight

LEMMA SpreadStays ==
    ASSUME NEW L, SameValues(L),
           \A y \in Seats : pc'[y] \in Bringing => pc[y] \in Bringing /\ item'[y] = item[y]
    PROVE  Spread(L)' \subseteq Spread(L)
<1>1. \A y \in AtPlaces(Bringing)' : y \in AtPlaces(Bringing) /\ item'[y] = item[y]
    BY DEF AtPlaces
<1>2. \A k \in 2 .. Len(L) : node'[L[k]].value = node[L[k]].value
    BY DEF SameValues
<1>3. QED
    BY <1>1, <1>2 DEF Spread

LEMMA TokenInit == Token!Init => TokenInv
<1> SUFFICES ASSUME Token!Init PROVE TokenInv
    OBVIOUS
<1> USE SeatsFinite
<1>1. /\ pc = [y \in Seats |-> "get"] /\ item = [y \in Seats |-> -1]
      /\ tmp = [y \in Seats |-> None] /\ tokens_available = NO_OF_TOKENS
      /\ sem_arr = [k \in Tks |-> 1] /\ ct_assns = [k \in Tks |-> -1]
      /\ token_id = [y \in Seats |-> -1] /\ main = "join"
    BY DEF Token!Init, Token!Clients, Token!Tokens, Seats, Tks
<1> DEFINE vals == [k \in 1 .. NO_OF_TOKENS |-> k - 1]
<1>2. PICK L \in [1 .. NO_OF_TOKENS + 1 -> Nodes] :
          /\ \A j, k \in DOMAIN L : L[j] = L[k] => j = k
          /\ Token!QueueHolds(L, vals)
    BY DEF Token!Init, Token!TokenQueueInit
<1>3. /\ L \in Seq(Nodes) /\ L # <<>> /\ Len(L) = NO_OF_TOKENS + 1
      /\ DOMAIN L = 1 .. NO_OF_TOKENS + 1 /\ NoRepeats(L)
  <2>1. L \in Seq(Nodes) /\ Len(L) = NO_OF_TOKENS + 1 /\ DOMAIN L = 1 .. NO_OF_TOKENS + 1
      BY <1>2
  <2>2. L # <<>>
      BY <2>1
  <2>3. QED
      BY <1>2, <2>1, <2>2 DEF NoRepeats
<1>4. /\ allocated = {L[k] : k \in DOMAIN L} /\ node = StartHeap(L, vals, -1)
      /\ head = L[1] /\ tail = L[Len(L)] /\ head_lock = 1 /\ tail_lock = 1
    BY <1>2 DEF Token!QueueHolds, Token!Fields, StartHeap, StartValue, StartNext
<1>5. "get" \notin Busy /\ -1 \in Int
    BY DEF Busy, Tailing, Heading, Handling
<1>6. \A k \in 1 .. Len(L) - 1 : vals[k] = k - 1 /\ vals[k] \in Int
    BY <1>3
<1> HIDE DEF vals
<1>7. HeapInv(Seats, L) /\ \A k \in 1 .. Len(L) - 1 : node[L[k + 1]].value = vals[k]
  <2>1. PICK nv \in Int : nv = -1
      OBVIOUS
  <2>2. /\ item = [y \in Seats |-> nv] /\ tmp = [y \in Seats |-> None]
        /\ node = StartHeap(L, vals, nv) /\ pc = [y \in Seats |-> "get"]
        /\ GivenValues(L, vals)
      BY <1>1, <1>4, <1>6, <2>1 DEF GivenValues
  <2>3. HeapInv(Seats, L) /\ StartsWith(L, vals)
      BY ONLY <1>3, <1>4, <1>5, <2>2, nv \in Int, HeapStart
  <2>4. QED
      BY <2>3 DEF StartsWith
<1>8. \A k \in 2 .. Len(L) : node[L[k]].value = k - 2 /\ k - 2 \in Tks
  <2> TAKE k \in 2 .. Len(L)
  <2>1. k - 1 \in 1 .. Len(L) - 1 /\ (k - 1) + 1 = k /\ (k - 1) - 1 = k - 2 /\ k - 2 \in Tks
      BY <1>3 DEF Tks
  <2>2. QED
      BY <1>6, <1>7, <2>1
<1>9. \A y \in Seats : /\ pc[y] \notin Bringing /\ pc[y] \notin Assigned
                       /\ pc[y] \notin OutPlaces /\ pc[y] \notin TakingPlaces
                       /\ pc[y] \notin GivingPlaces
    BY <1>1 DEF Bringing, Assigned, OutPlaces, TakingPlaces, GivingPlaces
<1>10. Apart(Seats, L, Bringing, Tks)
  <2>1. \A j, k \in 2 .. Len(L) : node[L[j]].value = node[L[k]].value => j = k
    <3>1. \A j, k \in 2 .. Len(L) : j - 2 = k - 2 => j = k
        OBVIOUS
    <3>2. QED
        BY <1>8, <3>1
  <2>2. QED
      BY <1>8, <1>9, <2>1 DEF Apart
<1>11. HeldRight(L)
    BY <1>9 DEF HeldRight
<1>12. Available(L)
  <2>1. AtPlaces(TakingPlaces) = {} /\ AtPlaces(GivingPlaces) = {}
      BY <1>9 DEF AtPlaces
  <2>2. QED
      BY <1>1, <1>3, <2>1, FS_EmptySet DEF Available
<1>13. SignalRight
  <2>1. \A k \in Tks : OutOf(k) = {} /\ sem_arr[k] = 1
      BY <1>1, <1>9 DEF OutOf
  <2>2. QED
      BY <1>9, <2>1, FS_EmptySet DEF SignalRight
<1>14. TokenType
  <2>1. "get" \in TokenPlaces
      BY DEF TokenPlaces
  <2>2. QED
      BY <1>1, <2>1 DEF TokenType
<1>15. QED
    BY <1>1, <1>7, <1>10, <1>11, <1>12, <1>13, <1>14 DEF TokenInv, TokensRight

LEMMA TokenMoves ==
    ASSUME TokenType, NEW x \in Seats, NEW there \in TokenPlaces,
           pc' = [pc EXCEPT ![x] = there]
    PROVE  /\ pc' \in [Seats -> TokenPlaces] /\ pc'[x] = there
           /\ \A y \in Seats : y # x => pc'[y] = pc[y]
           /\ DOMAIN pc = Seats
BY DEF TokenType

(* A step that only goes on in a call: what it may change are x's place,    *)
(* x's item when x brings nothing, the heap and tokens_available.           *)
LEMMA TokenGoesOn ==
    ASSUME TokenType, main = "join", SignalRight, NEW L, TokensRight(L),
           NEW x \in Seats, NEW here, NEW there \in TokenPlaces,
           pc[x] = here, pc' = [pc EXCEPT ![x] = there],
           there \in Bringing => here \in Bringing /\ item'[x] = item[x],
           there \in Assigned => here \in Assigned,
           there \in OutPlaces <=> here \in OutPlaces,
           item' \in [Seats -> Int], \A y \in Seats : y # x => item'[y] = item[y],
           HeapInv(Seats, L)', SameValues(L),
           tokens_available' \in Nat, Available(L)',
           sem_arr' = sem_arr, ct_assns' = ct_assns, token_id' = token_id, main' = main
    PROVE  TokenInv'
<1>1. /\ pc' \in [Seats -> TokenPlaces] /\ pc'[x] = there
      /\ \A y \in Seats : y # x => pc'[y] = pc[y]
    BY TokenMoves
<1>2. TokenType'
    BY <1>1 DEF TokenType
<1>3. \A y \in Seats : pc'[y] \in Bringing => pc[y] \in Bringing /\ item'[y] = item[y]
    BY <1>1
<1>4. \A y \in Seats : /\ pc'[y] \in Assigned => pc[y] \in Assigned
                       /\ pc'[y] \in OutPlaces <=> pc[y] \in OutPlaces
    BY <1>1
<1>5. Apart(Seats, L, Bringing, Tks)'
    BY <1>3, ApartStays DEF TokensRight
<1>6. HeldRight(L)'
  <2>1. Spread(L)' \subseteq Spread(L)
      BY <1>3, SpreadStays
  <2>2. HeldRight(L)
      BY DEF TokensRight
  <2>3. QED
      BY <1>4, <2>1, <2>2, HeldStays
<1>7. SignalRight'
    BY <1>4, SignalStays
<1>8. QED
    BY <1>2, <1>5, <1>6, <1>7 DEF TokenInv, TokensRight

(* The same without a change of what is available. *)
LEMMA TokenKeeps ==
    ASSUME TokenType, main = "join", SignalRight, NEW L, TokensRight(L),
           NEW x \in Seats, NEW here, NEW there \in TokenPlaces,
           pc[x] = here, pc' = [pc EXCEPT ![x] = there],
           there \in Bringing => here \in Bringing /\ item'[x] = item[x],
           there \in Assigned => here \in Assigned,
           there \in OutPlaces <=> here \in OutPlaces,
           there \in TakingPlaces <=> here \in TakingPlaces,
           there \in GivingPlaces <=> here \in GivingPlaces,
           item' \in [Seats -> Int], \A y \in Seats : y # x => item'[y] = item[y],
           HeapInv(Seats, L)', SameValues(L), UNCHANGED <<tokenVars, main>>
    PROVE  TokenInv'
<1>1. /\ tokens_available' = tokens_available /\ sem_arr' = sem_arr
      /\ ct_assns' = ct_assns /\ token_id' = token_id /\ main' = main
    BY DEF tokenVars
<1>2. tokens_available' \in Nat
    BY <1>1 DEF TokenType
<1>3. /\ Cardinality(AtPlaces(TakingPlaces)') = Cardinality(AtPlaces(TakingPlaces))
      /\ Cardinality(AtPlaces(GivingPlaces)') = Cardinality(AtPlaces(GivingPlaces))
  <2>1. \A y \in Seats : pc'[y] = IF y = x THEN there ELSE pc[y]
      BY DEF TokenType
  <2>2. AtPlaces(TakingPlaces)' = AtPlaces(TakingPlaces)
      BY <2>1 DEF AtPlaces
  <2>3. AtPlaces(GivingPlaces)' = AtPlaces(GivingPlaces)
      BY <2>1 DEF AtPlaces
  <2>4. QED
      BY <2>2, <2>3
<1>4. Available(L)'
    BY <1>1, <1>3 DEF Available, TokensRight
<1>5. QED
    BY <1>1, <1>2, <1>4, TokenGoesOn

(* A step of the caller. *)
LEMMA AvailableStays ==
    ASSUME TokenType, NEW L, Available(L), NEW x \in Seats, NEW here, NEW there,
           pc[x] = here, pc' = [pc EXCEPT ![x] = there],
           here \notin TakingPlaces, there \notin TakingPlaces,
           here \notin GivingPlaces, there \notin GivingPlaces,
           tokens_available' = tokens_available
    PROVE  Available(L)'
<1>1. \A y \in Seats : pc'[y] = IF y = x THEN there ELSE pc[y]
    BY DEF TokenType
<1>2. AtPlaces(TakingPlaces)' = AtPlaces(TakingPlaces)
    BY <1>1 DEF AtPlaces
<1>3. AtPlaces(GivingPlaces)' = AtPlaces(GivingPlaces)
    BY <1>1 DEF AtPlaces
<1>4. QED
    BY <1>2, <1>3 DEF Available

(* token.c has the queue's code once more. *)
LEMMA SameQueue ==
    ASSUME NEW x
    PROVE  /\ Token!PushAlloc(x) => Linked!PushAlloc(x)
           /\ Token!PushLock(x) => Linked!PushLock(x)
           /\ Token!PushLink(x) => Linked!PushLink(x)
           /\ Token!PushTail(x) => Linked!PushTail(x)
           /\ Token!PopLock(x) => Linked!PopLock(x)
           /\ Token!PopRead(x) => Linked!PopRead(x)
           /\ Token!PopTake(x) => Linked!PopTake(x)
           /\ Token!PopUnlock(x) => Linked!PopUnlock(x)
<1>1. Token!PushAlloc(x) => Linked!PushAlloc(x)
    BY DEF Token!PushAlloc, Linked!PushAlloc, Token!Goto, Linked!Goto, Token!Fields,
           Linked!Fields, Token!SetTmp, Linked!SetTmp, Token!queueVars, Linked!queueVars
<1>2. Token!PushLock(x) => Linked!PushLock(x)
    BY DEF Token!PushLock, Linked!PushLock, Token!Goto, Linked!Goto, Token!heapVars,
           Linked!heapVars
<1>3. Token!PushLink(x) => Linked!PushLink(x)
    BY DEF Token!PushLink, Linked!PushLink, Token!Goto, Linked!Goto, Token!queueVars,
           Linked!queueVars
<1>4. Token!PushTail(x) => Linked!PushTail(x)
    BY DEF Token!PushTail, Linked!PushTail, Token!Goto, Linked!Goto, Token!heapVars,
           Linked!heapVars
<1>5. Token!PopLock(x) => Linked!PopLock(x)
    BY DEF Token!PopLock, Linked!PopLock, Token!Goto, Linked!Goto, Token!heapVars,
           Linked!heapVars
<1>6. Token!PopRead(x) => Linked!PopRead(x)
    BY DEF Token!PopRead, Linked!PopRead, Token!Goto, Linked!Goto, Token!heapVars,
           Linked!heapVars, Token!queueVars, Linked!queueVars, Token!SetTmp, Linked!SetTmp
<1>7. Token!PopTake(x) => Linked!PopTake(x)
    BY DEF Token!PopTake, Linked!PopTake, Token!Goto, Linked!Goto, Token!heapVars,
           Linked!heapVars, Token!SetItem, Linked!SetItem
<1>8. Token!PopUnlock(x) => Linked!PopUnlock(x)
    BY DEF Token!PopUnlock, Linked!PopUnlock, Token!Goto, Linked!Goto, Token!heapVars,
           Linked!heapVars
<1>9. QED
    BY <1>1, <1>2, <1>3, <1>4, <1>5, <1>6, <1>7, <1>8

(* mt_token_get: what is claimed is there. *)
LEMMA TokenGet ==
    ASSUME TokenType, main = "join", SignalRight, NEW L, TokensRight(L),
           NEW x \in Seats, Token!GetTokenWait(x)
    PROVE  TokenInv'
<1>1. /\ tokens_available > 0 /\ tokens_available' = tokens_available - 1
      /\ pc[x] = "get" /\ pc' = [pc EXCEPT ![x] = "pop_lock"] /\ item' = item
      /\ node' = node /\ allocated' = allocated /\ tmp' = tmp /\ head' = head
      /\ tail' = tail /\ head_lock' = head_lock /\ tail_lock' = tail_lock
      /\ sem_arr' = sem_arr /\ ct_assns' = ct_assns /\ token_id' = token_id /\ main' = main
    BY DEF Token!GetTokenWait, Token!Goto, Token!heapVars, Token!queueVars
<1>2. /\ "pop_lock" \in TokenPlaces /\ "pop_lock" \notin Busy /\ "get" \notin Busy
      /\ "pop_lock" \notin Bringing /\ "pop_lock" \notin Assigned
      /\ "pop_lock" \notin OutPlaces /\ "get" \notin OutPlaces
      /\ "pop_lock" \in TakingPlaces /\ "get" \notin TakingPlaces
      /\ "pop_lock" \notin GivingPlaces /\ "get" \notin GivingPlaces
    BY DEF TokenPlaces, Busy, Tailing, Heading, Handling, Bringing, Assigned, OutPlaces,
           TakingPlaces, GivingPlaces
<1>3. item[x] \in Int /\ item' = [item EXCEPT ![x] = item[x]] /\ item' \in [Seats -> Int]
    BY <1>1 DEF TokenType
<1>4. HeapInv(Seats, L)'
  <2>1. pc[x] \notin Busy /\ HeapInv(Seats, L)
      BY <1>1, <1>2 DEF TokensRight
  <2>2. QED
      BY <1>1, <1>2, <1>3, <2>1, HeapAside
<1>5. SameValues(L)
    BY <1>1, SameNode
<1>6. tokens_available' \in Nat /\ tokens_available \in Nat
    BY <1>1 DEF TokenType
<1>7. Available(L)'
  <2>1. DOMAIN pc = Seats
      BY <1>1, <1>2, TokenMoves
  <2>2. /\ Cardinality(AtPlaces(TakingPlaces)') = Cardinality(AtPlaces(TakingPlaces)) + 1
        /\ Cardinality(AtPlaces(TakingPlaces)) \in Nat
      BY <1>1, <1>2, <2>1, ComesTo
  <2>3. /\ Cardinality(AtPlaces(GivingPlaces)') = Cardinality(AtPlaces(GivingPlaces))
        /\ Cardinality(AtPlaces(GivingPlaces)) \in Nat
      BY <1>1, <1>2, <2>1, PassesBy
  <2>4. QED
      BY <1>1, <1>6, <2>2, <2>3 DEF Available, TokensRight
<1>8. QED
    BY <1>1, <1>2, <1>3, <1>4, <1>5, <1>6, <1>7, TokenGoesOn

LEMMA TokenPost ==
    ASSUME TokenType, main = "join", SignalRight, NEW L, TokensRight(L),
           NEW x \in Seats, Token!PostAvailable(x)
    PROVE  TokenInv'
<1>1. /\ tokens_available' = tokens_available + 1
      /\ pc[x] = "post_available" /\ pc' = [pc EXCEPT ![x] = "give_signal"] /\ item' = item
      /\ node' = node /\ allocated' = allocated /\ tmp' = tmp /\ head' = head
      /\ tail' = tail /\ head_lock' = head_lock /\ tail_lock' = tail_lock
      /\ sem_arr' = sem_arr /\ ct_assns' = ct_assns /\ token_id' = token_id /\ main' = main
    BY DEF Token!PostAvailable, Token!Goto, Token!heapVars, Token!queueVars
<1>2. /\ "give_signal" \in TokenPlaces /\ "give_signal" \notin Busy
      /\ "post_available" \notin Busy
      /\ "give_signal" \notin Bringing /\ "give_signal" \notin Assigned
      /\ "give_signal" \in OutPlaces /\ "post_available" \in OutPlaces
      /\ "give_signal" \notin TakingPlaces /\ "post_available" \notin TakingPlaces
      /\ "give_signal" \notin GivingPlaces /\ "post_available" \in GivingPlaces
    BY DEF TokenPlaces, Busy, Tailing, Heading, Handling, Bringing, Assigned, OutPlaces,
           TakingPlaces, GivingPlaces
<1>3. item[x] \in Int /\ item' = [item EXCEPT ![x] = item[x]] /\ item' \in [Seats -> Int]
    BY <1>1 DEF TokenType
<1>4. HeapInv(Seats, L)'
  <2>1. pc[x] \notin Busy /\ HeapInv(Seats, L)
      BY <1>1, <1>2 DEF TokensRight
  <2>2. QED
      BY <1>1, <1>2, <1>3, <2>1, HeapAside
<1>5. SameValues(L)
    BY <1>1, SameNode
<1>6. tokens_available' \in Nat /\ tokens_available \in Nat
    BY <1>1 DEF TokenType
<1>7. Available(L)'
  <2>1. DOMAIN pc = Seats
      BY <1>1, <1>2, TokenMoves
  <2>2. /\ Cardinality(AtPlaces(TakingPlaces)') = Cardinality(AtPlaces(TakingPlaces))
        /\ Cardinality(AtPlaces(TakingPlaces)) \in Nat
      BY <1>1, <1>2, <2>1, PassesBy
  <2>3. /\ Cardinality(AtPlaces(GivingPlaces)') = Cardinality(AtPlaces(GivingPlaces)) - 1
        /\ Cardinality(AtPlaces(GivingPlaces)) \in Nat
      BY <1>1, <1>2, <2>1, GoesFrom
  <2>4. QED
      BY <1>1, <1>6, <2>2, <2>3 DEF Available, TokensRight
<1>8. QED
    BY <1>1, <1>2, <1>3, <1>4, <1>5, <1>6, <1>7, TokenGoesOn

(* The client has the token it took out of the queue. *)
LEMMA TokenAssign ==
    ASSUME TokenType, main = "join", SignalRight, NEW L, TokensRight(L),
           NEW x \in Seats, Token!AssignToken(x)
    PROVE  TokenInv'
<1>1. /\ pc[x] = "assign" /\ pc' = [pc EXCEPT ![x] = "enter"]
      /\ item' = [item EXCEPT ![x] = -1] /\ token_id' = [token_id EXCEPT ![x] = item[x]]
      /\ ct_assns' = [k \in Tks |-> IF k = item[x] THEN x ELSE ct_assns[k]]
      /\ node' = node /\ allocated' = allocated /\ tmp' = tmp /\ head' = head
      /\ tail' = tail /\ head_lock' = head_lock /\ tail_lock' = tail_lock
      /\ sem_arr' = sem_arr /\ tokens_available' = tokens_available /\ main' = main
    BY DEF Token!AssignToken, Token!Goto, Token!heapVars, Token!queueVars, Token!SetItem,
           Token!Tokens, Tks
<1>2. /\ "enter" \in TokenPlaces /\ "enter" \notin Busy /\ "assign" \notin Busy
      /\ "enter" \notin Bringing /\ "assign" \in Bringing /\ "enter" \in Assigned
      /\ "enter" \notin OutPlaces /\ "assign" \notin OutPlaces
      /\ "enter" \notin TakingPlaces /\ "assign" \notin TakingPlaces
      /\ "enter" \notin GivingPlaces /\ "assign" \notin GivingPlaces
    BY DEF TokenPlaces, Busy, Tailing, Heading, Handling, Bringing, Assigned, OutPlaces,
           TakingPlaces, GivingPlaces
<1>3. /\ pc' \in [Seats -> TokenPlaces] /\ pc'[x] = "enter"
      /\ \A y \in Seats : y # x => pc'[y] = pc[y]
      /\ DOMAIN pc = Seats
    BY <1>1, <1>2, TokenMoves
<1>4. /\ item' \in [Seats -> Int] /\ -1 \in Int
      /\ \A y \in Seats : y # x => item'[y] = item[y]
    BY <1>1 DEF TokenType
<1>5. HeapInv(Seats, L)'
  <2>1. pc[x] \notin Busy /\ HeapInv(Seats, L)
      BY <1>1, <1>2 DEF TokensRight
  <2>2. QED
      BY <1>1, <1>2, <1>4, <2>1, HeapAside
<1>6. SameValues(L)
    BY <1>1, SameNode
<1>7. \A y \in Seats : /\ pc'[y] \in Bringing => /\ pc[y] \in Bringing /\ item'[y] = item[y]
                                                 /\ y # x
                       /\ pc'[y] \in Assigned /\ y # x => pc[y] \in Assigned
                       /\ pc'[y] \in OutPlaces <=> pc[y] \in OutPlaces
                       /\ pc[y] \in OutPlaces => y # x
    BY <1>1, <1>2, <1>3, <1>4
<1>8. Apart(Seats, L, Bringing, Tks) /\ HeldRight(L)
    BY DEF TokensRight
<1>9. Apart(Seats, L, Bringing, Tks)'
    BY <1>6, <1>7, <1>8, ApartStays
<1>10. item[x] \in Tks
    BY <1>1, <1>2, <1>8 DEF Apart
<1>11. /\ token_id'[x] = item[x] /\ token_id' \in [Seats -> Int]
       /\ \A y \in Seats : y # x => token_id'[y] = token_id[y]
    BY <1>1, <1>10 DEF TokenType
<1>12. TokenType'
    BY <1>1, <1>3, <1>4, <1>11 DEF TokenType
<1>13. SignalRight'
  <2>1. \A y \in Seats : pc'[y] \in OutPlaces => token_id'[y] = token_id[y]
      BY <1>7, <1>11
  <2>2. \A k \in Tks : OutOf(k)' = OutOf(k)
      BY <1>7, <1>11 DEF OutOf
  <2>3. QED
      BY <1>1, <1>7, <2>1, <2>2 DEF SignalRight
<1>14. Available(L)'
  <2>1. Available(L)
      BY DEF TokensRight
  <2>2. QED
      BY <1>1, <1>2, <1>3, <2>1, AvailableStays
<1>15. Spread(L)' \subseteq Spread(L) /\ item[x] \notin Spread(L)'
  <2>1. Spread(L)' \subseteq Spread(L)
      BY <1>6, <1>7, SpreadStays
  <2>2. \A k \in 2 .. Len(L) : node'[L[k]].value # item[x]
      BY <1>1, <1>2, <1>8 DEF Apart
  <2>3. \A y \in Seats : pc'[y] \in Bringing => item'[y] # item[x]
      BY <1>1, <1>2, <1>7, <1>8 DEF Apart
  <2>4. QED
      BY <2>1, <2>2, <2>3 DEF Spread, AtPlaces
<1>16. HeldRight(L)'
  <2> SUFFICES ASSUME NEW y \in Seats, pc'[y] \in Assigned
               PROVE  /\ token_id'[y] \in Tks /\ ct_assns'[token_id'[y]] = y
                      /\ token_id'[y] \notin Spread(L)'
      BY DEF HeldRight
  <2>1. CASE y = x
      BY <1>1, <1>10, <1>11, <1>15, <2>1
  <2>2. CASE y # x
    <3>1. /\ token_id[y] \in Tks /\ ct_assns[token_id[y]] = y
          /\ token_id[y] \notin Spread(L)
        BY <1>7, <1>8, <2>2 DEF HeldRight
    <3>2. item[x] \in Spread(L)
        BY <1>1, <1>2 DEF Spread, AtPlaces
    <3>3. QED
        BY <1>1, <1>11, <1>15, <2>2, <3>1, <3>2
  <2>3. QED
      BY <2>1, <2>2
<1>17. QED
    BY <1>1, <1>5, <1>9, <1>12, <1>13, <1>14, <1>16 DEF TokenInv, TokensRight

(* How the clients on their way out with a token change. *)
LEMMA OutChanges ==
    ASSUME NEW k
    PROVE  /\ IsFiniteSet(OutOf(k)) /\ Cardinality(OutOf(k)) \in Nat
           /\ \A y \in Seats : y \in OutOf(k) <=> pc[y] \in OutPlaces /\ token_id[y] = k
BY SeatsFinite DEF OutOf

LEMMA TokenWait ==
    ASSUME TokenType, main = "join", SignalRight, NEW L, TokensRight(L),
           NEW x \in Seats, Token!WaitForSignal(x)
    PROVE  TokenInv'
<1>1. PICK j : j = token_id[x]
    OBVIOUS
<1>2. pc[x] = "enter" /\ pc' = [pc EXCEPT ![x] = "return"]
    BY DEF Token!WaitForSignal, Token!Goto
<1>3. /\ "return" \in TokenPlaces /\ "return" \notin Busy /\ "enter" \notin Busy
      /\ "return" \notin Bringing /\ "return" \in Assigned /\ "enter" \in Assigned
      /\ "return" \in OutPlaces /\ "enter" \notin OutPlaces
      /\ "return" \notin TakingPlaces /\ "enter" \notin TakingPlaces
      /\ "return" \notin GivingPlaces /\ "enter" \notin GivingPlaces
    BY DEF TokenPlaces, Busy, Tailing, Heading, Handling, Bringing, Assigned, OutPlaces,
           TakingPlaces, GivingPlaces
<1>4. j \in Tks /\ ct_assns[j] = x
    BY <1>1, <1>2, <1>3 DEF TokensRight, HeldRight
<1>5. /\ sem_arr[j] > 0 /\ sem_arr' = [sem_arr EXCEPT ![j] = @ - 1] /\ item' = item
      /\ node' = node /\ allocated' = allocated /\ tmp' = tmp /\ head' = head
      /\ tail' = tail /\ head_lock' = head_lock /\ tail_lock' = tail_lock
      /\ tokens_available' = tokens_available /\ ct_assns' = ct_assns
      /\ token_id' = token_id /\ main' = main
    BY <1>1, <1>4 DEF Token!WaitForSignal, Token!heapVars, Token!queueVars
<1>6. /\ pc' \in [Seats -> TokenPlaces] /\ pc'[x] = "return"
      /\ \A y \in Seats : y # x => pc'[y] = pc[y]
      /\ DOMAIN pc = Seats
    BY <1>2, <1>3, TokenMoves
<1>7. item[x] \in Int /\ item' = [item EXCEPT ![x] = item[x]]
    BY <1>5 DEF TokenType
<1>8. HeapInv(Seats, L)'
  <2>1. pc[x] \notin Busy /\ HeapInv(Seats, L)
      BY <1>2, <1>3 DEF TokensRight
  <2>2. QED
      BY <1>2, <1>3, <1>5, <1>7, <2>1, HeapAside
<1>9. SameValues(L)
    BY <1>5, SameNode
<1>10. \A y \in Seats : /\ pc'[y] \in Bringing => pc[y] \in Bringing /\ item'[y] = item[y]
                        /\ pc'[y] \in Assigned => pc[y] \in Assigned
    BY <1>2, <1>3, <1>5, <1>6
<1>11. Apart(Seats, L, Bringing, Tks)'
    BY <1>9, <1>10, ApartStays DEF TokensRight
<1>12. HeldRight(L)'
  <2>1. Spread(L)' \subseteq Spread(L)
      BY <1>9, <1>10, SpreadStays
  <2>2. HeldRight(L)
      BY DEF TokensRight
  <2>3. QED
      BY <1>5, <1>10, <2>1, <2>2, HeldStays
<1>13. Available(L)'
  <2>1. Available(L)
      BY DEF TokensRight
  <2>2. QED
      BY <1>2, <1>3, <1>5, <1>6, <2>1, AvailableStays
<1>14. /\ sem_arr[j] \in Nat /\ sem_arr'[j] = sem_arr[j] - 1 /\ sem_arr' \in [Tks -> Nat]
       /\ \A k \in Tks : k # j => sem_arr'[k] = sem_arr[k]
    BY <1>4, <1>5 DEF TokenType
<1>15. TokenType'
    BY <1>5, <1>6, <1>14 DEF TokenType
<1>16. SignalRight'
  <2>1. \A y \in Seats : pc'[y] \in OutPlaces => token_id'[y] \in Tks
      BY <1>1, <1>4, <1>5, <1>6 DEF SignalRight
  <2>2. ASSUME NEW k \in Tks PROVE sem_arr'[k] + Cardinality(OutOf(k)') = 1
    <3>1. sem_arr[k] + Cardinality(OutOf(k)) = 1
        BY DEF SignalRight
    <3>2. CASE k # j
      <4>1. OutOf(k)' = OutOf(k)
          BY <1>1, <1>5, <1>6, <3>2 DEF OutOf
      <4>2. QED
          BY <1>14, <3>1, <3>2, <4>1
    <3>3. CASE k = j
      <4>1. x \notin OutOf(j) /\ OutOf(j)' = OutOf(j) \union {x}
          BY <1>1, <1>2, <1>3, <1>5, <1>6 DEF OutOf
      <4>2. Cardinality(OutOf(j)') = Cardinality(OutOf(j)) + 1
          BY <4>1, OneMore, OutChanges
      <4>3. Cardinality(OutOf(j)) \in Nat
          BY OutChanges
      <4>4. QED
          BY <1>14, <3>1, <3>3, <4>2, <4>3
    <3>4. QED
        BY <3>2, <3>3
  <2>3. QED
      BY <2>1, <2>2 DEF SignalRight
<1>17. QED
    BY <1>5, <1>8, <1>11, <1>12, <1>13, <1>15, <1>16 DEF TokenInv, TokensRight

LEMMA TokenReturn ==
    ASSUME TokenType, main = "join", SignalRight, NEW L, TokensRight(L),
           NEW x \in Seats, Token!ReturnToken(x)
    PROVE  TokenInv'
<1>1. PICK j : j = token_id[x]
    OBVIOUS
<1>2. /\ pc[x] = "return" /\ "return" \in Assigned /\ "return" \in OutPlaces
      /\ "return" \notin Busy /\ "return" \notin TakingPlaces /\ "return" \notin GivingPlaces
    BY DEF Token!ReturnToken, Token!Goto, Assigned, OutPlaces, Busy, Tailing, Heading,
           Handling, TakingPlaces, GivingPlaces
<1>3. j \in Tks /\ ct_assns[j] = x /\ j \notin Spread(L)
    BY <1>1, <1>2 DEF TokensRight, HeldRight
<1>4. /\ pc' = [pc EXCEPT ![x] = "push_alloc"] /\ item' = [item EXCEPT ![x] = j]
      /\ ct_assns' = [ct_assns EXCEPT ![j] = -1]
      /\ node' = node /\ allocated' = allocated /\ tmp' = tmp /\ head' = head
      /\ tail' = tail /\ head_lock' = head_lock /\ tail_lock' = tail_lock
      /\ tokens_available' = tokens_available /\ sem_arr' = sem_arr
      /\ token_id' = token_id /\ main' = main
    BY <1>1, <1>3 DEF Token!ReturnToken, Token!Goto, Token!heapVars, Token!queueVars,
                      Token!SetItem
<1>5. /\ "push_alloc" \in TokenPlaces /\ "push_alloc" \notin Busy
      /\ "push_alloc" \in Bringing /\ "push_alloc" \notin Assigned
      /\ "push_alloc" \in OutPlaces /\ "push_alloc" \notin TakingPlaces
      /\ "push_alloc" \notin GivingPlaces
    BY DEF TokenPlaces, Busy, Tailing, Heading, Handling, Bringing, Assigned, OutPlaces,
           TakingPlaces, GivingPlaces
<1>6. /\ pc' \in [Seats -> TokenPlaces] /\ pc'[x] = "push_alloc"
      /\ \A y \in Seats : y # x => pc'[y] = pc[y]
      /\ DOMAIN pc = Seats
    BY <1>4, <1>5, TokenMoves
<1>7. /\ j \in Int /\ item' \in [Seats -> Int] /\ item'[x] = j
      /\ \A y \in Seats : y # x => item'[y] = item[y]
  <2>1. j \in Int
      BY <1>3 DEF Tks
  <2>2. QED
      BY <1>4, <2>1 DEF TokenType
<1>8. HeapInv(Seats, L)'
  <2>1. pc[x] \notin Busy /\ HeapInv(Seats, L)
      BY <1>2 DEF TokensRight
  <2>2. QED
      BY <1>4, <1>5, <1>7, <2>1, HeapAside
<1>9. SameValues(L)
    BY <1>4, SameNode
<1>10. Apart(Seats, L, Bringing, Tks) /\ HeldRight(L)
    BY DEF TokensRight
<1>11. Apart(Seats, L, Bringing, Tks)'
  <2>1. \A k \in 2 .. Len(L) : node[L[k]].value # j
      BY <1>3 DEF Spread
  <2>2. \A y \in Seats : y # x /\ pc[y] \in Bringing => item[y] # j
      BY <1>3 DEF Spread, AtPlaces
  <2>3. \A y \in Seats : y # x /\ pc'[y] \in Bringing => pc[y] \in Bringing /\ item'[y] = item[y]
      BY <1>6, <1>7
  <2>4. QED
      BY <1>3, <1>7, <1>9, <1>10, <2>1, <2>2, <2>3, ApartGains
<1>12. Spread(L)' \subseteq Spread(L) \union {j}
  <2>1. \A y \in AtPlaces(Bringing)' :
            item'[y] = j \/ (y \in AtPlaces(Bringing) /\ item'[y] = item[y])
      BY <1>6, <1>7 DEF AtPlaces
  <2>2. \A k \in 2 .. Len(L) : node'[L[k]].value = node[L[k]].value
      BY <1>9 DEF SameValues
  <2>3. QED
      BY <2>1, <2>2 DEF Spread
<1>13. HeldRight(L)'
  <2> SUFFICES ASSUME NEW y \in Seats, pc'[y] \in Assigned
               PROVE  /\ token_id'[y] \in Tks /\ ct_assns'[token_id'[y]] = y
                      /\ token_id'[y] \notin Spread(L)'
      BY DEF HeldRight
  <2>1. y # x /\ pc[y] \in Assigned
      BY <1>5, <1>6
  <2>2. /\ token_id[y] \in Tks /\ ct_assns[token_id[y]] = y
        /\ token_id[y] \notin Spread(L)
      BY <1>10, <2>1 DEF HeldRight
  <2>3. token_id[y] # j /\ token_id'[y] = token_id[y]
      BY <1>3, <1>4, <2>1, <2>2
  <2>4. ct_assns'[token_id[y]] = ct_assns[token_id[y]]
      BY <1>4, <2>2, <2>3 DEF TokenType
  <2>5. QED
      BY <1>12, <2>2, <2>3, <2>4
<1>14. SignalRight'
  <2>1. \A y \in Seats : pc'[y] \in OutPlaces <=> pc[y] \in OutPlaces
      BY <1>2, <1>5, <1>6
  <2>2. QED
      BY <1>4, <2>1, SignalStays
<1>15. Available(L)'
  <2>1. Available(L)
      BY DEF TokensRight
  <2>2. QED
      BY <1>2, <1>4, <1>5, <1>6, <2>1, AvailableStays
<1>16. TokenType'
    BY <1>4, <1>6, <1>7 DEF TokenType
<1>17. QED
    BY <1>4, <1>8, <1>11, <1>13, <1>14, <1>15, <1>16 DEF TokenInv, TokensRight

LEMMA TokenSignal ==
    ASSUME TokenType, main = "join", SignalRight, NEW L, TokensRight(L),
           NEW x \in Seats, Token!GiveSignal(x)
    PROVE  TokenInv'
<1>1. PICK j : j = token_id[x]
    OBVIOUS
<1>2. /\ pc[x] = "give_signal" /\ pc' = [pc EXCEPT ![x] = "done"]
      /\ sem_arr' = [sem_arr EXCEPT ![j] = @ + 1]
      /\ token_id' = [token_id EXCEPT ![x] = -1] /\ item' = item
      /\ node' = node /\ allocated' = allocated /\ tmp' = tmp /\ head' = head
      /\ tail' = tail /\ head_lock' = head_lock /\ tail_lock' = tail_lock
      /\ tokens_available' = tokens_available /\ ct_assns' = ct_assns /\ main' = main
    BY <1>1 DEF Token!GiveSignal, Token!Goto, Token!heapVars, Token!queueVars
<1>3. /\ "done" \in TokenPlaces /\ "done" \notin Busy /\ "give_signal" \notin Busy
      /\ "done" \notin Bringing /\ "done" \notin Assigned
      /\ "done" \notin OutPlaces /\ "give_signal" \in OutPlaces
      /\ "done" \notin TakingPlaces /\ "give_signal" \notin TakingPlaces
      /\ "done" \notin GivingPlaces /\ "give_signal" \notin GivingPlaces
    BY DEF TokenPlaces, Busy, Tailing, Heading, Handling, Bringing, Assigned, OutPlaces,
           TakingPlaces, GivingPlaces
<1>4. /\ pc' \in [Seats -> TokenPlaces] /\ pc'[x] = "done"
      /\ \A y \in Seats : y # x => pc'[y] = pc[y]
      /\ DOMAIN pc = Seats
    BY <1>2, <1>3, TokenMoves
<1>5. j \in Tks
    BY <1>1, <1>2, <1>3 DEF SignalRight
<1>6. /\ token_id' \in [Seats -> Int]
      /\ \A y \in Seats : y # x => token_id'[y] = token_id[y]
    BY <1>2 DEF TokenType
<1>7. item[x] \in Int /\ item' = [item EXCEPT ![x] = item[x]]
    BY <1>2 DEF TokenType
<1>8. HeapInv(Seats, L)'
  <2>1. pc[x] \notin Busy /\ HeapInv(Seats, L)
      BY <1>2, <1>3 DEF TokensRight
  <2>2. QED
      BY <1>2, <1>3, <1>7, <2>1, HeapAside
<1>9. SameValues(L)
    BY <1>2, SameNode
<1>10. \A y \in Seats : pc'[y] \in Bringing => pc[y] \in Bringing /\ item'[y] = item[y]
    BY <1>2, <1>3, <1>4
<1>11. Apart(Seats, L, Bringing, Tks)'
    BY <1>9, <1>10, ApartStays DEF TokensRight
<1>12. HeldRight(L)'
  <2>1. Spread(L)' \subseteq Spread(L)
      BY <1>9, <1>10, SpreadStays
  <2>2. \A y \in Seats : pc'[y] \in Assigned => pc[y] \in Assigned /\ token_id'[y] = token_id[y]
      BY <1>3, <1>4, <1>6
  <2>3. QED
      BY <1>2, <2>1, <2>2 DEF HeldRight, TokensRight
<1>13. Available(L)'
  <2>1. Available(L)
      BY DEF TokensRight
  <2>2. QED
      BY <1>2, <1>3, <1>4, <2>1, AvailableStays
<1>14. /\ sem_arr[j] \in Nat /\ sem_arr'[j] = sem_arr[j] + 1 /\ sem_arr' \in [Tks -> Nat]
       /\ \A k \in Tks : k # j => sem_arr'[k] = sem_arr[k]
    BY <1>2, <1>5 DEF TokenType
<1>15. TokenType'
    BY <1>2, <1>4, <1>6, <1>14 DEF TokenType
<1>16. SignalRight'
  <2>1. \A y \in Seats : /\ pc'[y] \in OutPlaces <=> pc[y] \in OutPlaces /\ y # x
                         /\ pc'[y] \in OutPlaces => token_id'[y] = token_id[y]
      BY <1>2, <1>3, <1>4, <1>6
  <2>2. ASSUME NEW k \in Tks PROVE sem_arr'[k] + Cardinality(OutOf(k)') = 1
    <3>1. sem_arr[k] + Cardinality(OutOf(k)) = 1
        BY DEF SignalRight
    <3>2. CASE k # j
      <4>1. OutOf(k)' = OutOf(k)
          BY <1>1, <1>6, <2>1, <3>2 DEF OutOf
      <4>2. QED
          BY <1>14, <3>1, <3>2, <4>1
    <3>3. CASE k = j
      <4>1. x \in OutOf(j) /\ OutOf(j)' = OutOf(j) \ {x}
          BY <1>1, <1>2, <1>3, <1>6, <2>1 DEF OutOf
      <4>2. Cardinality(OutOf(j)') = Cardinality(OutOf(j)) - 1
          BY <4>1, OneLess, OutChanges
      <4>3. Cardinality(OutOf(j)) \in Nat
          BY OutChanges
      <4>4. QED
          BY <1>14, <3>1, <3>3, <4>2, <4>3
    <3>4. QED
        BY <3>2, <3>3
  <2>3. QED
      BY <2>1, <2>2 DEF SignalRight
<1>17. QED
    BY <1>2, <1>8, <1>11, <1>12, <1>13, <1>15, <1>16 DEF TokenInv, TokensRight

LEMMA TokenPushLink ==
    ASSUME TokenType, main = "join", SignalRight, NEW L, TokensRight(L),
           NEW x \in Seats, Linked!PushLink(x), UNCHANGED <<tokenVars, main>>
    PROVE  TokenInv'
<1>1. /\ pc[x] = "push_link" /\ pc' = [pc EXCEPT ![x] = "push_tail"] /\ item' = item
      /\ tokens_available' = tokens_available /\ sem_arr' = sem_arr
      /\ ct_assns' = ct_assns /\ token_id' = token_id /\ main' = main
    BY DEF Linked!PushLink, Linked!Goto, tokenVars
<1>2. /\ "push_tail" \in TokenPlaces /\ "push_link" \in Handling
      /\ "push_tail" \notin Bringing /\ "push_link" \in Bringing
      /\ "push_tail" \notin Assigned /\ "push_tail" \in OutPlaces
      /\ "push_link" \in OutPlaces
      /\ "push_tail" \notin TakingPlaces /\ "push_link" \notin TakingPlaces
      /\ "push_tail" \in GivingPlaces /\ "push_link" \notin GivingPlaces
    BY DEF TokenPlaces, Handling, Bringing, Assigned, OutPlaces, TakingPlaces, GivingPlaces
<1>3. /\ pc' \in [Seats -> TokenPlaces] /\ pc'[x] = "push_tail"
      /\ \A y \in Seats : y # x => pc'[y] = pc[y]
      /\ DOMAIN pc = Seats
    BY <1>1, <1>2, TokenMoves
<1>4. HeapInv(Seats, L) /\ Apart(Seats, L, Bringing, Tks) /\ HeldRight(L) /\ Available(L)
    BY DEF TokensRight
<1>5. PICK n, M : n = tmp[x] /\ M = Append(L, n)
    OBVIOUS
<1>6. HeapInv(Seats, M)'
  <2>1. M = Append(L, tmp[x])
      BY <1>5
  <2>2. QED
      BY <1>4, <2>1, HeapPushLink
<1>7. n \in Nodes /\ node[n].value = item[x]
    BY <1>1, <1>2, <1>4, <1>5 DEF HeapInv, HandsRight, HeapType
<1>8. \A m \in Nodes : node'[m].value = node[m].value
    BY <1>4, LinkKeepsValues
<1>9. /\ L \in Seq(Nodes) /\ L # <<>> /\ Len(L) \in Nat
      /\ \A k \in 1 .. Len(L) : L[k] \in Nodes
    BY <1>4 DEF HeapInv, Chain
<1>10. SameValues(L)
  <2>1. \A k \in 2 .. Len(L) : k \in 1 .. Len(L)
      BY <1>9
  <2>2. QED
      BY <1>8, <1>9, <2>1 DEF SameValues
<1>11. Longer(L, M, n)
    BY <1>5, <1>7, <1>9, ListGrows
<1>12. node'[n].value = item[x]
    BY <1>7, <1>8
<1>13. \A y \in Seats : /\ pc'[y] \in Bringing => /\ pc[y] \in Bringing /\ item'[y] = item[y]
                        /\ pc'[y] \in Assigned => pc[y] \in Assigned
                        /\ pc'[y] \in OutPlaces <=> pc[y] \in OutPlaces
    BY <1>1, <1>2, <1>3
<1>14. pc[x] \in Bringing /\ pc'[x] \notin Bringing
    BY <1>1, <1>2, <1>3
<1>15. Apart(Seats, M, Bringing, Tks)'
    BY <1>4, <1>9, <1>10, <1>11, <1>12, <1>13, <1>14, ApartLinks
<1>16. Spread(M)' \subseteq Spread(L)
  <2>1. \A k \in 2 .. Len(M) : k \in 2 .. Len(L) \/ k = Len(M)
      BY <1>9, <1>11 DEF Longer
  <2>2. \A k \in 2 .. Len(L) : node'[M[k]].value = node[L[k]].value
      BY <1>9, <1>10, <1>11 DEF Longer, SameValues
  <2>3. node'[M[Len(M)]].value = item[x] /\ x \in AtPlaces(Bringing)
      BY <1>11, <1>12, <1>14 DEF Longer, AtPlaces
  <2>4. \A k \in 2 .. Len(M) : node'[M[k]].value \in Spread(L)
      BY <2>1, <2>2, <2>3 DEF Spread
  <2>5. \A y \in AtPlaces(Bringing)' : y \in AtPlaces(Bringing) /\ item'[y] = item[y]
      BY <1>13 DEF AtPlaces
  <2>6. \A y \in AtPlaces(Bringing)' : item'[y] \in Spread(L)
      BY <2>5 DEF Spread
  <2>7. QED
      BY <2>4, <2>6 DEF Spread
<1>17. HeldRight(M)'
    BY <1>1, <1>4, <1>13, <1>16, HeldStays
<1>18. SignalRight'
    BY <1>1, <1>13, SignalStays
<1>19. Available(M)'
  <2>1. /\ Cardinality(AtPlaces(TakingPlaces)') = Cardinality(AtPlaces(TakingPlaces))
        /\ Cardinality(AtPlaces(TakingPlaces)) \in Nat
      BY <1>1, <1>2, <1>3, PassesBy
  <2>2. /\ Cardinality(AtPlaces(GivingPlaces)') = Cardinality(AtPlaces(GivingPlaces)) + 1
        /\ Cardinality(AtPlaces(GivingPlaces)) \in Nat
      BY <1>1, <1>2, <1>3, ComesTo
  <2>3. Len(M) = Len(L) + 1 /\ tokens_available \in Nat
      BY <1>11 DEF Longer, TokenType
  <2>4. QED
      BY <1>1, <1>4, <1>9, <2>1, <2>2, <2>3 DEF Available
<1>20. TokenType'
    BY <1>1, <1>3 DEF TokenType
<1>21. QED
    BY <1>1, <1>6, <1>15, <1>17, <1>18, <1>19, <1>20 DEF TokenInv, TokensRight

LEMMA TokenPopTake ==
    ASSUME TokenType, main = "join", SignalRight, NEW L, TokensRight(L),
           NEW x \in Seats, Linked!PopTake(x), UNCHANGED <<tokenVars, main>>
    PROVE  TokenInv'
<1>1. /\ pc[x] = "pop_take" /\ pc' = [pc EXCEPT ![x] = "pop_unlock"] /\ node' = node
      /\ tokens_available' = tokens_available /\ sem_arr' = sem_arr
      /\ ct_assns' = ct_assns /\ token_id' = token_id /\ main' = main
    BY DEF Linked!PopTake, Linked!Goto, Linked!heapVars, tokenVars
<1>2. /\ "pop_unlock" \in TokenPlaces /\ "pop_unlock" \notin Assigned
      /\ "pop_unlock" \notin OutPlaces /\ "pop_take" \notin OutPlaces
      /\ "pop_unlock" \notin TakingPlaces /\ "pop_take" \in TakingPlaces
      /\ "pop_unlock" \notin GivingPlaces /\ "pop_take" \notin GivingPlaces
    BY DEF TokenPlaces, Assigned, OutPlaces, TakingPlaces, GivingPlaces
<1>3. /\ pc' \in [Seats -> TokenPlaces] /\ pc'[x] = "pop_unlock"
      /\ \A y \in Seats : y # x => pc'[y] = pc[y]
      /\ DOMAIN pc = Seats
    BY <1>1, <1>2, TokenMoves
<1>4. HeapInv(Seats, L) /\ Apart(Seats, L, Bringing, Tks) /\ HeldRight(L) /\ Available(L)
    BY DEF TokensRight
<1>5. PICK M : M = Tail(L)
    OBVIOUS
<1>6. /\ HeapInv(Seats, M)' /\ Len(L) > 1
      /\ item' = [item EXCEPT ![x] = node[L[2]].value]
    BY <1>4, <1>5, HeapPopTake
<1>7. /\ item'[x] = node[L[2]].value
      /\ \A y \in Seats : y # x => item'[y] = item[y]
    BY <1>6 DEF TokenType
<1>8. L \in Seq(Nodes) /\ Len(L) \in Nat /\ Shorter(L, M)
  <2>1. L \in Seq(Nodes) /\ NoRepeats(L)
      BY <1>4 DEF HeapInv, Chain
  <2>2. Len(L) \in Nat
      BY <2>1
  <2>3. QED
      BY <1>5, <1>6, <2>1, <2>2, ListShrinks
<1>9. \A y \in Seats : /\ y # x /\ pc'[y] \in Bringing =>
                            pc[y] \in Bringing /\ item'[y] = item[y]
                       /\ pc'[y] \in Assigned => pc[y] \in Assigned
                       /\ pc'[y] \in OutPlaces <=> pc[y] \in OutPlaces
    BY <1>1, <1>2, <1>3, <1>7
<1>10. Apart(Seats, M, Bringing, Tks)' /\ item'[x] \in Tks
  <2>1. Apart(Seats, L, Bringing, Tks)
      BY <1>4
  <2>2. node' = node /\ Len(L) > 1 /\ item'[x] = node[L[2]].value
      BY <1>1, <1>6, <1>7
  <2>3. \A y \in Seats : y # x /\ pc'[y] \in Bringing => pc[y] \in Bringing /\ item'[y] = item[y]
      BY <1>9
  <2>4. QED
      BY ONLY <1>8, <2>1, <2>2, <2>3, x \in Seats, ApartTakes
<1>11. Spread(M)' \subseteq Spread(L)
  <2>1. /\ \A k \in 2 .. Len(M) : k + 1 \in 2 .. Len(L) /\ k \in 1 .. Len(M)
        /\ \A k \in 1 .. Len(M) : M[k] = L[k + 1]
        /\ 2 \in 2 .. Len(L)
      BY <1>6, <1>8 DEF Shorter
  <2>2. \A k \in 2 .. Len(M) : node'[M[k]].value \in Spread(L)
      BY <1>1, <2>1 DEF Spread
  <2>3. item'[x] \in Spread(L)
      BY <1>7, <2>1 DEF Spread
  <2>4. \A y \in AtPlaces(Bringing)' :
            y = x \/ (y \in AtPlaces(Bringing) /\ item'[y] = item[y])
      BY <1>9 DEF AtPlaces
  <2>5. \A y \in AtPlaces(Bringing)' : item'[y] \in Spread(L)
      BY <2>3, <2>4 DEF Spread
  <2>6. QED
      BY <2>2, <2>5 DEF Spread
<1>12. HeldRight(M)'
    BY <1>1, <1>4, <1>9, <1>11, HeldStays
<1>13. SignalRight'
    BY <1>1, <1>9, SignalStays
<1>14. Available(M)'
  <2>1. /\ Cardinality(AtPlaces(TakingPlaces)') = Cardinality(AtPlaces(TakingPlaces)) - 1
        /\ Cardinality(AtPlaces(TakingPlaces)) \in Nat
      BY <1>1, <1>2, <1>3, GoesFrom
  <2>2. /\ Cardinality(AtPlaces(GivingPlaces)') = Cardinality(AtPlaces(GivingPlaces))
        /\ Cardinality(AtPlaces(GivingPlaces)) \in Nat
      BY <1>1, <1>2, <1>3, PassesBy
  <2>3. Len(M) = Len(L) - 1 /\ tokens_available \in Nat
      BY <1>8 DEF Shorter, TokenType
  <2>4. QED
      BY <1>1, <1>4, <1>8, <2>1, <2>2, <2>3 DEF Available
<1>15. TokenType'
  <2>1. item' \in [Seats -> Int]
    <3>1. item'[x] \in Int
        BY <1>10 DEF Tks
    <3>2. QED
        BY <1>6, <1>7, <3>1 DEF TokenType
  <2>2. QED
      BY <1>1, <1>3, <2>1 DEF TokenType
<1>16. QED
    BY <1>1, <1>6, <1>10, <1>12, <1>13, <1>14, <1>15 DEF TokenInv, TokensRight

(* A pop that has claimed a token finds one. *)
LEMMA TokenPopRead ==
    ASSUME TokenType, NEW L, TokensRight(L), NEW x \in Seats, Linked!PopRead(x)
    PROVE  /\ pc[x] = "pop_read" /\ pc' = [pc EXCEPT ![x] = "pop_take"]
           /\ item' = item /\ node' = node
<1>1. /\ pc[x] = "pop_read" /\ item' = item /\ node' = node
      /\ pc' = [pc EXCEPT ![x] = IF node[head].next = None THEN "pop_empty" ELSE "pop_take"]
    BY DEF Linked!PopRead, Linked!Goto, Linked!heapVars
<1>2. Cardinality(AtPlaces(TakingPlaces)) \in Nat \ {0}
  <2>1. x \in AtPlaces(TakingPlaces) /\ AtPlaces(TakingPlaces) \in SUBSET Seats
      BY <1>1 DEF AtPlaces, TakingPlaces
  <2>2. QED
      BY <2>1, SeatsFinite, FS_EmptySet
<1>3. Cardinality(AtPlaces(GivingPlaces)) \in Nat
    BY SeatsFinite DEF AtPlaces
<1>4. tokens_available \in Nat /\ Available(L) /\ Len(L) \in Nat
    BY DEF TokenType, TokensRight, HeapInv, Chain
<1>5. Len(L) # 1
  <2>1. PICK m, g, n : /\ m = Cardinality(AtPlaces(TakingPlaces))
                       /\ g = Cardinality(AtPlaces(GivingPlaces)) /\ n = Len(L)
      OBVIOUS
  <2>2. m \in Nat \ {0} /\ g \in Nat /\ n \in Nat /\ tokens_available \in Nat
      BY <1>2, <1>3, <1>4, <2>1
  <2>3. tokens_available + m + g = n - 1
      BY <1>4, <2>1 DEF Available
  <2>4. n # 1
      BY ONLY <2>2, <2>3
  <2>5. QED
      BY <2>1, <2>4
<1>6. node[head].next # None
    BY <1>5, HeadNext DEF TokensRight
<1>7. QED
    BY <1>1, <1>6

LEMMA TokenQueue ==
    ASSUME TokenType, main = "join", SignalRight, NEW L, TokensRight(L),
           NEW x \in Seats, Token!TokenQueueStep(x)
    PROVE  TokenInv'
<1>0. /\ HeapInv(Seats, L) /\ UNCHANGED <<tokenVars, main>> /\ Token!QueueStep(x)
      /\ item \in [Seats -> Int]
    BY DEF TokensRight, Token!TokenQueueStep, Token!systemVars, tokenVars, TokenType
<1>a. ASSUME NEW here, NEW there \in TokenPlaces,
             pc[x] = here, pc' = [pc EXCEPT ![x] = there],
             there \in Bringing => here \in Bringing,
             there \in Assigned => here \in Assigned,
             there \in OutPlaces <=> here \in OutPlaces,
             there \in TakingPlaces <=> here \in TakingPlaces,
             there \in GivingPlaces <=> here \in GivingPlaces,
             item' = item, HeapInv(Seats, L)', SameValues(L)
      PROVE  TokenInv'
  <2>1. /\ there \in Bringing => here \in Bringing /\ item'[x] = item[x]
        /\ item' \in [Seats -> Int] /\ \A y \in Seats : y # x => item'[y] = item[y]
      BY <1>0, <1>a
  <2>2. QED
      BY <1>0, <1>a, <2>1, TokenKeeps
<1> DEFINE SamePlaces(here, there) ==
              /\ there \in TokenPlaces
              /\ there \in Bringing => here \in Bringing
              /\ there \in Assigned => here \in Assigned
              /\ there \in OutPlaces <=> here \in OutPlaces
              /\ there \in TakingPlaces <=> here \in TakingPlaces
              /\ there \in GivingPlaces <=> here \in GivingPlaces
<1>b. /\ SamePlaces("push_alloc", "push_lock") /\ SamePlaces("push_lock", "push_link")
      /\ SamePlaces("push_tail", "push_unlock") /\ SamePlaces("push_unlock", "post_available")
      /\ SamePlaces("pop_lock", "pop_read") /\ SamePlaces("pop_read", "pop_take")
      /\ SamePlaces("pop_unlock", "pop_free") /\ SamePlaces("pop_free", "assign")
    BY DEF TokenPlaces, Bringing, Assigned, OutPlaces, TakingPlaces, GivingPlaces
<1>1. CASE Token!PushAlloc(x)
  <2>1. Linked!PushAlloc(x)
      BY <1>1, SameQueue
  <2>2. pc[x] = "push_alloc" /\ pc' = [pc EXCEPT ![x] = "push_lock"] /\ item' = item
      BY <2>1 DEF Linked!PushAlloc, Linked!Goto
  <2>3. HeapInv(Seats, L)' /\ SameValues(L)
      BY <1>0, <2>1, HeapPushAlloc, AllocKeepsValues
  <2>4. QED
      BY <1>a, <1>b, <2>2, <2>3
<1>2. CASE Token!PushLock(x)
  <2>1. Linked!PushLock(x)
      BY <1>2, SameQueue
  <2>2. /\ pc[x] = "push_lock" /\ pc' = [pc EXCEPT ![x] = "push_link"] /\ item' = item
        /\ node' = node
      BY <2>1 DEF Linked!PushLock, Linked!Goto, Linked!heapVars
  <2>3. HeapInv(Seats, L)' /\ SameValues(L)
      BY <1>0, <2>1, <2>2, HeapPushLock, SameNode
  <2>4. QED
      BY <1>a, <1>b, <2>2, <2>3
<1>3. CASE Token!PushLink(x)
  <2>1. Linked!PushLink(x)
      BY <1>3, SameQueue
  <2>2. QED
      BY <1>0, <2>1, TokenPushLink
<1>4. CASE Token!PushTail(x)
  <2>1. Linked!PushTail(x)
      BY <1>4, SameQueue
  <2>2. /\ pc[x] = "push_tail" /\ pc' = [pc EXCEPT ![x] = "push_unlock"] /\ item' = item
        /\ node' = node
      BY <2>1 DEF Linked!PushTail, Linked!Goto, Linked!heapVars
  <2>3. HeapInv(Seats, L)' /\ SameValues(L)
      BY <1>0, <2>1, <2>2, HeapPushTail, SameNode
  <2>4. QED
      BY <1>a, <1>b, <2>2, <2>3
<1>5. CASE Token!PushUnlock(x)
  <2>1. /\ pc[x] = "push_unlock" /\ pc' = [pc EXCEPT ![x] = "post_available"]
        /\ tail_lock' = tail_lock + 1 /\ item' = [item EXCEPT ![x] = -1]
        /\ tmp' = [tmp EXCEPT ![x] = None] /\ node' = node /\ allocated' = allocated
        /\ head' = head /\ tail' = tail /\ head_lock' = head_lock /\ -1 \in Int
      BY <1>5 DEF Token!PushUnlock, Token!Goto, Token!SetItem, Token!SetTmp, Token!heapVars
  <2>2. "post_available" \notin Busy
      BY DEF Busy, Tailing, Heading, Handling
  <2>3. HeapInv(Seats, L)'
      BY <1>0, <2>1, <2>2, HeapPushUnlock
  <2>4. SameValues(L)
      BY <2>1, SameNode
  <2>5. /\ item' \in [Seats -> Int] /\ \A y \in Seats : y # x => item'[y] = item[y]
      BY <1>0, <2>1
  <2>6. "post_available" \notin Bringing
      BY DEF Bringing
  <2>7. QED
      BY <1>0, <1>b, <2>1, <2>3, <2>4, <2>5, <2>6, TokenKeeps
<1>6. CASE Token!PopLock(x)
  <2>1. Linked!PopLock(x)
      BY <1>6, SameQueue
  <2>2. /\ pc[x] = "pop_lock" /\ pc' = [pc EXCEPT ![x] = "pop_read"] /\ item' = item
        /\ node' = node
      BY <2>1 DEF Linked!PopLock, Linked!Goto, Linked!heapVars
  <2>3. HeapInv(Seats, L)' /\ SameValues(L)
      BY <1>0, <2>1, <2>2, HeapPopLock, SameNode
  <2>4. QED
      BY <1>a, <1>b, <2>2, <2>3
<1>7. CASE Token!PopRead(x)
  <2>1. Linked!PopRead(x)
      BY <1>7, SameQueue
  <2>2. /\ pc[x] = "pop_read" /\ pc' = [pc EXCEPT ![x] = "pop_take"] /\ item' = item
        /\ node' = node
      BY <2>1, TokenPopRead
  <2>3. HeapInv(Seats, L)' /\ SameValues(L)
      BY <1>0, <2>1, <2>2, HeapPopRead, SameNode
  <2>4. QED
      BY <1>a, <1>b, <2>2, <2>3
<1>8. CASE Token!PopEmpty(x)
  <2>1. pc[x] = "pop_empty" /\ pc[x] \in TokenPlaces
      BY <1>8 DEF Token!PopEmpty, Token!Goto, TokenType
  <2>2. QED
      BY <2>1 DEF TokenPlaces, TakingPlaces, OutPlaces
<1>9. CASE Token!PopTake(x)
  <2>1. Linked!PopTake(x)
      BY <1>9, SameQueue
  <2>2. QED
      BY <1>0, <2>1, TokenPopTake
<1>10. CASE Token!PopUnlock(x)
  <2>1. Linked!PopUnlock(x)
      BY <1>10, SameQueue
  <2>2. /\ pc[x] = "pop_unlock" /\ pc' = [pc EXCEPT ![x] = "pop_free"] /\ item' = item
        /\ node' = node
      BY <2>1 DEF Linked!PopUnlock, Linked!Goto, Linked!heapVars
  <2>3. HeapInv(Seats, L)' /\ SameValues(L)
      BY <1>0, <2>1, <2>2, HeapPopUnlock, SameNode
  <2>4. QED
      BY <1>a, <1>b, <2>2, <2>3
<1>11. CASE Token!PopFree(x)
  <2>1. /\ pc[x] = "pop_free" /\ pc' = [pc EXCEPT ![x] = "assign"]
        /\ allocated' = allocated \ {tmp[x]}
        /\ node' = [node EXCEPT ![tmp[x]] = [value |-> -1, next |-> None]]
        /\ tmp' = [tmp EXCEPT ![x] = None] /\ item' = item /\ head' = head
        /\ tail' = tail /\ head_lock' = head_lock /\ tail_lock' = tail_lock
      BY <1>11 DEF Token!PopFree, Token!Goto, Token!SetTmp, Token!queueVars, Token!Fields
  <2>2. "assign" \notin Busy /\ -1 \in Int
      BY DEF Busy, Tailing, Heading, Handling
  <2>3. HeapInv(Seats, L)'
      BY <1>0, <2>1, <2>2, HeapPopFree
  <2>4. SameValues(L)
      BY <1>0, <2>1, FreeKeepsValues
  <2>5. QED
      BY <1>a, <1>b, <2>1, <2>3, <2>4
<1>12. QED
    BY <1>0, <1>1, <1>2, <1>3, <1>4, <1>5, <1>6, <1>7, <1>8, <1>9, <1>10, <1>11
    DEF Token!QueueStep

LEMMA TokenNext == TokenInv /\ Token!Next => TokenInv'
<1> SUFFICES ASSUME TokenInv, Token!Next PROVE TokenInv'
    OBVIOUS
<1>1. TokenType
    BY DEF TokenInv
<1>2. CASE main = "join"
  <2>1. PICK L : TokensRight(L)
      BY <1>2 DEF TokenInv
  <2>2. SignalRight
      BY <1>2 DEF TokenInv
  <2>3. ASSUME NEW x \in Seats, Token!Client(x) PROVE TokenInv'
    <3> USE <1>1, <1>2, <2>1, <2>2
    <3>1. CASE Token!GetTokenWait(x)
        BY <3>1, TokenGet
    <3>2. CASE Token!AssignToken(x)
        BY <3>2, TokenAssign
    <3>3. CASE Token!WaitForSignal(x)
        BY <3>3, TokenWait
    <3>4. CASE Token!ReturnToken(x)
        BY <3>4, TokenReturn
    <3>5. CASE Token!PostAvailable(x)
        BY <3>5, TokenPost
    <3>6. CASE Token!GiveSignal(x)
        BY <3>6, TokenSignal
    <3>7. CASE Token!TokenQueueStep(x)
        BY <3>7, TokenQueue
    <3>8. QED
        BY <2>3, <3>1, <3>2, <3>3, <3>4, <3>5, <3>6, <3>7 DEF Token!Client
  <2>4. CASE Token!Main
    <3>1. /\ \A y \in Seats : pc[y] = "done"
          /\ main' = "done" /\ pc' = pc /\ token_id' = token_id /\ item' = item
          /\ ct_assns' = ct_assns /\ tokens_available' = 0 /\ sem_arr' = [k \in Tks |-> 0]
        BY <2>4 DEF Token!Main, Token!SystemCleanup, Token!Cleanup, Token!Clients, Seats,
                    Token!Tokens, Tks
    <3>2. TokenType'
        BY <1>1, <3>1 DEF TokenType
    <3>3. QED
        BY <3>1, <3>2 DEF TokenInv
  <2>5. CASE Token!Terminated
      BY <1>2, <2>5 DEF Token!Terminated
  <2>6. QED
      BY <2>3, <2>4, <2>5 DEF Token!Next, Token!Clients, Seats
<1>3. CASE main # "join"
  <2>1. \A y \in Seats : pc[y] = "done"
      BY <1>3 DEF TokenInv
  <2>2. ASSUME NEW x \in Seats PROVE ~ Token!Client(x)
    <3>1. pc[x] = "done"
        BY <2>1
    <3>2. ~ Token!QueueStep(x)
        BY <3>1
        DEF Token!QueueStep, Token!Goto, Token!PushAlloc,
            Token!PushLock, Token!PushLink, Token!PushTail, Token!PushUnlock,
            Token!PopLock, Token!PopRead, Token!PopEmpty, Token!PopTake,
            Token!PopUnlock, Token!PopFree
    <3>3. QED
        BY <3>1, <3>2
        DEF Token!Client, Token!GetTokenWait, Token!AssignToken, Token!WaitForSignal,
            Token!ReturnToken, Token!PostAvailable, Token!GiveSignal,
            Token!TokenQueueStep, Token!Goto
  <2>3. Token!Terminated
      BY <1>3, <2>2 DEF Token!Next, Token!Main, Token!Clients, Seats
  <2>4. /\ pc' = pc /\ item' = item /\ token_id' = token_id /\ main' = main
        /\ tokens_available' = tokens_available /\ sem_arr' = sem_arr /\ ct_assns' = ct_assns
      BY <2>3 DEF Token!Terminated, Token!vars, Token!twoLockVars, Token!systemVars
  <2>5. TokenType'
      BY <1>1, <2>4 DEF TokenType
  <2>6. QED
      BY <1>3, <2>1, <2>4, <2>5 DEF TokenInv
<1>4. QED
    BY <1>2, <1>3

LEMMA TokenStutter == TokenInv /\ UNCHANGED <<linkedVars, tokenVars, pc, main>> => TokenInv'
<1> SUFFICES ASSUME TokenInv, UNCHANGED <<linkedVars, tokenVars, pc, main>> PROVE TokenInv'
    OBVIOUS
<1>1. /\ node' = node /\ allocated' = allocated /\ head' = head /\ tail' = tail
      /\ head_lock' = head_lock /\ tail_lock' = tail_lock /\ item' = item /\ tmp' = tmp
      /\ tokens_available' = tokens_available /\ sem_arr' = sem_arr
      /\ ct_assns' = ct_assns /\ token_id' = token_id /\ pc' = pc /\ main' = main
    BY DEF linkedVars, tokenVars
<1>2. TokenType'
    BY <1>1 DEF TokenInv, TokenType
<1>3. \A P : AtPlaces(P)' = AtPlaces(P)
    BY <1>1 DEF AtPlaces
<1>4. \A L : TokensRight(L) => TokensRight(L)'
  <2> SUFFICES ASSUME NEW L, TokensRight(L) PROVE TokensRight(L)'
      OBVIOUS
  <2>1. HeapInv(Seats, L)'
      BY <1>1 DEF TokensRight, HeapInv, HeapType, HeapLocked, Chain, TailRight, HandsRight
  <2>2. Apart(Seats, L, Bringing, Tks)'
      BY <1>1 DEF TokensRight, Apart
  <2>3. HeldRight(L)'
      BY <1>1, <1>3 DEF TokensRight, HeldRight, Spread
  <2>4. Available(L)'
      BY <1>1, <1>3 DEF TokensRight, Available
  <2>5. QED
      BY <2>1, <2>2, <2>3, <2>4 DEF TokensRight
<1>5. SignalRight => SignalRight'
    BY <1>1, SignalStays
<1>6. QED
    BY <1>1, <1>2, <1>4, <1>5 DEF TokenInv

LEMMA TokenNeverEmpty == TokenInv => Token!NeverEmptyHanded
<1> SUFFICES ASSUME TokenInv PROVE Token!NeverEmptyHanded
    OBVIOUS
<1>1. Token!At({"pop_empty"}) = {}
  <2>1. \A y \in Seats : pc[y] \in TokenPlaces
      BY DEF TokenInv, TokenType
  <2>2. "pop_empty" \notin TokenPlaces
      BY DEF TokenPlaces, TakingPlaces, OutPlaces
  <2>3. QED
      BY <2>1, <2>2 DEF Token!At, Seats
<1>2. ASSUME main = "join" PROVE Token!NoUseAfterFree /\ Token!NoNodeLost
  <2>1. PICK L : TokensRight(L)
      BY <1>2 DEF TokenInv
  <2>2. QED
      BY <2>1, TokenIsSafe DEF TokensRight, Seats
<1>3. QED
    BY <1>1, <1>2 DEF Token!NeverEmptyHanded

LEMMA TokenOneClient == TokenInv => Token!OneClientPerToken
<1> SUFFICES ASSUME TokenInv, main = "join", NEW k \in Token!Tokens
             PROVE  sem_arr[k]
                      + Token!Cardinality(Token!Between(k, {"return"} \union Token!Returning))
                    = 1
    BY DEF Token!OneClientPerToken
<1>1. Token!Between(k, {"return"} \union Token!Returning) = OutOf(k)
    BY DEF Token!Between, Token!At, Token!Returning, OutOf, OutPlaces, Seats
<1>2. Token!Cardinality(OutOf(k)) = Cardinality(OutOf(k))
    BY DEF Token!Cardinality, Cardinality
<1>3. k \in Tks
    BY DEF Token!Tokens, Tks
<1>4. QED
    BY <1>1, <1>2, <1>3 DEF TokenInv, SignalRight

-----------------------------------------------------------------------------
(* fifo.c as the FIFO queue: what Demos says that it holds, how far each    *)
(* caller is, and with what.                                                *)

FifoContents == IF program = "fifo.c" THEN Linked!AbstractContents ELSE <<>>
FifoPhase ==
    [t \in Callers |-> IF program = "fifo.c" THEN Linked!AbstractPhase(t) ELSE "idle"]
FifoHeld ==
    [t \in Callers |-> IF program = "fifo.c" THEN Linked!AbstractHeld(t) ELSE 0]

PhaseOf(place) ==
    CASE place = "push_alloc"                    -> "push"
      [] place \in {"push_lock", "push_link"}    -> "inserting"
      [] place \in {"push_tail", "push_unlock"}  -> "inserted"
      [] place \in {"pop_lock", "pop_read"}      -> "trypop"
      [] place = "pop_take"                      -> "removing"
      [] place \in {"pop_unlock", "pop_free"}    -> "removed"
      [] OTHER                                   -> "idle"

HeldIn(place, v) == IF place = "print" THEN 0 ELSE v

PhasesMapped ==
    program = "fifo.c" =>
        /\ FifoPhase = [t \in Callers |-> PhaseOf(pc[t])]
        /\ FifoHeld = [t \in Callers |-> HeldIn(pc[t], item[t])]

LEMMA FifoMapped == PhasesMapped /\ PhasesMapped'
<1>1. PhasesMapped
  <2> SUFFICES ASSUME program = "fifo.c"
               PROVE  /\ FifoPhase = [t \in Callers |-> PhaseOf(pc[t])]
                      /\ FifoHeld = [t \in Callers |-> HeldIn(pc[t], item[t])]
      BY DEF PhasesMapped
  <2>1. \A t \in Callers : Linked!AbstractPhase(t) = PhaseOf(pc[t])
      BY DEF Linked!AbstractPhase, PhaseOf
  <2>2. \A t \in Callers : Linked!AbstractHeld(t) = HeldIn(pc[t], item[t])
      BY DEF Linked!AbstractHeld, HeldIn
  <2>3. QED
      BY <2>1, <2>2 DEF FifoPhase, FifoHeld
<1>2. QED
    BY <1>1, PTL

ContentsMapped ==
    program = "fifo.c" /\ ~ destroyed => \A L : Chain(L) => FifoContents = Queued(L)

LEMMA ContentsAre == ContentsMapped /\ ContentsMapped'
<1>1. ContentsMapped
    BY WalkHolds DEF ContentsMapped, FifoContents, Linked!AbstractContents
<1>2. QED
    BY <1>1, PTL

(* A step of thread x from one place to another, after which its item is v. *)
Moved(x, here, there, v) ==
    /\ FifoPhase[x] = PhaseOf(here) /\ FifoHeld[x] = HeldIn(here, item[x])
    /\ FifoPhase' = [FifoPhase EXCEPT ![x] = PhaseOf(there)]
    /\ FifoHeld' = [FifoHeld EXCEPT ![x] = HeldIn(there, v)]
    /\ PhaseOf(there) = PhaseOf(here) => FifoPhase' = FifoPhase
    /\ HeldIn(there, v) = HeldIn(here, item[x]) => FifoHeld' = FifoHeld

LEMMA PhasesMove ==
    ASSUME program = "fifo.c", program' = "fifo.c", FifoType, NEW x \in Callers,
           NEW here, NEW there, pc[x] = here, pc' = [pc EXCEPT ![x] = there],
           NEW v, item' = [item EXCEPT ![x] = v]
    PROVE  Moved(x, here, there, v)
<1>1. /\ FifoPhase = [t \in Callers |-> PhaseOf(pc[t])]
      /\ FifoHeld = [t \in Callers |-> HeldIn(pc[t], item[t])]
      /\ FifoPhase' = [t \in Callers |-> PhaseOf(pc'[t])]
      /\ FifoHeld' = [t \in Callers |-> HeldIn(pc'[t], item'[t])]
    BY FifoMapped DEF PhasesMapped
<1>2. \A t \in Callers : /\ pc'[t] = IF t = x THEN there ELSE pc[t]
                         /\ item'[t] = IF t = x THEN v ELSE item[t]
    BY DEF FifoType
<1>3. /\ FifoPhase' = [FifoPhase EXCEPT ![x] = PhaseOf(there)]
      /\ FifoHeld' = [FifoHeld EXCEPT ![x] = HeldIn(there, v)]
  <2>1. \A t \in Callers :
            /\ PhaseOf(pc'[t]) = IF t = x THEN PhaseOf(there) ELSE PhaseOf(pc[t])
            /\ HeldIn(pc'[t], item'[t])
                 = IF t = x THEN HeldIn(there, v) ELSE HeldIn(pc[t], item[t])
      BY <1>2
  <2>2. FifoPhase' = [FifoPhase EXCEPT ![x] = PhaseOf(there)]
      BY <1>1, <2>1
  <2>3. FifoHeld' = [FifoHeld EXCEPT ![x] = HeldIn(there, v)]
      BY <1>1, <2>1
  <2>4. QED
      BY <2>2, <2>3
<1>4. FifoPhase[x] = PhaseOf(here) /\ FifoHeld[x] = HeldIn(here, item[x])
    BY <1>1
<1>5. ASSUME PhaseOf(there) = PhaseOf(here) PROVE FifoPhase' = FifoPhase
    BY <1>1, <1>2, <1>5
<1>6. ASSUME HeldIn(there, v) = HeldIn(here, item[x]) PROVE FifoHeld' = FifoHeld
    BY <1>1, <1>2, <1>6
<1>7. QED
    BY <1>3, <1>4, <1>5, <1>6 DEF Moved

(* A step that leaves the list and its values. *)
LEMMA FifoContentsStay ==
    ASSUME program = "fifo.c", program' = "fifo.c", ~ destroyed, ~ destroyed',
           NEW L, HeapInv(Callers, L), HeapInv(Callers, L)', SameValues(L)
    PROVE  FifoContents' = FifoContents
<1>1. Chain(L) /\ Chain(L)' /\ Len(L) \in Nat
    BY DEF HeapInv, Chain
<1>2. FifoContents = Queued(L) /\ FifoContents' = Queued(L)'
    BY <1>1, ContentsAre DEF ContentsMapped
<1>3. \A k \in 1 .. Len(L) - 1 : node'[L[k + 1]].value = node[L[k + 1]].value
  <2>1. \A k \in 1 .. Len(L) - 1 : k + 1 \in 2 .. Len(L)
      BY <1>1
  <2>2. QED
      BY <2>1 DEF SameValues
<1>4. Queued(L)' = Queued(L)
    BY <1>3 DEF Queued
<1>5. QED
    BY <1>2, <1>4

(* Who is how far. *)
LEMMA FifoAt ==
    ASSUME program = "fifo.c"
    PROVE  /\ Fifo!Procs = Callers
           /\ \A ph : Fifo!At(ph) = {t \in Callers : PhaseOf(pc[t]) = ph}
           /\ \A S : Fifo!Cardinality(S) = Cardinality(S)
           /\ \A ph : Cardinality(Fifo!At(ph)) \in Nat
<1>1. Fifo!Procs = Callers
    BY DEF Fifo!Procs, Callers
<1>2. FifoPhase = [t \in Callers |-> PhaseOf(pc[t])]
    BY FifoMapped DEF PhasesMapped
<1>3. ASSUME NEW ph PROVE Fifo!At(ph) = {t \in Callers : PhaseOf(pc[t]) = ph}
  <2>1. Fifo!At(ph) = {t \in Callers : FifoPhase[t] = ph}
      BY <1>1 DEF Fifo!At, FifoPhase, Callers
  <2>2. QED
      BY <1>2, <2>1
<1>4. \A S : Fifo!Cardinality(S) = Cardinality(S)
    BY DEF Fifo!Cardinality, Cardinality
<1>5. ASSUME NEW ph PROVE Cardinality(Fifo!At(ph)) \in Nat
  <2>1. IsFiniteSet(Callers)
      BY Sizes, FS_Interval DEF Callers
  <2>2. Fifo!At(ph) \subseteq Callers
      BY <1>3
  <2>3. QED
      BY <2>1, <2>2, FS_Subset, FS_CardinalityType
<1>6. QED
    BY <1>1, <1>3, <1>4, <1>5

LEMMA AppendIs ==
    ASSUME NEW len \in Nat, NEW q, q = [k \in 1 .. len |-> q[k]], NEW e
    PROVE  Append(q, e) = [k \in 1 .. len + 1 |-> IF k = len + 1 THEN e ELSE q[k]]
OBVIOUS

(* As many different values as there are keys. *)
LEMMA Images ==
    ASSUME NEW S, IsFiniteSet(S), NEW f, DOMAIN f = S,
           \A j, k \in S : f[j] = f[k] => j = k, f = [j \in S |-> f[j]],
           NEW T, T = {f[j] : j \in S}
    PROVE  IsFiniteSet(T) /\ Cardinality(T) = Cardinality(S)
<1>1. f \in [S -> T]
    BY Zenon
<1>2. f \in Injection(S, T)
    BY <1>1 DEF Injection, IsInjective
<1>3. f \in Surjection(S, T)
    BY <1>1 DEF Surjection
<1>4. QED
    BY <1>2, <1>3, FS_Surjection

(* A caller that has yet to insert has a value that is neither queued nor   *)
(* being inserted, and there are VALUES of them.                            *)
LEMMA RoomForItem ==
    ASSUME FifoType, NEW L, QueueRight(L), NEW x \in Callers, pc[x] = "push_alloc",
           NEW I, I = {t \in Callers : PhaseOf(pc[t]) = "inserting"}
    PROVE  (Len(L) - 1) + Cardinality(I) < VALUES
<1> DEFINE V  == 1 .. VALUES
           K  == 2 .. Len(L)
           B  == I \union {x}
           f  == [k \in K |-> node[L[k]].value]
           g  == [t \in B |-> item[t]]
           VA == {f[k] : k \in K}
           VB == {g[t] : t \in B}
<1>1. Apart(Callers, L, Carrying, V) /\ Len(L) \in Nat \ {0}
  <2>1. L \in Seq(Nodes) /\ L # <<>>
      BY DEF QueueRight, HeapInv, Chain
  <2>2. QED
      BY <2>1, ListEnds DEF QueueRight
<1>2. \A t \in B : t \in Callers /\ pc[t] \in Carrying
    BY DEF PhaseOf, Carrying
<1>3. x \notin I
    BY DEF PhaseOf
<1>4. IsFiniteSet(Callers) /\ IsFiniteSet(I) /\ IsFiniteSet(V) /\ Cardinality(V) = VALUES
  <2>1. IsFiniteSet(Callers) /\ IsFiniteSet(V) /\ Cardinality(V) = VALUES
      BY Sizes, FS_Interval DEF Callers
  <2>2. QED
      BY <2>1, FS_Subset
<1>5. IsFiniteSet(B) /\ Cardinality(B) = Cardinality(I) + 1 /\ Cardinality(I) \in Nat
    BY <1>3, <1>4, OneMore
<1>6. IsFiniteSet(K) /\ Cardinality(K) = Len(L) - 1
  <2>1. IsFiniteSet(K) /\ Cardinality(K) = IF 2 > Len(L) THEN 0 ELSE Len(L) - 2 + 1
      BY <1>1, FS_Interval
  <2>2. QED
      BY <1>1, <2>1
<1>7. IsFiniteSet(VA) /\ Cardinality(VA) = Cardinality(K)
  <2>1. \A j, k \in K : f[j] = f[k] => j = k
      BY <1>1 DEF Apart
  <2>2. DOMAIN f = K /\ f = [k \in K |-> f[k]]
      OBVIOUS
  <2> HIDE DEF f, K
  <2>3. QED
      BY <1>6, <2>1, <2>2, Images
<1>8. IsFiniteSet(VB) /\ Cardinality(VB) = Cardinality(B)
  <2>1. \A j, k \in B : g[j] = g[k] => j = k
      BY <1>1, <1>2 DEF Apart
  <2>2. DOMAIN g = B /\ g = [t \in B |-> g[t]]
      OBVIOUS
  <2> HIDE DEF g, B
  <2>3. QED
      BY <1>5, <2>1, <2>2, Images
<1>9. VA \intersect VB = {}
  <2>1. \A k \in K, t \in B : node[L[k]].value # item[t]
      BY <1>1, <1>2 DEF Apart
  <2>2. (\A k \in K : f[k] = node[L[k]].value) /\ \A t \in B : g[t] = item[t]
      OBVIOUS
  <2> HIDE DEF f, g, K, B
  <2>3. QED
      BY <2>1, <2>2
<1>10. VA \union VB \subseteq V
  <2>1. (\A k \in K : f[k] \in V) /\ \A t \in B : g[t] \in V
      BY <1>1, <1>2 DEF Apart
  <2> HIDE DEF f, g, K, B
  <2>2. QED
      BY <2>1
<1> HIDE DEF V, K, B, f, g, VA, VB
<1>11. Cardinality(VA \union VB) = Cardinality(VA) + Cardinality(VB)
  <2>1. Cardinality(VA \union VB)
          = Cardinality(VA) + Cardinality(VB) - Cardinality(VA \intersect VB)
      BY <1>7, <1>8, FS_Union
  <2>2. Cardinality(VA \intersect VB) = 0
      BY <1>9, FS_EmptySet
  <2>3. Cardinality(VA) \in Nat /\ Cardinality(VB) \in Nat
      BY <1>7, <1>8, FS_CardinalityType
  <2>4. QED
      BY <2>1, <2>2, <2>3
<1>12. Cardinality(VA \union VB) <= Cardinality(V)
    BY <1>4, <1>10, FS_Subset
<1>13. QED
    BY <1>1, <1>4, <1>5, <1>6, <1>7, <1>8, <1>11, <1>12, Sizes

(* The state in which the steps of fifo.c's callers are seen. *)
Queueing(L) ==
    program = "fifo.c" /\ program' = "fifo.c" /\ ~ destroyed /\ ~ destroyed'
    /\ FifoType /\ QueueRight(L)

LEMMA CallPushRefines ==
    ASSUME NEW L, Queueing(L), NEW x \in Callers, NEW v \in 1 .. VALUES,
           Linked!CallPush(x, v)
    PROVE  Fifo!BeginPush(x, v)
<1>1. /\ pc[x] = "idle" /\ pc' = [pc EXCEPT ![x] = "push_alloc"]
      /\ item' = [item EXCEPT ![x] = v] /\ v \in Int
      /\ node' = node /\ allocated' = allocated /\ tmp' = tmp /\ head' = head
      /\ tail' = tail /\ head_lock' = head_lock /\ tail_lock' = tail_lock
    BY DEF Linked!CallPush, Linked!Goto, Linked!SetItem, Linked!heapVars, Linked!queueVars
<1>2. FifoType /\ HeapInv(Callers, L) /\ program = "fifo.c" /\ program' = "fifo.c"
      /\ ~ destroyed /\ ~ destroyed'
    BY DEF Queueing, QueueRight
<1>3. /\ PhaseOf("idle") = "idle" /\ PhaseOf("push_alloc") = "push"
      /\ HeldIn("push_alloc", v) = v
      /\ "idle" \notin Busy /\ "push_alloc" \notin Busy
    BY DEF PhaseOf, HeldIn, Busy, Tailing, Heading, Handling
<1>4. /\ FifoPhase[x] = "idle" /\ FifoPhase' = [FifoPhase EXCEPT ![x] = "push"]
      /\ FifoHeld' = [FifoHeld EXCEPT ![x] = v]
  <2>1. Moved(x, "idle", "push_alloc", v)
      BY <1>1, <1>2, PhasesMove
  <2>2. QED
      BY <1>3, <2>1 DEF Moved
<1>5. FifoContents' = FifoContents
  <2>1. HeapInv(Callers, L)'
      BY <1>1, <1>2, <1>3, HeapAside
  <2>2. QED
      BY <1>1, <1>2, <2>1, SameNode, FifoContentsStay
<1>6. QED
    BY <1>4, <1>5
    DEF Fifo!BeginPush, Fifo!Move, Fifo!Hold, FifoPhase, FifoHeld, FifoContents, Callers

(* A step of a call that leaves the list: what the FIFO queue sees of it    *)
(* is how far the caller is.                                                *)
LEMMA QuietMove ==
    ASSUME NEW L, Queueing(L), NEW x \in Callers, Linked!QueueStep(x),
           pc[x] # "push_link", pc[x] # "pop_take", pc[x] # "push_unlock"
    PROVE  /\ FifoContents' = FifoContents
           /\ \E there : <<pc[x], there>> \in QuietMoves /\ Moved(x, pc[x], there, item[x])
<1>1. FifoType /\ HeapInv(Callers, L) /\ program = "fifo.c" /\ program' = "fifo.c"
      /\ ~ destroyed /\ ~ destroyed'
    BY DEF Queueing, QueueRight
<1>2. HeapInv(Callers, L)' /\ SameValues(L)
    BY <1>1, ListStays
<1>3. PICK there : /\ pc' = [pc EXCEPT ![x] = there]
                   /\ <<pc[x], there>> \in QuietMoves
    BY QuietSteps
<1>4. item' = [item EXCEPT ![x] = item[x]]
    BY <1>1, QuietSteps DEF FifoType
<1>5. Moved(x, pc[x], there, item[x])
    BY <1>1, <1>3, <1>4, PhasesMove
<1>6. FifoContents' = FifoContents
    BY <1>1, <1>2, FifoContentsStay
<1>7. QED
    BY <1>3, <1>5, <1>6

LEMMA PushLinkRefines ==
    ASSUME NEW L, Queueing(L), NEW x \in Callers, Linked!PushLink(x), destroyed' = destroyed
    PROVE  Fifo!Insert(x)
<1>1. FifoType /\ QueueRight(L) /\ HeapInv(Callers, L) /\ program = "fifo.c"
      /\ program' = "fifo.c" /\ ~ destroyed /\ ~ destroyed'
    BY DEF Queueing, QueueRight
<1>2. /\ pc[x] = "push_link" /\ pc' = [pc EXCEPT ![x] = "push_tail"] /\ item' = item
    BY DEF Linked!PushLink, Linked!Goto
<1>3. item' = [item EXCEPT ![x] = item[x]]
    BY <1>1, <1>2 DEF FifoType
<1>4. Moved(x, "push_link", "push_tail", item[x])
    BY <1>1, <1>2, <1>3, PhasesMove
<1>5. /\ PhaseOf("push_link") = "inserting" /\ PhaseOf("push_tail") = "inserted"
      /\ HeldIn("push_link", item[x]) = item[x] /\ HeldIn("push_tail", item[x]) = item[x]
    BY DEF PhaseOf, HeldIn
<1>6. /\ FifoPhase[x] = "inserting" /\ FifoPhase' = [FifoPhase EXCEPT ![x] = "inserted"]
      /\ FifoHeld[x] = item[x] /\ FifoHeld' = FifoHeld
    BY <1>4, <1>5 DEF Moved
<1>a. PICK n : n = tmp[x]
    OBVIOUS
<1>b. PICK M : M = Append(L, tmp[x])
    OBVIOUS
<1>7. HeapInv(Callers, M)'
    BY <1>1, <1>b, HeapPushLink
<1>8. /\ L \in Seq(Nodes) /\ L # <<>> /\ Len(L) \in Nat \ {0}
      /\ \A k \in 1 .. Len(L) : L[k] \in Nodes
    BY <1>1, ListEnds DEF HeapInv, Chain
<1>9. n \in Nodes /\ node[n].value = item[x]
    BY <1>1, <1>2, <1>a DEF HeapInv, HandsRight, HeapType, Handling
<1>10. \A m \in Nodes : node'[m].value = node[m].value
    BY <1>1, LinkKeepsValues
<1>11. Longer(L, M, n)
    BY <1>8, <1>9, <1>a, <1>b, ListGrows
<1>12. FifoContents = Queued(L) /\ FifoContents' = Queued(M)'
    BY <1>1, <1>7, ContentsAre DEF ContentsMapped, HeapInv
<1>13. Queued(M)' = Append(Queued(L), item[x])
  <2>1. /\ Len(M) = Len(L) + 1 /\ M[Len(M)] = n
        /\ \A k \in 1 .. Len(L) : M[k] = L[k]
      BY <1>11 DEF Longer
  <2>2. \A k \in 1 .. Len(L) - 1 : node'[M[k + 1]].value = node[L[k + 1]].value
    <3>1. \A k \in 1 .. Len(L) - 1 : k + 1 \in 1 .. Len(L)
        BY <1>8
    <3>2. QED
        BY <1>8, <1>10, <2>1, <3>1
  <2>3. node'[M[Len(L) + 1]].value = item[x]
      BY <1>9, <1>10, <2>1
  <2>4. PICK len \in Nat : len = Len(L) - 1 /\ len + 1 = Len(L) /\ Len(M) - 1 = len + 1
      BY <1>8, <2>1
  <2>5. Queued(M)' = [k \in 1 .. len + 1 |-> node'[M[k + 1]].value]
      BY <2>4 DEF Queued
  <2>6. Queued(L) = [k \in 1 .. len |-> node[L[k + 1]].value]
      BY <2>4 DEF Queued
  <2>7. Append(Queued(L), item[x])
          = [k \in 1 .. len + 1 |-> IF k = len + 1 THEN item[x] ELSE Queued(L)[k]]
      BY <2>6, AppendIs
  <2>8. ASSUME NEW k \in 1 .. len + 1
        PROVE  node'[M[k + 1]].value = IF k = len + 1 THEN item[x] ELSE Queued(L)[k]
    <3>1. CASE k = len + 1
        BY <2>3, <2>4, <3>1
    <3>2. CASE k # len + 1
      <4>1. k \in 1 .. len
          BY <2>4, <3>2
      <4>2. QED
          BY <2>2, <2>4, <2>6, <3>2, <4>1
    <3>3. QED
        BY <3>1, <3>2
  <2>9. QED
      BY <2>5, <2>7, <2>8
<1>14. FifoContents' = Append(FifoContents, FifoHeld[x])
    BY <1>6, <1>12, <1>13
<1>15. QED
    BY <1>6, <1>14 DEF Fifo!Insert, Fifo!Move, FifoPhase, FifoHeld, FifoContents, Callers

LEMMA PushUnlockRefines ==
    ASSUME NEW L, Queueing(L), NEW x \in Callers, Linked!QueueStep(x), pc[x] = "push_unlock"
    PROVE  Fifo!EndPush(x)
<1>1. FifoType /\ HeapInv(Callers, L) /\ program = "fifo.c" /\ program' = "fifo.c"
      /\ ~ destroyed /\ ~ destroyed'
    BY DEF Queueing, QueueRight
<1>2. /\ pc' = [pc EXCEPT ![x] = "idle"] /\ item' = [item EXCEPT ![x] = 0]
    BY LoudSteps DEF Linked!PushUnlock, Linked!Goto, Linked!SetItem
<1>3. Moved(x, "push_unlock", "idle", 0)
    BY <1>1, <1>2, PhasesMove
<1>4. FifoContents' = FifoContents
    BY <1>1, ListStays, FifoContentsStay
<1>5. /\ PhaseOf("push_unlock") = "inserted" /\ PhaseOf("idle") = "idle"
      /\ HeldIn("idle", 0) = 0
    BY DEF PhaseOf, HeldIn
<1>6. /\ FifoPhase[x] = "inserted" /\ FifoPhase' = [FifoPhase EXCEPT ![x] = "idle"]
      /\ FifoHeld' = [FifoHeld EXCEPT ![x] = 0]
    BY <1>3, <1>5 DEF Moved
<1>7. QED
    BY <1>4, <1>6
    DEF Fifo!EndPush, Fifo!Move, Fifo!Hold, FifoPhase, FifoHeld, FifoContents, Callers

LEMMA TailIs ==
    ASSUME NEW len \in Nat, len > 0, NEW q, q = [k \in 1 .. len |-> q[k]]
    PROVE  /\ Tail(q) = [k \in 1 .. len - 1 |-> q[k + 1]]
           /\ Head(q) = q[1] /\ q # <<>> /\ Len(q) = len
OBVIOUS

LEMMA PopTakeRefines ==
    ASSUME NEW L, Queueing(L), NEW x \in Callers, Linked!PopTake(x), destroyed' = destroyed
    PROVE  Fifo!Remove(x)
<1>1. FifoType /\ HeapInv(Callers, L) /\ program = "fifo.c" /\ program' = "fifo.c"
      /\ ~ destroyed /\ ~ destroyed'
    BY DEF Queueing, QueueRight
<1>2. PICK M : M = Tail(L)
    OBVIOUS
<1>3. /\ HeapInv(Callers, M)' /\ Len(L) > 1
      /\ item' = [item EXCEPT ![x] = node[L[2]].value]
    BY <1>1, <1>2, HeapPopTake
<1>4. /\ pc[x] = "pop_take" /\ pc' = [pc EXCEPT ![x] = "pop_unlock"] /\ node' = node
    BY DEF Linked!PopTake, Linked!Goto, Linked!heapVars
<1>5. Moved(x, "pop_take", "pop_unlock", node[L[2]].value)
    BY <1>1, <1>3, <1>4, PhasesMove
<1>6. /\ PhaseOf("pop_take") = "removing" /\ PhaseOf("pop_unlock") = "removed"
      /\ HeldIn("pop_unlock", node[L[2]].value) = node[L[2]].value
    BY DEF PhaseOf, HeldIn
<1>7. /\ FifoPhase[x] = "removing" /\ FifoPhase' = [FifoPhase EXCEPT ![x] = "removed"]
      /\ FifoHeld' = [FifoHeld EXCEPT ![x] = node[L[2]].value]
    BY <1>5, <1>6 DEF Moved
<1>8. FifoContents = Queued(L) /\ FifoContents' = Queued(M)'
    BY <1>1, <1>3, ContentsAre DEF ContentsMapped, HeapInv
<1>9. L \in Seq(Nodes) /\ NoRepeats(L) /\ Len(L) \in Nat
    BY <1>1 DEF HeapInv, Chain
<1>10. Len(M) = Len(L) - 1 /\ \A k \in 1 .. Len(M) : M[k] = L[k + 1]
    BY <1>2, <1>3, <1>9, ListShrinks DEF Shorter
<1>11. PICK len \in Nat : len = Len(L) - 1 /\ len > 0 /\ Len(M) - 1 = len - 1
    BY <1>3, <1>9, <1>10
<1>12. Queued(L) = [k \in 1 .. len |-> node[L[k + 1]].value]
    BY <1>11 DEF Queued
<1>13. Queued(M)' = [k \in 1 .. len - 1 |-> node'[M[k + 1]].value]
    BY <1>11 DEF Queued
<1>14. /\ Tail(Queued(L)) = [k \in 1 .. len - 1 |-> Queued(L)[k + 1]]
       /\ Head(Queued(L)) = Queued(L)[1] /\ Queued(L) # <<>>
    BY <1>11, <1>12, TailIs
<1>15. \A k \in 1 .. len - 1 : node'[M[k + 1]].value = Queued(L)[k + 1]
  <2> TAKE k \in 1 .. len - 1
  <2>1. k + 1 \in 1 .. Len(M) /\ k + 1 \in 1 .. len
      BY <1>11
  <2>2. M[k + 1] = L[(k + 1) + 1]
      BY <1>10, <2>1
  <2>3. QED
      BY <1>4, <1>12, <2>1, <2>2
<1>16. FifoContents' = Tail(FifoContents)
    BY <1>8, <1>13, <1>14, <1>15
<1>17. Head(FifoContents) = node[L[2]].value /\ FifoContents # <<>>
  <2>1. 1 \in 1 .. len /\ 1 + 1 = 2
      BY <1>11
  <2>2. QED
      BY <1>8, <1>12, <1>14, <2>1
<1>18. FifoHeld' = [FifoHeld EXCEPT ![x] = Head(FifoContents)]
    BY <1>7, <1>17
<1>19. QED
    BY <1>7, <1>16, <1>17, <1>18
    DEF Fifo!Remove, Fifo!Move, Fifo!Hold, FifoPhase, FifoHeld, FifoContents, Callers

(* A pop that saw a node behind the dummy may take it, because no other pop *)
(* is inside; one that saw none is refused, and the queue is empty.         *)
LEMMA PopReadRefines ==
    ASSUME NEW L, Queueing(L), NEW x \in Callers, Linked!QueueStep(x), pc[x] = "pop_read"
    PROVE  Fifo!AcceptPop(x) \/ Fifo!RefusePop(x)
<1>1. FifoType /\ HeapInv(Callers, L) /\ program = "fifo.c" /\ program' = "fifo.c"
      /\ ~ destroyed /\ ~ destroyed'
    BY DEF Queueing, QueueRight
<1>2. FifoContents' = FifoContents
    BY QuietMove
<1>3. PICK there :
          /\ there = IF node[head].next = None THEN "pop_empty" ELSE "pop_take"
          /\ pc' = [pc EXCEPT ![x] = there]
    BY DEF Linked!QueueStep, Linked!Goto, Linked!PushAlloc, Linked!PushLock, Linked!PushLink,
       Linked!PushTail, Linked!PushUnlock, Linked!PopLock, Linked!PopRead, Linked!PopEmpty,
       Linked!PopTake, Linked!PopUnlock, Linked!PopFree
<1>4. item' = item /\ item' = [item EXCEPT ![x] = item[x]]
    BY <1>1, QuietSteps DEF FifoType
<1>5. Moved(x, "pop_read", there, item[x])
    BY <1>1, <1>3, <1>4, PhasesMove
<1>6. /\ PhaseOf("pop_read") = "trypop" /\ PhaseOf("pop_take") = "removing"
      /\ PhaseOf("pop_empty") = "idle"
      /\ HeldIn("pop_read", item[x]) = HeldIn(there, item[x])
    BY <1>3 DEF PhaseOf, HeldIn
<1>7. /\ FifoPhase[x] = "trypop" /\ FifoPhase' = [FifoPhase EXCEPT ![x] = PhaseOf(there)]
      /\ FifoHeld' = FifoHeld
    BY <1>5, <1>6 DEF Moved
<1>8. /\ node[head].next = None <=> Len(L) = 1
      /\ L \in Seq(Nodes) /\ L # <<>> /\ Len(L) \in Nat \ {0}
    BY <1>1, HeadNext, ListEnds DEF HeapInv, Chain
<1>9. FifoContents = Queued(L)
    BY <1>1, ContentsAre DEF ContentsMapped, HeapInv
<1>10. Len(FifoContents) = Len(L) - 1
  <2>1. PICK len \in Nat : len = Len(L) - 1
      BY <1>8
  <2>2. Len(Queued(L)) = len
      BY <2>1 DEF Queued
  <2>3. QED
      BY <1>9, <2>1, <2>2
<1>11. /\ Fifo!Cardinality(Fifo!At("removing")) \in Nat
       /\ Fifo!Cardinality(Fifo!At("inserted")) \in Nat
    BY <1>1, FifoAt
<1>12. CASE Len(L) = 1
  <2>1. FifoPhase' = [FifoPhase EXCEPT ![x] = "idle"]
      BY <1>3, <1>6, <1>7, <1>8, <1>12
  <2>2. Len(FifoContents) <= Fifo!Cardinality(Fifo!At("removing"))
                               + Fifo!Cardinality(Fifo!At("inserted"))
      BY <1>10, <1>11, <1>12
  <2>3. Fifo!RefusePop(x)
      BY <1>2, <1>7, <2>1, <2>2
      DEF Fifo!RefusePop, Fifo!Move, FifoPhase, FifoHeld, FifoContents, Callers
  <2>4. QED
      BY <2>3
<1>13. CASE Len(L) # 1
  <2>1. FifoPhase' = [FifoPhase EXCEPT ![x] = "removing"]
      BY <1>3, <1>6, <1>7, <1>8, <1>13
  <2>2. \A t \in Callers : PhaseOf(pc[t]) # "removing"
    <3>1. \A t \in Callers : pc[t] # "pop_take"
        BY <1>1 DEF HeapInv, HeapLocked, Heading
    <3>2. QED
        BY <3>1 DEF PhaseOf
  <2>3. Fifo!At("removing") = {}
      BY <1>1, <2>2, FifoAt
  <2>4. Fifo!Cardinality(Fifo!At("removing")) = 0
      BY <1>1, <2>3, FifoAt, FS_EmptySet
  <2>5. Fifo!Cardinality(Fifo!At("removing")) < Len(FifoContents)
      BY <1>8, <1>10, <1>13, <2>4
  <2>6. Fifo!AcceptPop(x)
      BY <1>2, <1>7, <2>1, <2>5
      DEF Fifo!AcceptPop, Fifo!Move, FifoPhase, FifoHeld, FifoContents, Callers
  <2>7. QED
      BY <2>6
<1>14. QED
    BY <1>12, <1>13

(* The other steps of a call: the two ends of a FIFO operation that leave   *)
(* the list, and steps that the FIFO queue does not see.                    *)
LEMMA QuietRefines ==
    ASSUME NEW L, Queueing(L), NEW x \in Callers, Linked!QueueStep(x),
           pc[x] # "push_link", pc[x] # "pop_take", pc[x] # "push_unlock", pc[x] # "pop_read"
    PROVE  Fifo!AcceptPush(x) \/ Fifo!EndPop(x) \/ UNCHANGED Fifo!vars
<1>1. FifoType /\ QueueRight(L) /\ HeapInv(Callers, L) /\ program = "fifo.c"
      /\ ~ destroyed
    BY DEF Queueing, QueueRight
<1>2. FifoContents' = FifoContents
    BY QuietMove
<1>3. PICK here, there : /\ here = pc[x] /\ <<here, there>> \in QuietMoves
                         /\ Moved(x, here, there, item[x])
    BY QuietMove
<1>4. CASE here = "push_alloc"
  <2>1. there = "push_lock"
      BY <1>3, <1>4 DEF QuietMoves
  <2>2. /\ PhaseOf("push_alloc") = "push" /\ PhaseOf("push_lock") = "inserting"
        /\ HeldIn("push_alloc", item[x]) = HeldIn("push_lock", item[x])
      BY DEF PhaseOf, HeldIn
  <2>3. /\ FifoPhase[x] = "push" /\ FifoPhase' = [FifoPhase EXCEPT ![x] = "inserting"]
        /\ FifoHeld' = FifoHeld
      BY <1>3, <1>4, <2>1, <2>2 DEF Moved
  <2>4. Len(FifoContents) = Len(L) - 1
    <3>1. L \in Seq(Nodes) /\ L # <<>> /\ Chain(L)
        BY <1>1 DEF HeapInv, Chain
    <3>2. Len(L) \in Nat \ {0}
        BY <3>1, ListEnds
    <3>3. PICK len \in Nat : len = Len(L) - 1
        BY <3>2
    <3>4. Len(Queued(L)) = len
        BY <3>3 DEF Queued
    <3>5. QED
        BY <1>1, <3>1, <3>3, <3>4, ContentsAre DEF ContentsMapped
  <2>5. PICK I : I = {t \in Callers : PhaseOf(pc[t]) = "inserting"}
      OBVIOUS
  <2>6. (Len(L) - 1) + Cardinality(I) < VALUES
      BY <1>1, <1>3, <1>4, <2>5, RoomForItem
  <2>7. Fifo!Cardinality(Fifo!At("inserting")) = Cardinality(I)
      BY <1>1, <2>5, FifoAt
  <2>8. Len(FifoContents) + Fifo!Cardinality(Fifo!At("inserting")) < VALUES
      BY <2>4, <2>6, <2>7
  <2>9. Fifo!AcceptPush(x)
      BY <1>2, <2>3, <2>8
      DEF Fifo!AcceptPush, Fifo!Move, FifoPhase, FifoHeld, FifoContents, Callers
  <2>10. QED
      BY <2>9
<1>5. CASE here = "pop_free"
  <2>1. there = "print"
      BY <1>3, <1>5 DEF QuietMoves
  <2>2. /\ PhaseOf("pop_free") = "removed" /\ PhaseOf("print") = "idle"
        /\ HeldIn("print", item[x]) = 0
      BY DEF PhaseOf, HeldIn
  <2>3. /\ FifoPhase[x] = "removed" /\ FifoPhase' = [FifoPhase EXCEPT ![x] = "idle"]
        /\ FifoHeld' = [FifoHeld EXCEPT ![x] = 0]
      BY <1>3, <1>5, <2>1, <2>2 DEF Moved
  <2>4. Fifo!EndPop(x)
      BY <1>2, <2>3
      DEF Fifo!EndPop, Fifo!Move, Fifo!Hold, FifoPhase, FifoHeld, FifoContents, Callers
  <2>5. QED
      BY <2>4
<1>6. CASE here # "push_alloc" /\ here # "pop_free"
  <2>1. PhaseOf(there) = PhaseOf(here)
      BY <1>3, <1>6 DEF QuietMoves, PhaseOf
  <2>2. HeldIn(there, item[x]) = HeldIn(here, item[x])
    <3>1. CASE here = "pop_empty"
      <4>1. item[x] = 0
          BY <1>1, <1>3, <3>1 DEF FifoType, EmptyHand
      <4>2. QED
          BY <4>1 DEF HeldIn
    <3>2. CASE here # "pop_empty"
      <4>1. there # "print" /\ here # "print"
          BY <1>3, <1>6, <3>2 DEF QuietMoves
      <4>2. QED
          BY <4>1 DEF HeldIn
    <3>3. QED
        BY <3>1, <3>2
  <2>3. FifoPhase' = FifoPhase /\ FifoHeld' = FifoHeld
      BY <1>3, <2>1, <2>2 DEF Moved
  <2>4. UNCHANGED Fifo!vars
      BY <1>2, <2>3 DEF Fifo!vars, FifoPhase, FifoHeld, FifoContents, Callers
  <2>5. QED
      BY <2>4
<1>7. QED
    BY <1>4, <1>5, <1>6

LEMMA WorkRefines ==
    ASSUME NEW L, Queueing(L), NEW x \in Callers, Linked!Work(x)
    PROVE  Fifo!Next \/ UNCHANGED Fifo!vars
<1>1. Linked!QueueStep(x) /\ destroyed' = destroyed
    BY DEF Linked!Work
<1>2. Fifo!Insert(x) \/ Fifo!EndPush(x) \/ Fifo!AcceptPush(x) \/ Fifo!Remove(x)
      \/ Fifo!AcceptPop(x) \/ Fifo!RefusePop(x) \/ Fifo!EndPop(x) \/ UNCHANGED Fifo!vars
  <2>1. CASE pc[x] = "push_link"
      BY <1>1, <2>1, LoudSteps, PushLinkRefines
  <2>2. CASE pc[x] = "pop_take"
      BY <1>1, <2>2, LoudSteps, PopTakeRefines
  <2>3. CASE pc[x] = "push_unlock"
      BY <1>1, <2>3, PushUnlockRefines
  <2>4. CASE pc[x] = "pop_read"
      BY <1>1, <2>4, PopReadRefines
  <2>5. CASE pc[x] # "push_link" /\ pc[x] # "pop_take" /\ pc[x] # "push_unlock"
             /\ pc[x] # "pop_read"
      BY <1>1, <2>5, QuietRefines
  <2>6. QED
      BY <2>1, <2>2, <2>3, <2>4, <2>5
<1>3. QED
    BY <1>2 DEF Fifo!Next, Callers

LEMMA CallPopRefines ==
    ASSUME NEW L, Queueing(L), NEW x \in Callers, Linked!CallPop(x)
    PROVE  Fifo!BeginPop(x)
<1>1. /\ pc[x] = "idle" /\ pc' = [pc EXCEPT ![x] = "pop_lock"] /\ item' = item
      /\ node' = node /\ allocated' = allocated /\ tmp' = tmp /\ head' = head
      /\ tail' = tail /\ head_lock' = head_lock /\ tail_lock' = tail_lock
    BY DEF Linked!CallPop, Linked!Goto, Linked!heapVars, Linked!queueVars
<1>2. FifoType /\ HeapInv(Callers, L) /\ program = "fifo.c" /\ program' = "fifo.c"
      /\ ~ destroyed /\ ~ destroyed'
    BY DEF Queueing, QueueRight
<1>3. item' = [item EXCEPT ![x] = item[x]] /\ item[x] \in Int
    BY <1>1, <1>2 DEF FifoType
<1>4. /\ PhaseOf("idle") = "idle" /\ PhaseOf("pop_lock") = "trypop"
      /\ HeldIn("pop_lock", item[x]) = HeldIn("idle", item[x])
      /\ "idle" \notin Busy /\ "pop_lock" \notin Busy
    BY DEF PhaseOf, HeldIn, Busy, Tailing, Heading, Handling
<1>5. Moved(x, "idle", "pop_lock", item[x])
    BY <1>1, <1>2, <1>3, PhasesMove
<1>6. /\ FifoPhase[x] = "idle" /\ FifoPhase' = [FifoPhase EXCEPT ![x] = "trypop"]
      /\ FifoHeld' = FifoHeld
    BY <1>4, <1>5 DEF Moved
<1>7. HeapInv(Callers, L)'
    BY <1>1, <1>2, <1>3, <1>4, HeapAside
<1>8. FifoContents' = FifoContents
    BY <1>1, <1>2, <1>7, SameNode, FifoContentsStay
<1>9. QED
    BY <1>6, <1>8
    DEF Fifo!BeginPop, Fifo!Move, FifoPhase, FifoHeld, FifoContents, Callers

LEMMA PrintRefines ==
    ASSUME NEW L, Queueing(L), NEW x \in Callers, Linked!PrintValue(x)
    PROVE  UNCHANGED Fifo!vars
<1>1. /\ pc[x] = "print" /\ pc' = [pc EXCEPT ![x] = "idle"]
      /\ item' = [item EXCEPT ![x] = 0]
      /\ node' = node /\ allocated' = allocated /\ tmp' = tmp /\ head' = head
      /\ tail' = tail /\ head_lock' = head_lock /\ tail_lock' = tail_lock
    BY DEF Linked!PrintValue, Linked!Goto, Linked!SetItem, Linked!heapVars,
           Linked!queueVars
<1>2. FifoType /\ HeapInv(Callers, L) /\ program = "fifo.c" /\ program' = "fifo.c"
      /\ ~ destroyed /\ ~ destroyed'
    BY DEF Queueing, QueueRight
<1>3. /\ PhaseOf("idle") = PhaseOf("print") /\ HeldIn("idle", 0) = HeldIn("print", item[x])
      /\ "idle" \notin Busy /\ "print" \notin Busy /\ 0 \in Int
    BY DEF PhaseOf, HeldIn, Busy, Tailing, Heading, Handling
<1>4. Moved(x, "print", "idle", 0)
    BY <1>1, <1>2, PhasesMove
<1>5. FifoPhase' = FifoPhase /\ FifoHeld' = FifoHeld
    BY <1>3, <1>4 DEF Moved
<1>6. HeapInv(Callers, L)'
    BY <1>1, <1>2, <1>3, HeapAside
<1>7. FifoContents' = FifoContents
    BY <1>1, <1>2, <1>6, SameNode, FifoContentsStay
<1>8. QED
    BY <1>5, <1>7 DEF Fifo!vars, FifoPhase, FifoHeld, FifoContents, Callers

(* fifo.c once it is cleaned up, and on the way there. *)
LEMMA PhasesStay ==
    ASSUME program = "fifo.c", program' = "fifo.c", pc' = pc, item' = item
    PROVE  FifoPhase' = FifoPhase /\ FifoHeld' = FifoHeld
BY FifoMapped DEF PhasesMapped

LEMMA CleanUpRefines ==
    ASSUME program = "fifo.c", program' = "fifo.c", Linked!CleanUp
    PROVE  UNCHANGED Fifo!vars
<1>1. /\ ~ destroyed /\ destroyed' /\ Linked!Contents = <<>> /\ pc' = pc /\ item' = item
    BY DEF Linked!CleanUp, Linked!Cleanup
<1>2. FifoContents = <<>> /\ FifoContents' = <<>>
    BY <1>1 DEF FifoContents, Linked!AbstractContents
<1>3. QED
    BY <1>1, <1>2, PhasesStay DEF Fifo!vars, FifoPhase, FifoHeld, FifoContents, Callers

LEMMA IdleRefines ==
    ASSUME program = "fifo.c", program' = "fifo.c", LinkedInv,
           UNCHANGED <<linkedVars, destroyed, pc>>
    PROVE  UNCHANGED Fifo!vars
<1>1. /\ node' = node /\ destroyed' = destroyed /\ pc' = pc /\ item' = item
      /\ allocated' = allocated /\ head' = head /\ tail' = tail
      /\ head_lock' = head_lock /\ tail_lock' = tail_lock /\ tmp' = tmp
    BY DEF linkedVars
<1>2. FifoContents' = FifoContents
  <2>1. CASE destroyed
      BY <1>1, <2>1 DEF FifoContents, Linked!AbstractContents
  <2>2. CASE ~ destroyed
    <3>1. PICK L : QueueRight(L)
        BY <2>2 DEF LinkedInv
    <3>2. HeapInv(Callers, L)
        BY <3>1 DEF QueueRight
    <3>3. HeapInv(Callers, L)'
        BY <1>1, <3>2 DEF HeapInv, HeapType, HeapLocked, Chain, TailRight, HandsRight
    <3>4. QED
        BY <1>1, <2>2, <3>2, <3>3, SameNode, FifoContentsStay
  <2>3. QED
      BY <2>1, <2>2
<1>3. QED
    BY <1>1, <1>2, PhasesStay DEF Fifo!vars, FifoPhase, FifoHeld, FifoContents, Callers

-----------------------------------------------------------------------------
(* Demos.  A behaviour is one program's, and the program does not change.   *)

SpawnersInv ==
    /\ program = "spawner.c" => SpawnerInv
    /\ program = "spawner_plus_counter.c" => CountedInv

LEMMA SpawnersInit == Init => SpawnersInv
<1> SUFFICES ASSUME Init PROVE SpawnersInv
    OBVIOUS
<1>1. ASSUME program = "spawner.c" PROVE SpawnerInv
    BY <1>1, SpawnerInit DEF Init
<1>2. ASSUME program = "spawner_plus_counter.c" PROVE CountedInv
    BY <1>2, CountedInit DEF Init
<1>3. QED
    BY <1>1, <1>2 DEF SpawnersInv

LEMMA SpawnersNext == SpawnersInv /\ [Next]_vars => SpawnersInv'
<1> SUFFICES ASSUME SpawnersInv, [Next]_vars PROVE SpawnersInv'
    OBVIOUS
<1>1. program' = program
    BY DEF Next, LinkedStep, TokenStep, BoundedStep, SpawnerStep, CountedStep, LegacyStep, vars
<1>2. ASSUME program = "spawner.c" PROVE SpawnerInv'
  <2>1. CASE Next
    <3>1. Spawning!Next
        BY <1>2, <2>1 DEF Next, LinkedStep, TokenStep, BoundedStep, SpawnerStep,
                          CountedStep, LegacyStep
    <3>2. QED
        BY <1>2, <3>1, SpawnerNext DEF SpawnersInv
  <2>2. CASE UNCHANGED vars
    <3>1. UNCHANGED <<s, i, main, pc>>
        BY <2>2 DEF vars
    <3>2. QED
        BY <1>2, <3>1 DEF SpawnersInv, SpawnerInv, Running, Pacing, Waited
  <2>3. QED
      BY <2>1, <2>2
<1>3. ASSUME program = "spawner_plus_counter.c" PROVE CountedInv'
  <2>1. CASE Next
    <3>1. Counted!Next
        BY <1>3, <2>1 DEF Next, LinkedStep, TokenStep, BoundedStep, SpawnerStep,
                          CountedStep, LegacyStep
    <3>2. QED
        BY <1>3, <3>1, CountedNext DEF SpawnersInv
  <2>2. CASE UNCHANGED vars
    <3>1. UNCHANGED <<s, main, pc, value, lock, loops, rc>>
        BY <2>2 DEF vars, counterVars
    <3>2. QED
        BY <1>3, <3>1 DEF SpawnersInv, CountedInv, CountedType, CounterLocked, CounterExact,
                          Made, Finished
  <2>3. QED
      BY <2>1, <2>2
<1>4. QED
    BY <1>1, <1>2, <1>3 DEF SpawnersInv

(* Whatever a spawner's main says when it is done with waiting is true: the *)
(* first one's threads are all through, and the second one's count lies     *)
(* between what one thread and what all of them add.                        *)
THEOREM MainWaits == Spec => []MainHasWaited
<1>1. SpawnersInv => MainHasWaited
    BY SpawnerPaced, CountedPrints DEF SpawnersInv, MainHasWaited
<1>2. QED
    BY <1>1, SpawnersInit, SpawnersNext, PTL DEF Spec

ServingInv == program = "bounded_queue.c" => BoundedInv

LEMMA ServingInit == Init => ServingInv
BY BoundedInit DEF Init, ServingInv

LEMMA ServingNext == ServingInv /\ [Next]_vars => ServingInv'
<1> SUFFICES ASSUME ServingInv, [Next]_vars PROVE ServingInv'
    OBVIOUS
<1>a. program' = program
    BY DEF Next, LinkedStep, TokenStep, BoundedStep, SpawnerStep, CountedStep, LegacyStep, vars
<1> SUFFICES ASSUME program = "bounded_queue.c" PROVE BoundedInv'
    BY <1>a DEF ServingInv
<1>1. BoundedInv
    BY DEF ServingInv
<1>2. CASE Next
  <2>1. Bounded!Next
      BY <1>2 DEF Next, LinkedStep, TokenStep, BoundedStep, SpawnerStep, CountedStep, LegacyStep
  <2>2. QED
      BY <1>1, <2>1, BoundedNext
<1>3. CASE UNCHANGED vars
  <2>1. UNCHANGED <<b, pc, temp, announced, no_served>>
      BY <1>3 DEF vars, ringVars, boundedVars
  <2>2. QED
      BY <1>1, <2>1
      DEF BoundedInv, BoundedType, InOnePlace, CountRight, Served, InRing, BKept
<1>4. QED
    BY <1>2, <1>3

(* A cashier leaves bounded_queue.c only when every client was taken from   *)
(* the queue once, and by a cashier that has announced it or is about to:   *)
(* the counter says how many were taken, and no client is taken twice.      *)
THEOREM EveryClientServed == Spec => []NobodyLeftBehind
<1>1. ServingInv => NobodyLeftBehind
    BY BoundedLeft DEF ServingInv, NobodyLeftBehind
<1>2. QED
    BY <1>1, ServingInit, ServingNext, PTL DEF Spec

NumberingInv == program = "sem_queue.c" => LegacyInv

LEMMA NumberingInit == Init => NumberingInv
BY LegacyInit DEF Init, NumberingInv

LEMMA NumberingNext == NumberingInv /\ [Next]_vars => NumberingInv'
<1> SUFFICES ASSUME NumberingInv, [Next]_vars PROVE NumberingInv'
    OBVIOUS
<1>a. program' = program
    BY DEF Next, LinkedStep, TokenStep, BoundedStep, SpawnerStep, CountedStep, LegacyStep, vars
<1> SUFFICES ASSUME program = "sem_queue.c" PROVE LegacyInv'
    BY <1>a DEF NumberingInv
<1>1. LegacyInv
    BY DEF NumberingInv
<1>2. CASE Next
  <2>1. Legacy!Next
      BY <1>2 DEF Next, LinkedStep, TokenStep, BoundedStep, SpawnerStep, CountedStep, LegacyStep
  <2>2. QED
      BY <1>1, <2>1, LegacyNext
<1>3. CASE UNCHANGED vars
  <2>1. UNCHANGED <<b, pc, temp, c, printed, i>>
      BY <1>3 DEF vars, ringVars, legacyVars
  <2>2. QED
      BY <1>1, <2>1
      DEF LegacyInv, LegacyType, NumbersRight, NumbersUpTo, InHand, InSlots, Paper, Looking,
          LKept
<1>4. QED
    BY <1>2, <1>3

(* The producers of sem_queue.c count in one call and look in another, and  *)
(* may see the same number; of the numbers up to k there are never more     *)
(* than k, wherever they are, because nothing is delivered twice.           *)
THEOREM NumbersOnce == Spec => []NumbersNotReused
<1>1. NumberingInv => NumbersNotReused
    BY LegacyNumbers DEF NumberingInv, NumbersNotReused
<1>2. QED
    BY <1>1, NumberingInit, NumberingNext, PTL DEF Spec

QueueingInv == program = "fifo.c" => LinkedInv

LEMMA QueueingInit == Init => QueueingInv
BY LinkedInit DEF Init, QueueingInv

LEMMA QueueingNext == QueueingInv /\ [Next]_vars => QueueingInv'
<1> SUFFICES ASSUME QueueingInv, [Next]_vars PROVE QueueingInv'
    OBVIOUS
<1>a. program' = program
    BY DEF Next, LinkedStep, TokenStep, BoundedStep, SpawnerStep, CountedStep, LegacyStep, vars
<1> SUFFICES ASSUME program = "fifo.c" PROVE LinkedInv'
    BY <1>a DEF QueueingInv
<1>1. LinkedInv
    BY DEF QueueingInv
<1>2. CASE Next
  <2>1. Linked!Next
      BY <1>2 DEF Next, LinkedStep, TokenStep, BoundedStep, SpawnerStep, CountedStep, LegacyStep
  <2>2. QED
      BY <1>1, <2>1, LinkedNext
<1>3. CASE UNCHANGED vars
  <2>1. UNCHANGED <<linkedVars, destroyed, pc>>
      BY <1>3 DEF vars
  <2>2. QED
      BY <1>1, <2>1, LinkedStutter
<1>4. QED
    BY <1>2, <1>3

(* fifo.c handles its nodes safely with any number of threads: each that    *)
(* malloc gave is in the list, with the thread that has yet to link it, or  *)
(* with the one that is about to free it, and nobody else reads it.         *)
THEOREM NodesHandledSafely == Spec => []HeapSafe
<1>1. QueueingInv => HeapSafe
    BY LinkedHeapSafe DEF QueueingInv, HeapSafe
<1>2. QED
    BY <1>1, QueueingInit, QueueingNext, PTL DEF Spec

TokenSystemInv == program = "token.c" => TokenInv

LEMMA TokenSystemInit == Init => TokenSystemInv
BY TokenInit DEF Init, TokenSystemInv

LEMMA TokenSystemNext == TokenSystemInv /\ [Next]_vars => TokenSystemInv'
<1> SUFFICES ASSUME TokenSystemInv, [Next]_vars PROVE TokenSystemInv'
    OBVIOUS
<1>a. program' = program
    BY DEF Next, LinkedStep, TokenStep, BoundedStep, SpawnerStep, CountedStep, LegacyStep, vars
<1> SUFFICES ASSUME program = "token.c" PROVE TokenInv'
    BY <1>a DEF TokenSystemInv
<1>1. TokenInv
    BY DEF TokenSystemInv
<1>2. CASE Next
  <2>1. Token!Next
      BY <1>2 DEF Next, LinkedStep, TokenStep, BoundedStep, SpawnerStep, CountedStep, LegacyStep
  <2>2. QED
      BY <1>1, <2>1, TokenNext
<1>3. CASE UNCHANGED vars
  <2>1. UNCHANGED <<linkedVars, tokenVars, pc, main>>
      BY <1>3 DEF vars
  <2>2. QED
      BY <1>1, <2>1, TokenStutter
<1>4. QED
    BY <1>2, <1>3

(* No pop of token.c's queue finds it empty: the semaphore tokens_available *)
(* is never ahead of the list, and every pop has waited on it.              *)
THEOREM PopsFindAToken == Spec => []NeverEmptyHanded
<1>1. TokenSystemInv => NeverEmptyHanded
    BY TokenNeverEmpty DEF TokenSystemInv, NeverEmptyHanded
<1>2. QED
    BY <1>1, TokenSystemInit, TokenSystemNext, PTL DEF Spec

(* A token's semaphore and the clients on their way out with it make one,   *)
(* so two clients that token.c gave the same token never overlap.           *)
THEOREM OneClientAtATime == Spec => []OneClientPerToken
<1>1. TokenSystemInv => OneClientPerToken
    BY TokenOneClient DEF TokenSystemInv, OneClientPerToken
<1>2. QED
    BY <1>1, TokenSystemInit, TokenSystemNext, PTL DEF Spec

LEMMA NothingQueued ==
    ASSUME NEW q, q = [k \in 1 .. 0 |-> q[k]]
    PROVE  q = <<>>
OBVIOUS

LEMMA FifoInit == Init => Fifo!Init
<1> SUFFICES ASSUME Init PROVE Fifo!Init
    OBVIOUS
<1>1. Fifo!Procs = Callers
    BY DEF Fifo!Procs, Callers
<1>2. CASE program = "fifo.c"
  <2>1. Linked!Init
      BY <1>2 DEF Init
  <2>2. PICK L : Len(L) = 1 /\ QueueRight(L)
      BY <2>1, LinkedStart
  <2>3. FifoContents = Queued(L)
      BY <1>2, <2>1, <2>2, LinkedStart, ContentsAre DEF ContentsMapped, QueueRight, HeapInv
  <2>4. Queued(L) = <<>>
    <3>1. Queued(L) = [k \in 1 .. 0 |-> Queued(L)[k]]
      <4>1. Len(L) - 1 = 0
          BY <2>2
      <4>2. Queued(L) = [k \in 1 .. 0 |-> node[L[k + 1]].value]
          BY <4>1 DEF Queued
      <4>3. QED
          BY <4>2
    <3>2. QED
        BY <3>1, NothingQueued
  <2>5. /\ FifoPhase = [t \in Callers |-> PhaseOf(pc[t])]
        /\ FifoHeld = [t \in Callers |-> HeldIn(pc[t], item[t])]
      BY <1>2, FifoMapped DEF PhasesMapped
  <2>6. \A t \in Callers : PhaseOf(pc[t]) = "idle" /\ HeldIn(pc[t], item[t]) = 0
      BY <2>1 DEF Linked!Init, PhaseOf, HeldIn, Callers
  <2>7. /\ FifoContents = <<>> /\ FifoPhase = [t \in Callers |-> "idle"]
        /\ FifoHeld = [t \in Callers |-> 0]
      BY <2>3, <2>4, <2>5, <2>6
  <2>8. QED
      BY <1>1, <2>7 DEF Fifo!Init, FifoPhase, FifoHeld, FifoContents, Callers
<1>3. CASE program # "fifo.c"
  <2>1. /\ FifoContents = <<>> /\ FifoPhase = [t \in Callers |-> "idle"]
        /\ FifoHeld = [t \in Callers |-> 0]
      BY <1>3 DEF FifoPhase, FifoHeld, FifoContents
  <2>2. QED
      BY <1>1, <2>1 DEF Fifo!Init, FifoPhase, FifoHeld, FifoContents, Callers
<1>4. QED
    BY <1>2, <1>3

LEMMA FifoNext == QueueingInv /\ [Next]_vars => [Fifo!Next]_(Fifo!vars)
<1> SUFFICES ASSUME QueueingInv, [Next]_vars PROVE Fifo!Next \/ UNCHANGED Fifo!vars
    OBVIOUS
<1>1. program' = program
    BY DEF Next, LinkedStep, TokenStep, BoundedStep, SpawnerStep, CountedStep, LegacyStep, vars
<1>2. CASE program # "fifo.c"
  <2>1. FifoContents' = FifoContents /\ FifoPhase' = FifoPhase /\ FifoHeld' = FifoHeld
      BY <1>1, <1>2 DEF FifoPhase, FifoHeld, FifoContents
  <2>2. QED
      BY <2>1 DEF Fifo!vars, FifoPhase, FifoHeld, FifoContents, Callers
<1>3. CASE program = "fifo.c" /\ UNCHANGED vars
  <2>1. UNCHANGED <<linkedVars, destroyed, pc>>
      BY <1>3 DEF vars
  <2>2. QED
      BY <1>1, <1>3, <2>1, IdleRefines DEF QueueingInv
<1>4. CASE program = "fifo.c" /\ Next
  <2>1. Linked!Next /\ LinkedInv /\ program' = "fifo.c" /\ program = "fifo.c"
      BY <1>1, <1>4 DEF QueueingInv, Next, LinkedStep, TokenStep, BoundedStep, SpawnerStep,
                        CountedStep, LegacyStep
  <2>2. CASE Linked!CleanUp
      BY <2>1, <2>2, CleanUpRefines
  <2>3. CASE Linked!Terminated
    <3>1. UNCHANGED <<linkedVars, destroyed, pc>>
        BY <2>3 DEF Linked!Terminated, Linked!vars, Linked!twoLockVars, Linked!heapVars,
                    Linked!queueVars, linkedVars
    <3>2. QED
        BY <2>1, <3>1, IdleRefines
  <2>4. CASE destroyed
    <3>1. \A t \in Callers : pc[t] = "idle"
        BY <2>1, <2>4 DEF LinkedInv
    <3>2. \A t \in Callers : ~ Linked!Work(t) /\ ~ Linked!PrintValue(t)
        BY <3>1
        DEF Linked!Work, Linked!PrintValue, Linked!QueueStep, Linked!Goto, Linked!PushAlloc,
            Linked!PushLock, Linked!PushLink, Linked!PushTail, Linked!PushUnlock,
            Linked!PopLock, Linked!PopRead, Linked!PopEmpty, Linked!PopTake,
            Linked!PopUnlock, Linked!PopFree
    <3>3. Linked!Terminated
        BY <2>1, <2>4, <3>2
        DEF Linked!Next, Linked!CallPush, Linked!CallPop, Linked!CleanUp, Callers
    <3>4. QED
        BY <2>3, <3>3
  <2>5. CASE ~ destroyed /\ ~ Linked!CleanUp /\ ~ Linked!Terminated
    <3>1. PICK L : QueueRight(L)
        BY <2>1, <2>5 DEF LinkedInv
    <3>2. PICK x \in Callers :
              \/ \E v \in 1 .. VALUES : Linked!CallPush(x, v)
              \/ Linked!CallPop(x) \/ Linked!PrintValue(x) \/ Linked!Work(x)
        BY <2>1, <2>5 DEF Linked!Next, Callers
    <3>3. ~ destroyed'
        BY <2>5, <3>2
        DEF Linked!CallPush, Linked!CallPop, Linked!PrintValue, Linked!Work
    <3>4. Queueing(L)
        BY <2>1, <2>5, <3>1, <3>3 DEF Queueing, LinkedInv
    <3>5. ASSUME NEW v \in 1 .. VALUES, Linked!CallPush(x, v) PROVE Fifo!Next
      <4>1. Fifo!BeginPush(x, v)
          BY <3>4, <3>5, CallPushRefines
      <4>2. QED
          BY <4>1 DEF Fifo!Next, Callers
    <3>6. CASE Linked!CallPop(x)
      <4>1. Fifo!BeginPop(x)
          BY <3>4, <3>6, CallPopRefines
      <4>2. QED
          BY <4>1 DEF Fifo!Next, Callers
    <3>7. CASE Linked!PrintValue(x)
        BY <3>4, <3>7, PrintRefines
    <3>8. CASE Linked!Work(x)
        BY <3>4, <3>8, WorkRefines
    <3>9. QED
        BY <3>2, <3>5, <3>6, <3>7, <3>8
  <2>6. QED
      BY <2>2, <2>3, <2>4, <2>5
<1>5. QED
    BY <1>2, <1>3, <1>4

(* The linked queue of fifo.c keeps the promise of FifoQueue with any       *)
(* number of concurrent callers: a value is in the queue from when the last *)
(* node is linked to its node until that node becomes the dummy, values     *)
(* leave in the order they entered, none is lost or duplicated, and a pop   *)
(* is turned away only when the operations in flight explain it.            *)
THEOREM LinkedQueueIsFifo == Spec => ImplementsFifo
<1>1. Init => Fifo!Init
    BY FifoInit
<1>2. QueueingInv /\ [Next]_vars => [Fifo!Next]_(Fifo!vars)
    BY FifoNext
<1>3. QED
    BY <1>1, <1>2, QueueingInit, QueueingNext, PTL DEF Spec, ImplementsFifo, Fifo!Spec
=============================================================================
