-------------------------------- MODULE Demos --------------------------------
(***************************************************************************)
(* The stand-alone programs under src/DS, side by side: a behaviour is a   *)
(* run of one of them.  They share no state; what they have in common is   *)
(* what they try out, the queues, counters and semaphores the restaurant   *)
(* is made of, and that a main waits for its threads.                      *)
(***************************************************************************)
EXTENDS Integers

CONSTANTS Nodes,          \* heap nodes of fifo.c and token.c
          THREADS, VALUES,  \* callers of fifo.c's queue, and what they push
          NO_OF_TOKENS,
          CLIENTS, CASHIERS,
          NO_OF_THREADS, NO_OF_LOOPS,
          PRODUCERS, CONSUMERS,
          MAX,            \* slots of the two rings
          None            \* the value of a variable the program does not have

VARIABLES program,
          pc, main,                                       \* every program's
          node, allocated, head, tail, head_lock, tail_lock, item, tmp,
          destroyed,                                      \* fifo.c
          tokens_available, sem_arr, ct_assns, token_id,  \* token.c
          b, temp,                                        \* both rings
          no_served, announced,                           \* bounded_queue.c
          s, i,                                           \* the spawners
          value, lock, loops, rc,                         \* the counter
          c, end, printed                                 \* sem_queue.c

linkedVars  == <<node, allocated, head, tail, head_lock, tail_lock, item, tmp>>
tokenVars   == <<tokens_available, sem_arr, ct_assns, token_id>>
ringVars    == <<b, temp>>
boundedVars == <<no_served, announced>>
counterVars == <<value, lock, loops, rc>>
legacyVars  == <<c, end, printed>>

Linked == INSTANCE LinkedFifo WITH
    Threads <- 1 .. THREADS, Null <- None, Values <- 1 .. VALUES, NoValue <- 0,
    AfterPush <- "idle", AfterPop <- "print", FREES_EMPTY <- FALSE

Token == INSTANCE FirstTokenSystem WITH
    Threads <- 1 .. CLIENTS, Nobody <- -1, Null <- None,
    Values <- 0 .. NO_OF_TOKENS - 1, NoValue <- -1,
    AfterPush <- "post_available", AfterPop <- "assign", FREES_EMPTY <- TRUE

Bounded == INSTANCE BoundedQueueDemo WITH
    Clients <- 1 .. CLIENTS, Cashiers <- CLIENTS + 1 .. CLIENTS + CASHIERS, Nobody <- 0

Spawning == INSTANCE Spawner
Counted  == INSTANCE CountedThreads
Legacy   == INSTANCE LegacyQueue WITH q <- b, LOOPS <- 1

ASSUME DemosAssumption ==
    /\ {THREADS, VALUES, CLIENTS, CASHIERS, NO_OF_THREADS, NO_OF_LOOPS,
        PRODUCERS, CONSUMERS} \subseteq Nat \ {0}
    /\ Linked!TwoLockAssumption
    /\ Token!TwoLockAssumption /\ Token!TokenAssumption
    /\ Bounded!DemoAssumption

-----------------------------------------------------------------------------
NoLinked ==
    /\ node = None /\ allocated = None /\ head = None /\ tail = None
    /\ head_lock = None /\ tail_lock = None /\ item = None /\ tmp = None
NoToken ==
    tokens_available = None /\ sem_arr = None /\ ct_assns = None /\ token_id = None
NoRing    == b = None /\ temp = None
NoBounded == no_served = None /\ announced = None
NoSpawner == s = None /\ i = None
NoCounter == value = None /\ lock = None /\ loops = None /\ rc = None
NoLegacy  == c = None /\ end = None /\ printed = None

Init ==
    \/ /\ program = "fifo.c" /\ Linked!Init
       /\ main = None
       /\ NoToken /\ NoRing /\ NoBounded /\ NoSpawner /\ NoCounter /\ NoLegacy
    \/ /\ program = "token.c" /\ Token!Init
       /\ destroyed = None
       /\ NoRing /\ NoBounded /\ NoSpawner /\ NoCounter /\ NoLegacy
    \/ /\ program = "bounded_queue.c" /\ Bounded!Init
       /\ destroyed = None
       /\ NoLinked /\ NoToken /\ NoSpawner /\ NoCounter /\ NoLegacy
    \/ /\ program = "spawner.c" /\ Spawning!Init
       /\ destroyed = None
       /\ NoLinked /\ NoToken /\ NoRing /\ NoBounded /\ NoCounter /\ NoLegacy
    \/ /\ program = "spawner_plus_counter.c" /\ Counted!Init
       /\ destroyed = None /\ i = None
       /\ NoLinked /\ NoToken /\ NoRing /\ NoBounded /\ NoLegacy
    \/ /\ program = "sem_queue.c" /\ Legacy!Init
       /\ destroyed = None /\ main = None /\ s = None
       /\ NoLinked /\ NoToken /\ NoBounded /\ NoCounter

LinkedStep ==
    /\ program = "fifo.c" /\ Linked!Next
    /\ UNCHANGED <<program, main, tokenVars, ringVars, boundedVars, s, i, counterVars,
                   legacyVars>>

TokenStep ==
    /\ program = "token.c" /\ Token!Next
    /\ UNCHANGED <<program, destroyed, ringVars, boundedVars, s, i, counterVars, legacyVars>>

BoundedStep ==
    /\ program = "bounded_queue.c" /\ Bounded!Next
    /\ UNCHANGED <<program, linkedVars, destroyed, tokenVars, s, i, counterVars, legacyVars>>

SpawnerStep ==
    /\ program = "spawner.c" /\ Spawning!Next
    /\ UNCHANGED <<program, linkedVars, destroyed, tokenVars, ringVars, boundedVars,
                   counterVars, legacyVars>>

CountedStep ==
    /\ program = "spawner_plus_counter.c" /\ Counted!Next
    /\ UNCHANGED <<program, linkedVars, destroyed, tokenVars, ringVars, boundedVars, i,
                   legacyVars>>

LegacyStep ==
    /\ program = "sem_queue.c" /\ Legacy!Next
    /\ UNCHANGED <<program, main, linkedVars, destroyed, tokenVars, boundedVars, s,
                   counterVars>>

Next == LinkedStep \/ TokenStep \/ BoundedStep \/ SpawnerStep \/ CountedStep \/ LegacyStep

vars == <<program, pc, main, linkedVars, destroyed, tokenVars, ringVars, boundedVars,
          s, i, counterVars, legacyVars>>

(* A step that thread t of the program takes, 0 being its main.             *)
StepOf(t) ==
    \/ /\ program = "token.c"
       /\ IF t = 0 THEN Token!Main ELSE t <= CLIENTS /\ Token!Client(t)
    \/ /\ program = "bounded_queue.c"
       /\ IF t = 0 THEN Bounded!Main
          ELSE IF t <= CLIENTS THEN Bounded!Client(t)
          ELSE t <= CLIENTS + CASHIERS /\ Bounded!Cashier(t)
    \/ /\ program = "spawner.c"
       /\ IF t = 0 THEN Spawning!Main ELSE t <= NO_OF_THREADS /\ Spawning!Thread(t)
    \/ /\ program = "spawner_plus_counter.c"
       /\ IF t = 0 THEN Counted!Main ELSE t <= NO_OF_THREADS /\ Counted!Thread(t)
    \/ /\ program = "sem_queue.c"
       /\ IF t = 0 THEN Legacy!SetEnd
          ELSE IF t <= PRODUCERS THEN Legacy!Producer(t)
          ELSE t <= PRODUCERS + CONSUMERS /\ Legacy!Consumer(t)

(* The operating system runs every thread; five are the most a program has. *)
(* Nothing is asked of the callers of fifo.c's queue.                       *)
Fairness == \A t \in 0 .. 5 : WF_vars(StepOf(t) /\ Next)

Spec == Init /\ [][Next]_vars /\ Fairness
-----------------------------------------------------------------------------
(* Properties *)

(* fifo.c: no node is used after it was freed, freed twice or lost, and     *)
(* after queue_cleanup all are back with malloc.                            *)
HeapSafe == program = "fifo.c" => Linked!HeapSafe

(* fifo.c: the linked queue implements the FIFO queue.                      *)
Fifo == INSTANCE FifoQueue WITH
    Pushers <- 1 .. THREADS, Poppers <- 1 .. THREADS,
    Orders <- 1 .. VALUES, NoOrder <- 0, Capacity <- VALUES,
    contents <- IF program = "fifo.c" THEN Linked!AbstractContents ELSE <<>>,
    phase    <- [t \in 1 .. THREADS |->
                    IF program = "fifo.c" THEN Linked!AbstractPhase(t) ELSE "idle"],
    held     <- [t \in 1 .. THREADS |->
                    IF program = "fifo.c" THEN Linked!AbstractHeld(t) ELSE 0]

ImplementsFifo == Fifo!Spec

(* token.c: no token_queue_pop finds the queue empty, which would leave the *)
(* head a freed node, and the nodes are handled safely.                     *)
NeverEmptyHanded == program = "token.c" => Token!NeverEmptyHanded

(* token.c: at most one client of a token is past its wait and not yet      *)
(* through its signal, although the token is announced before the signal.   *)
OneClientPerToken == program = "token.c" => Token!OneClientPerToken

(* bounded_queue.c: when a cashier leaves, every client was taken from the  *)
(* queue and announced, or is about to be, exactly once.                    *)
NobodyLeftBehind == program = "bounded_queue.c" => Bounded!NobodyLeftBehind

(* The spawners: what a main that joins nobody knows when it has waited.    *)
MainHasWaited ==
    /\ program = "spawner.c" => Spawning!ThreadsPaced
    /\ program = "spawner_plus_counter.c" => Counted!PrintsWhatItAwaited

(* sem_queue.c: no more than k values up to k ever exist.                   *)
NumbersNotReused == program = "sem_queue.c" => Legacy!NumbersNotReused

(* Every program gets where its main leads, sem_queue.c's to a hang; only   *)
(* the callers of fifo.c's queue, who stand for any main, go on.            *)
Ended ==
    CASE program = "fifo.c" -> TRUE
      [] program = "token.c" -> Token!Left
      [] program = "bounded_queue.c" -> Bounded!AllServed
      [] program = "sem_queue.c" -> Legacy!AtRest /\ Legacy!AllPrinted
      [] OTHER -> main = "done"

EveryProgramEnds == <>Ended
=============================================================================
