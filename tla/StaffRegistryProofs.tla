------------------------ MODULE StaffRegistryProofs ------------------------
(***************************************************************************)
(* Proofs about StaffRegistry, for any staff and any number of slots.      *)
(*                                                                         *)
(* No lock guards the array, so nothing can be said of a slot for long.    *)
(* What lasts is where a process stopped looking: its loop index i never   *)
(* changes once it has claimed a slot.  PassedTaken says that every slot a *)
(* process walked past is the place where another process stopped.  There  *)
(* are then as many others as slots walked past, which is why nobody is    *)
(* refused while there is a slot for everybody.                            *)
(***************************************************************************)
EXTENDS StaffRegistry, FiniteSetTheorems, FunctionTheorems, TLAPS

(* The process has written its pid in a slot. *)
Entered == {"index", "ready", "cleanup", "exited"}

(* Whoever has started was hired. *)
StartedHired == \A s \in Staff : pc[s] # "unborn" => s \in hired

(* The loop indices are inside the array where it is read or written. *)
InsideArray ==
    /\ \A s \in Staff : pc[s] \in {"claim", "index"} => i[s] \in Slots
    /\ tester = "kill" => j \in Slots

RefusedAtEnd == \A s \in Staff : pc[s] = "refused" => i[s] = TOTAL_STAFF_SIZE

(* staff_index is 0 until the process has registered, its slot from then. *)
IndexIsSlot ==
    \A s \in Staff :
        /\ pc[s] \in {"unborn", "scan", "claim", "index", "refused"} => staff_index[s] = 0
        /\ staff_index[s] \in {0, i[s]}
        /\ pc[s] = "ready" => staff_index[s] = i[s]

(* A pid in the array is that of a process that stopped at this slot. *)
PidInOwnSlot ==
    \A n \in Slots, s \in Staff :
        staff_id[n] = s => i[s] = n /\ pc[s] \in Entered

(* The slots a process has walked past are others'. *)
PassedTaken ==
    \A s \in Staff : \A n \in Slots :
        n < i[s] => \E r \in hired \ {s} : i[r] = n /\ pc[r] \in Entered

Walk == /\ TypeOK /\ StartedHired /\ InsideArray /\ RefusedAtEnd
        /\ IndexIsSlot /\ PidInOwnSlot /\ PassedTaken

(* The driver has passed the slot of everybody it has told. *)
ToldBehind ==
    /\ ~ groupKilled
    /\ \A s \in Staff :
          s \in signalled \/ pc[s] = "cleanup" => pc[s] \in Entered /\ i[s] < j
    /\ tester = "kill" => staff_id[j] # NoPid

Told == EnoughSlots => ToldBehind

(* Staff started in turn: one process at a time looks for a slot, and none *)
(* when the driver closes.                                                 *)
Looking == {"scan", "claim", "index", "refused"}

OneLooks ==
    \A s, r \in Staff : pc[s] \in Looking /\ pc[r] \in Looking => s = r

ClosedSettled ==
    /\ tester # "open" =>
          \A s \in hired : pc[s] \in {"ready", "cleanup", "exited"}
    /\ tester = "open" =>
          /\ signalled = {}
          /\ \A s \in Staff : /\ pc[s] # "cleanup"
                              /\ pc[s] = "exited" => i[s] = TOTAL_STAFF_SIZE

InTurn == start = "in_turn" => OneLooks /\ ClosedSettled

(* Then each has a slot of its own, unless it is slot 0 and one that was   *)
(* refused has freed it ...                                                *)
ClaimsFree == \A s \in Staff : pc[s] = "claim" => staff_id[i[s]] = NoPid

KeepsSlot ==
    \A s \in Staff :
        /\ pc[s] \in {"index", "ready", "cleanup"} =>
              staff_id[i[s]] = s \/ (i[s] = 0 /\ TurnedDown # {})
        /\ pc[s] = "cleanup" => staff_index[s] = i[s]

(* ... until it leaves.                                                    *)
GoneFromArray == \A n \in Slots, s \in Staff : staff_id[n] = s => pc[s] # "exited"

OwnSlots == start = "in_turn" => ClaimsFree /\ KeepsSlot /\ GoneFromArray

(* However they start, a process that has left is at most in a slot that   *)
(* it did not remember.                                                    *)
ForgottenSlot ==
    \A n \in Slots, s \in Staff :
        staff_id[n] = s /\ pc[s] = "exited" => staff_index[s] # n

Inv == Walk /\ Told /\ InTurn /\ OwnSlots /\ ForgottenSlot

-----------------------------------------------------------------------------
(* What every step keeps: the staff hired, and where each process stopped. *)
Kept == /\ hired' = hired /\ start' = start
        /\ \A s \in Staff :
              pc[s] \in Entered => pc'[s] \in Entered /\ i'[s] = i[s]

LEMMA StepKeeps == TypeOK /\ [Next]_vars => Kept
<1> SUFFICES ASSUME TypeOK, [Next]_vars PROVE Kept
    OBVIOUS
<1> USE DEF Kept, TypeOK, Entered, opening, staffVars, testVars
<1>1. ASSUME NEW s \in Staff, Launch(s) PROVE Kept
    BY <1>1 DEF Launch, Goto
<1>2. ASSUME NEW s \in Staff, Scan(s) PROVE Kept
    BY <1>2 DEF Scan, Goto
<1>3. ASSUME NEW s \in Staff, Claim(s) PROVE Kept
    BY <1>3 DEF Claim, Goto
<1>4. ASSUME NEW s \in Staff, SetIndex(s) PROVE Kept
    BY <1>4 DEF SetIndex, Goto
<1>5. ASSUME NEW s \in Staff, RegisterFails(s) PROVE Kept
    BY <1>5 DEF RegisterFails, Goto
<1>6. ASSUME NEW s \in Staff, HandleUSR1(s) PROVE Kept
    BY <1>6 DEF HandleUSR1, Goto
<1>7. ASSUME NEW s \in Staff, CleanupExit(s) PROVE Kept
    BY <1>7 DEF CleanupExit, Goto
<1>8. CASE Driver
    BY <1>8 DEF Driver, Close, Look, Kill, LoopDone
<1>9. CASE AtRest \/ UNCHANGED vars
    BY <1>9 DEF AtRest, vars
<1>10. QED
    BY <1>1, <1>2, <1>3, <1>4, <1>5, <1>6, <1>7, <1>8, <1>9 DEF Next, Run

-----------------------------------------------------------------------------
(* Walk *)

LEMMA InitWalk == Init => Walk
<1> SUFFICES ASSUME Init PROVE Walk
    OBVIOUS
<1>1. 0 \in Slots /\ 0 \in 0 .. TOTAL_STAFF_SIZE
    BY RegistryAssumption DEF Slots
<1>2. TypeOK
    BY <1>1 DEF Init, TypeOK
<1>3. StartedHired /\ InsideArray /\ RefusedAtEnd /\ IndexIsSlot
    BY DEF Init, StartedHired, InsideArray, RefusedAtEnd, IndexIsSlot
<1>4. PidInOwnSlot
    BY RegistryAssumption DEF Init, PidInOwnSlot
<1>5. PassedTaken
    BY DEF Init, PassedTaken, Slots
<1>6. QED
    BY <1>2, <1>3, <1>4, <1>5 DEF Walk

LEMMA TypeOKPreserved == Walk /\ [Next]_vars => TypeOK'
<1> SUFFICES ASSUME Walk, [Next]_vars PROVE TypeOK'
    OBVIOUS
<1> USE DEF TypeOK, opening, staffVars, testVars
<1> TypeOK /\ StartedHired /\ InsideArray
    BY DEF Walk
<1>1. ASSUME NEW s \in Staff, Launch(s) PROVE TypeOK'
    BY <1>1 DEF Launch, Goto
<1>2. ASSUME NEW s \in Staff, Scan(s) PROVE TypeOK'
  <2>1. i[s] \in Slots => i[s] + 1 \in 0 .. TOTAL_STAFF_SIZE
      BY RegistryAssumption DEF Slots
  <2>2. QED
      BY <1>2, <2>1 DEF Scan, Goto
<1>3. ASSUME NEW s \in Staff, Claim(s) PROVE TypeOK'
    BY <1>3 DEF Claim, Goto, StartedHired
<1>4. ASSUME NEW s \in Staff, SetIndex(s) PROVE TypeOK'
    BY <1>4 DEF SetIndex, Goto, InsideArray
<1>5. ASSUME NEW s \in Staff, RegisterFails(s) PROVE TypeOK'
    BY <1>5 DEF RegisterFails, Goto
<1>6. ASSUME NEW s \in Staff, HandleUSR1(s) PROVE TypeOK'
    BY <1>6 DEF HandleUSR1, Goto
<1>7. ASSUME NEW s \in Staff, CleanupExit(s) PROVE TypeOK'
    BY <1>7 DEF CleanupExit, Goto
<1>8. CASE Close \/ LoopDone
    BY <1>8 DEF Close, LoopDone
<1>9. j \in Slots => j + 1 \in 0 .. TOTAL_STAFF_SIZE
    BY RegistryAssumption DEF Slots
<1>10. CASE Look
    BY <1>9, <1>10 DEF Look
<1>11. CASE Kill
    BY <1>9, <1>11 DEF Kill, InsideArray
<1>12. CASE AtRest \/ UNCHANGED vars
    BY <1>12 DEF AtRest, vars
<1>13. QED
    BY <1>1, <1>2, <1>3, <1>4, <1>5, <1>6, <1>7, <1>8, <1>10, <1>11, <1>12
    DEF Next, Run, Driver

LEMMA PlacesPreserved ==
    Walk /\ [Next]_vars => (StartedHired /\ InsideArray /\ RefusedAtEnd /\ IndexIsSlot)'
<1> SUFFICES ASSUME Walk, [Next]_vars
             PROVE  (StartedHired /\ InsideArray /\ RefusedAtEnd /\ IndexIsSlot)'
    OBVIOUS
<1> DEFINE Goal == (StartedHired /\ InsideArray /\ RefusedAtEnd /\ IndexIsSlot)'
<1> USE DEF Walk, TypeOK, StartedHired, InsideArray, RefusedAtEnd, IndexIsSlot,
            opening, staffVars, testVars
<1>1. ASSUME NEW s \in Staff, Launch(s) PROVE Goal
    BY <1>1 DEF Launch, Goto
<1>2. ASSUME NEW s \in Staff, Scan(s) PROVE Goal
    BY <1>2 DEF Scan, Goto
<1>3. ASSUME NEW s \in Staff, Claim(s) PROVE Goal
    BY <1>3 DEF Claim, Goto
<1>4. ASSUME NEW s \in Staff, SetIndex(s) PROVE Goal
    BY <1>4 DEF SetIndex, Goto
<1>5. ASSUME NEW s \in Staff, RegisterFails(s) PROVE Goal
    BY <1>5 DEF RegisterFails, Goto
<1>6. ASSUME NEW s \in Staff, HandleUSR1(s) PROVE Goal
    BY <1>6 DEF HandleUSR1, Goto
<1>7. ASSUME NEW s \in Staff, CleanupExit(s) PROVE Goal
    BY <1>7 DEF CleanupExit, Goto
<1>8. CASE Driver
    BY <1>8 DEF Driver, Close, Look, Kill, LoopDone
<1>9. CASE AtRest \/ UNCHANGED vars
    BY <1>9 DEF AtRest, vars
<1>10. QED
    BY <1>1, <1>2, <1>3, <1>4, <1>5, <1>6, <1>7, <1>8, <1>9 DEF Next, Run

(* A slot is written by the process that claims it, which is then Entered, *)
(* or freed.                                                               *)
LEMMA PidInOwnSlotPreserved == Walk /\ [Next]_vars => PidInOwnSlot'
<1> SUFFICES ASSUME Walk, [Next]_vars PROVE PidInOwnSlot'
    OBVIOUS
<1> TypeOK /\ PidInOwnSlot /\ InsideArray
    BY DEF Walk
<1>1. Kept
    BY StepKeeps
<1>2. ASSUME staff_id' = staff_id PROVE PidInOwnSlot'
    BY <1>1, <1>2 DEF PidInOwnSlot, Kept
<1>3. ASSUME NEW s \in Staff, Claim(s) PROVE PidInOwnSlot'
  <2>1. /\ staff_id' = [staff_id EXCEPT ![i[s]] = s]
        /\ i' = i /\ pc'[s] = "index"
      BY <1>3 DEF Claim, Goto, TypeOK
  <2>2. SUFFICES ASSUME NEW n \in Slots, NEW r \in Staff, staff_id'[n] = r
                 PROVE  i'[r] = n /\ pc'[r] \in Entered
      BY DEF PidInOwnSlot
  <2>3. CASE n = i[s]
      BY <2>1, <2>2, <2>3 DEF TypeOK, Entered
  <2>4. CASE n # i[s]
      BY <1>1, <2>1, <2>2, <2>4 DEF TypeOK, PidInOwnSlot, Kept
  <2>5. QED
      BY <2>3, <2>4
<1>4. ASSUME NEW s \in Staff, CleanupExit(s) PROVE PidInOwnSlot'
  <2>1. staff_id' = [staff_id EXCEPT ![staff_index[s]] = NoPid]
      BY <1>4 DEF CleanupExit
  <2>2. QED
      BY <1>1, <2>1, RegistryAssumption DEF TypeOK, PidInOwnSlot, Kept
<1>5. QED
    BY <1>2, <1>3, <1>4
    DEF Next, Run, Driver, vars, Launch, Scan, SetIndex, RegisterFails, HandleUSR1,
        Close, Look, Kill, LoopDone, AtRest

(* A process walks past a slot only when it has read another's pid there.  *)
LEMMA PassedTakenPreserved == Walk /\ [Next]_vars => PassedTaken'
<1> SUFFICES ASSUME Walk, [Next]_vars PROVE PassedTaken'
    OBVIOUS
<1> TypeOK /\ PidInOwnSlot /\ PassedTaken
    BY DEF Walk
<1>1. Kept
    BY StepKeeps
<1>2. SUFFICES ASSUME NEW s \in Staff, NEW n \in Slots, n < i'[s]
               PROVE  \E r \in hired \ {s} : i[r] = n /\ pc[r] \in Entered
    BY <1>1 DEF PassedTaken, Kept, TypeOK
<1>3. CASE n < i[s]
    BY <1>3 DEF PassedTaken
<1>4. CASE ~ (n < i[s])
  <2>1. Scan(s) /\ i' = [i EXCEPT ![s] = @ + 1]
    <3>1. i'[s] # i[s]
        BY <1>2, <1>4
    <3>2. \E r \in Staff : Scan(r) /\ i' = [i EXCEPT ![r] = @ + 1]
        BY <3>1 DEF Next, Run, Driver, vars, Launch, Scan, Claim, SetIndex, RegisterFails,
            HandleUSR1, CleanupExit, Close, Look, Kill, LoopDone, AtRest, staffVars
    <3>3. QED
        BY <3>1, <3>2 DEF TypeOK
  <2>2. n = i[s]
      BY <1>2, <1>4, <2>1 DEF TypeOK, Slots
  <2>3. pc[s] = "scan" /\ staff_id[i[s]] # NoPid
      BY <2>1 DEF Scan, TypeOK
  <2>4. staff_id[n] \in hired
      BY <2>2, <2>3 DEF TypeOK
  <2>5. QED
      BY <2>2, <2>3, <2>4 DEF PidInOwnSlot, TypeOK, Entered
<1>5. QED
    BY <1>3, <1>4

LEMMA WalkPreserved == Walk /\ [Next]_vars => Walk'
BY TypeOKPreserved, PlacesPreserved, PidInOwnSlotPreserved, PassedTakenPreserved DEF Walk
-----------------------------------------------------------------------------
(* Nobody is refused: a pigeonhole over the slots *)

LEMMA SlotsFinite == IsFiniteSet(Slots) /\ Cardinality(Slots) = TOTAL_STAFF_SIZE
<1>1. /\ TOTAL_STAFF_SIZE - 1 \in Int /\ ~ (0 > TOTAL_STAFF_SIZE - 1)
      /\ TOTAL_STAFF_SIZE - 1 - 0 + 1 = TOTAL_STAFF_SIZE
    BY RegistryAssumption
<1>2. QED
    BY <1>1, FS_Interval DEF Slots

(* If every slot is the place of somebody in ss, ss has as many members as *)
(* there are slots.                                                        *)
LEMMA OnePerSlot ==
    ASSUME NEW ss \in SUBSET Staff, i \in [Staff -> 0 .. TOTAL_STAFF_SIZE],
           \A n \in Slots : \E r \in ss : i[r] = n
    PROVE  Cardinality(ss) >= TOTAL_STAFF_SIZE
<1> DEFINE holder == [n \in Slots |-> CHOOSE r \in ss : i[r] = n]
<1>1. holder \in [Slots -> ss] /\ \A n \in Slots : i[holder[n]] = n
    OBVIOUS
<1>2. holder \in Injection(Slots, ss)
  <2> HIDE DEF holder
  <2>1. QED
      BY <1>1 DEF Injection, IsInjective
<1>3. IsFiniteSet(ss)
    BY RegistryAssumption, FS_Subset
<1>4. Cardinality(Slots) <= Cardinality(ss)
    BY <1>2, <1>3, FS_Injection
<1>5. Cardinality(ss) \in Nat
    BY <1>3, FS_CardinalityType
<1>6. QED
    BY <1>4, <1>5, SlotsFinite, RegistryAssumption

LEMMA WalkRefusesNobody == Walk => NobodyRefused
<1> SUFFICES ASSUME Walk, EnoughSlots, NEW s \in Staff, pc[s] = "refused"
             PROVE  FALSE
    BY DEF NobodyRefused
<1>1. s \in hired /\ hired \in SUBSET Staff /\ i[s] = TOTAL_STAFF_SIZE
    BY DEF Walk, StartedHired, RefusedAtEnd, TypeOK
<1>2. \A n \in Slots : \E r \in hired \ {s} : i[r] = n
    BY <1>1, RegistryAssumption DEF Walk, PassedTaken, Slots
<1>3. Cardinality(hired \ {s}) >= TOTAL_STAFF_SIZE
    BY <1>1, <1>2, OnePerSlot DEF Walk, TypeOK
<1>4. IsFiniteSet(hired)
    BY <1>1, RegistryAssumption, FS_Subset
<1>5. Cardinality(hired \ {s}) = Cardinality(hired) - 1 /\ Cardinality(hired) \in Nat
    BY <1>1, <1>4, FS_RemoveElement, FS_CardinalityType
<1>6. QED
    BY <1>3, <1>5, RegistryAssumption DEF EnoughSlots

-----------------------------------------------------------------------------
(* Told: the driver's slot is not freed under its feet *)

LEMMA InitTold == Init => Told
BY DEF Init, Told, ToldBehind

LEMMA ToldPreserved == Walk /\ Walk' /\ Told /\ [Next]_vars => Told'
<1> SUFFICES ASSUME Walk, Walk', ToldBehind, [Next]_vars, EnoughSlots
             PROVE  ToldBehind'
    BY StepKeeps DEF Told, EnoughSlots, Kept, Walk
<1> TypeOK /\ IndexIsSlot /\ PidInOwnSlot /\ InsideArray
    BY DEF Walk
<1>1. Kept
    BY StepKeeps
<1>2. \A s \in Staff : pc[s] # "refused"
    BY WalkRefusesNobody DEF NobodyRefused
<1> USE DEF TypeOK, ToldBehind, Kept, opening, staffVars, testVars
<1>3. ASSUME NEW s \in Staff, Launch(s) PROVE ToldBehind'
    BY <1>1, <1>3 DEF Launch, Goto, Entered
<1>4. ASSUME NEW s \in Staff, Scan(s) PROVE ToldBehind'
    BY <1>1, <1>4 DEF Scan, Goto, Entered
<1>5. ASSUME NEW s \in Staff, Claim(s) PROVE ToldBehind'
    BY <1>1, <1>5, RegistryAssumption DEF Claim, Goto, Entered
<1>6. ASSUME NEW s \in Staff, SetIndex(s) PROVE ToldBehind'
    BY <1>1, <1>6 DEF SetIndex, Goto, Entered
<1>7. ASSUME NEW s \in Staff, RegisterFails(s) PROVE ToldBehind'
    BY <1>1, <1>7 DEF RegisterFails, Goto, Entered
<1>8. ASSUME NEW s \in Staff, HandleUSR1(s) PROVE ToldBehind'
    BY <1>1, <1>8 DEF HandleUSR1, Goto, Entered
<1>9. ASSUME NEW s \in Staff, CleanupExit(s) PROVE ToldBehind'
  (* The slot freed is behind the driver: 0, or that of the process told. *)
  <2>1. pc[s] = "cleanup" /\ staff_index[s] \in {0, i[s]} /\ i[s] < j
      BY <1>2, <1>9 DEF CleanupExit, Goto, IndexIsSlot
  <2>2. staff_index[s] # j
      BY <2>1
  <2>3. QED
      BY <1>1, <1>9, <2>2 DEF CleanupExit, Goto, InsideArray
<1>10. CASE Close \/ LoopDone
    BY <1>1, <1>10 DEF Close, LoopDone
<1>11. CASE Look
    BY <1>1, <1>11 DEF Look, Slots
<1>12. CASE Kill
  <2>1. staff_id[j] \in Staff /\ j \in Slots
      BY <1>12 DEF Kill, InsideArray
  <2>2. /\ signalled' = signalled \union {staff_id[j]}
        /\ tester' = "look" /\ j' = j + 1 /\ groupKilled' = groupKilled
        /\ pc' = pc /\ i' = i
      BY <1>12 DEF Kill
  <2>3. i[staff_id[j]] = j /\ pc[staff_id[j]] \in Entered
      BY <2>1 DEF PidInOwnSlot
  <2>4. QED
      BY <2>1, <2>2, <2>3 DEF Slots
<1>13. CASE AtRest \/ UNCHANGED vars
    BY <1>13 DEF AtRest, vars
<1>14. QED
    BY <1>3, <1>4, <1>5, <1>6, <1>7, <1>8, <1>9, <1>10, <1>11, <1>12, <1>13
    DEF Next, Run, Driver

-----------------------------------------------------------------------------
(* InTurn: one process looks for a slot at a time *)

LEMMA InitInTurn == Init => InTurn
BY DEF Init, InTurn, OneLooks, ClosedSettled, Looking

LEMMA InTurnPreserved == Walk /\ InTurn /\ [Next]_vars => InTurn'
<1> SUFFICES ASSUME Walk, OneLooks, ClosedSettled, start = "in_turn", [Next]_vars
             PROVE  OneLooks' /\ ClosedSettled'
    BY StepKeeps DEF InTurn, Kept, Walk
<1> TypeOK /\ StartedHired /\ RefusedAtEnd
    BY DEF Walk
<1> DEFINE Goal == OneLooks' /\ ClosedSettled'
<1> USE DEF TypeOK, OneLooks, ClosedSettled, Looking, AllIn, Settled,
            opening, staffVars, testVars
<1>1. ASSUME NEW s \in Staff, Launch(s) PROVE Goal
    BY <1>1 DEF Launch, Goto, StartedHired
<1>2. ASSUME NEW s \in Staff, Scan(s) PROVE Goal
    BY <1>2 DEF Scan, Goto, StartedHired
<1>3. ASSUME NEW s \in Staff, Claim(s) PROVE Goal
    BY <1>3 DEF Claim, Goto, StartedHired
<1>4. ASSUME NEW s \in Staff, SetIndex(s) PROVE Goal
    BY <1>4 DEF SetIndex, Goto, StartedHired
<1>5. ASSUME NEW s \in Staff, RegisterFails(s) PROVE Goal
    BY <1>5 DEF RegisterFails, Goto, StartedHired
<1>6. ASSUME NEW s \in Staff, HandleUSR1(s) PROVE Goal
    BY <1>6 DEF HandleUSR1, Goto, StartedHired
<1>7. ASSUME NEW s \in Staff, CleanupExit(s) PROVE Goal
    BY <1>7 DEF CleanupExit, Goto, StartedHired, RefusedAtEnd
<1>8. CASE Close
    BY <1>8 DEF Close, StartedHired
<1>9. CASE Look \/ Kill \/ LoopDone
    BY <1>9 DEF Look, Kill, LoopDone
<1>10. CASE AtRest \/ UNCHANGED vars
    BY <1>10 DEF AtRest, vars
<1>11. QED
    BY <1>1, <1>2, <1>3, <1>4, <1>5, <1>6, <1>7, <1>8, <1>9, <1>10 DEF Next, Run, Driver

-----------------------------------------------------------------------------
(* OwnSlots: then each has a slot of its own until it leaves *)

LEMMA InitOwnSlots == Init => OwnSlots
BY DEF Init, OwnSlots, ClaimsFree, KeepsSlot, GoneFromArray

(* Who was refused stays refused. *)
LEMMA TurnedDownStays == Walk /\ [Next]_vars => (TurnedDown # {} => TurnedDown' # {})
<1> SUFFICES ASSUME Walk, [Next]_vars, NEW s \in Staff,
                    pc[s] = "exited", i[s] = TOTAL_STAFF_SIZE
             PROVE  pc'[s] = "exited" /\ i'[s] = TOTAL_STAFF_SIZE
    BY DEF TurnedDown
<1>1. i'[s] = i[s]
    BY StepKeeps DEF Kept, Entered, Walk
<1>2. pc'[s] = pc[s]
    BY DEF Walk, TypeOK, Next, Run, Driver, vars, Launch, Scan, Claim, SetIndex, RegisterFails,
        HandleUSR1, CleanupExit, Close, Look, Kill, LoopDone, AtRest, staffVars, Goto
<1>3. QED
    BY <1>1, <1>2

LEMMA OwnSlotsPreserved ==
    Walk /\ Walk' /\ InTurn /\ OwnSlots /\ [Next]_vars => OwnSlots'
<1> SUFFICES ASSUME Walk, Walk', OneLooks, ClosedSettled,
                    ClaimsFree, KeepsSlot, GoneFromArray, [Next]_vars
             PROVE  ClaimsFree' /\ KeepsSlot' /\ GoneFromArray'
    BY StepKeeps DEF OwnSlots, InTurn, Kept, Walk
<1> TypeOK /\ IndexIsSlot /\ PidInOwnSlot /\ InsideArray /\ StartedHired /\ RefusedAtEnd
    BY DEF Walk
<1>0. TurnedDown # {} => TurnedDown' # {}
    BY TurnedDownStays
<1> DEFINE Goal == ClaimsFree' /\ KeepsSlot' /\ GoneFromArray'
<1> USE <1>0 DEF TypeOK, ClaimsFree, KeepsSlot, GoneFromArray, opening, staffVars, testVars
<1>1. ASSUME NEW s \in Staff, Launch(s) PROVE Goal
    BY <1>1 DEF Launch, Goto
<1>2. ASSUME NEW s \in Staff, Scan(s) PROVE Goal
    BY <1>2 DEF Scan, Goto
<1>3. ASSUME NEW s \in Staff, Claim(s) PROVE Goal
  <2>1. /\ pc[s] = "claim" /\ pc' = [pc EXCEPT ![s] = "index"]
        /\ staff_id' = [staff_id EXCEPT ![i[s]] = s]
        /\ i' = i /\ staff_index' = staff_index
        /\ i[s] \in Slots /\ staff_id[i[s]] = NoPid
      BY <1>3 DEF Claim, Goto, InsideArray
  <2>2. ClaimsFree'
      BY <2>1 DEF OneLooks, Looking, InsideArray
  <2>3. KeepsSlot'
      BY <2>1, RegistryAssumption
  <2>4. GoneFromArray'
      BY <2>1
  <2>5. QED
      BY <2>2, <2>3, <2>4
<1>4. ASSUME NEW s \in Staff, SetIndex(s) PROVE Goal
    BY <1>4 DEF SetIndex, Goto
<1>5. ASSUME NEW s \in Staff, RegisterFails(s) PROVE Goal
    BY <1>5 DEF RegisterFails, Goto
<1>6. ASSUME NEW s \in Staff, HandleUSR1(s) PROVE Goal
  (* Told after closing time, when it has registered. *)
  <2>1. /\ pc[s] = "ready" /\ pc' = [pc EXCEPT ![s] = "cleanup"]
        /\ staff_id' = staff_id /\ i' = i /\ staff_index' = staff_index
      BY <1>6 DEF HandleUSR1, Goto, ClosedSettled
  <2>2. QED
      BY <2>1 DEF IndexIsSlot
<1>7. ASSUME NEW s \in Staff, CleanupExit(s), pc[s] = "cleanup" PROVE Goal
  (* It frees its own slot, or slot 0 after a refusal. *)
  <2>1. /\ pc' = [pc EXCEPT ![s] = "exited"]
        /\ staff_id' = [staff_id EXCEPT ![i[s]] = NoPid]
        /\ i' = i /\ staff_index' = staff_index
        /\ staff_index[s] = i[s] /\ i[s] \in Slots
        /\ staff_id[i[s]] = s \/ (i[s] = 0 /\ TurnedDown # {})
      BY <1>7 DEF CleanupExit, Goto
  <2>2. ClaimsFree'
      BY <2>1 DEF InsideArray
  <2>3. ASSUME NEW r \in Staff, pc'[r] \in {"index", "ready", "cleanup"}
        PROVE  staff_id'[i'[r]] = r \/ (i'[r] = 0 /\ TurnedDown' # {})
    <3>1. r # s /\ pc[r] = pc'[r] /\ i'[r] = i[r]
        BY <2>1, <2>3
    <3>2. staff_id[i[r]] = r \/ (i[r] = 0 /\ TurnedDown # {})
        BY <2>3, <3>1
    <3>3. CASE i[r] = i[s]
        BY <1>0, <2>1, <3>1, <3>2, <3>3
    <3>4. CASE i[r] # i[s]
        BY <1>0, <2>1, <3>1, <3>2, <3>4
    <3>5. QED
        BY <3>3, <3>4
  <2>4. KeepsSlot'
    <3>1. \A r \in Staff : pc'[r] = "cleanup" => staff_index'[r] = i'[r]
        BY <2>1
    <3>2. QED
        BY <2>3, <3>1
  <2>5. GoneFromArray'
      BY <2>1, RegistryAssumption DEF PidInOwnSlot
  <2>6. QED
      BY <2>2, <2>4, <2>5
<1>8. ASSUME NEW s \in Staff, CleanupExit(s), pc[s] = "refused" PROVE Goal
  (* It has no slot, and frees slot 0. *)
  <2>1. /\ pc' = [pc EXCEPT ![s] = "exited"]
        /\ staff_id' = [staff_id EXCEPT ![0] = NoPid]
        /\ i' = i /\ staff_index' = staff_index
        /\ i[s] = TOTAL_STAFF_SIZE
      BY <1>8 DEF CleanupExit, Goto, IndexIsSlot, RefusedAtEnd
  <2>2. TurnedDown' # {}
      BY <2>1 DEF TurnedDown
  <2>3. ClaimsFree'
      BY <2>1 DEF InsideArray
  <2>4. KeepsSlot'
      BY <2>1, <2>2, RegistryAssumption
  <2>5. GoneFromArray'
      BY <1>8, <2>1, RegistryAssumption DEF PidInOwnSlot, Entered
  <2>6. QED
      BY <2>3, <2>4, <2>5
<1>9. CASE Driver
    BY <1>9 DEF Driver, Close, Look, Kill, LoopDone
<1>10. CASE AtRest \/ UNCHANGED vars
    BY <1>10 DEF AtRest, vars
<1>11. ASSUME NEW s \in Staff, CleanupExit(s) PROVE pc[s] \in {"cleanup", "refused"}
    BY <1>11 DEF CleanupExit, Goto
<1>12. QED
    BY <1>1, <1>2, <1>3, <1>4, <1>5, <1>6, <1>7, <1>8, <1>9, <1>10, <1>11 DEF Next, Run

-----------------------------------------------------------------------------
(* ForgottenSlot: cleanup_exit frees the slot that the process remembers *)

LEMMA InitForgottenSlot == Init => ForgottenSlot
BY RegistryAssumption DEF Init, ForgottenSlot

LEMMA ForgottenSlotPreserved ==
    Walk /\ ForgottenSlot /\ [Next]_vars => ForgottenSlot'
<1> SUFFICES ASSUME Walk, ForgottenSlot, [Next]_vars PROVE ForgottenSlot'
    OBVIOUS
<1> TypeOK
    BY DEF Walk
<1> USE DEF TypeOK, ForgottenSlot, opening, staffVars, testVars
<1>1. ASSUME NEW s \in Staff, Launch(s) \/ Scan(s) \/ RegisterFails(s) \/ HandleUSR1(s)
      PROVE  ForgottenSlot'
    BY <1>1 DEF Launch, Scan, RegisterFails, HandleUSR1, Goto
<1>2. ASSUME NEW s \in Staff, Claim(s) PROVE ForgottenSlot'
    BY <1>2, RegistryAssumption DEF Claim, Goto
<1>3. ASSUME NEW s \in Staff, SetIndex(s) PROVE ForgottenSlot'
    BY <1>3 DEF SetIndex, Goto
<1>4. ASSUME NEW s \in Staff, CleanupExit(s) PROVE ForgottenSlot'
    BY <1>4, RegistryAssumption DEF CleanupExit, Goto
<1>5. CASE Driver
    BY <1>5 DEF Driver, Close, Look, Kill, LoopDone
<1>6. CASE AtRest \/ UNCHANGED vars
    BY <1>6 DEF AtRest, vars
<1>7. QED
    BY <1>1, <1>2, <1>3, <1>4, <1>5, <1>6 DEF Next, Run

-----------------------------------------------------------------------------
(* The theorems *)

LEMMA InitInv == Init => Inv
BY InitWalk, InitTold, InitInTurn, InitOwnSlots, InitForgottenSlot DEF Inv

LEMMA InvPreserved == Inv /\ [Next]_vars => Inv'
BY WalkPreserved, ToldPreserved, InTurnPreserved, OwnSlotsPreserved,
   ForgottenSlotPreserved
DEF Inv

(* The invariant the others follow from: where processes stopped, whom the *)
(* driver has told, and, started in turn, who has which slot.              *)
THEOREM RegistryInvariant == Spec => []Inv
BY InitInv, InvPreserved, PTL DEF Spec

(* The variables of the registry keep their types: in particular no        *)
(* process reads or writes staff_id outside the array.                     *)
THEOREM RegistryTyped == Spec => []TypeOK
<1>1. Inv => TypeOK
    BY DEF Inv, Walk
<1>2. QED
    BY <1>1, RegistryInvariant, PTL

(* While there is a slot for everybody register_r never fails, however the *)
(* unlocked scans and clean-ups interleave.                                *)
THEOREM EnoughSlotsNobodyRefused == Spec => []NobodyRefused
<1>1. Inv => NobodyRefused
    BY WalkRefusesNobody DEF Inv
<1>2. QED
    BY <1>1, RegistryInvariant, PTL

(* While there is a slot for everybody, the slot the driver found taken is *)
(* still taken when it reads it again for kill: pid 0 is never signalled.  *)
THEOREM DriverSparesItsGroup == Spec => []NoGroupSignal
<1>1. Inv => NoGroupSignal
    BY DEF Inv, Told, ToldBehind, NoGroupSignal
<1>2. QED
    BY <1>1, RegistryInvariant, PTL

(* Started in turn, however many there are, a process that serves is in    *)
(* the slot it remembers, so that the driver finds it: all that one who    *)
(* was refused can do to the others is to empty slot 0.                    *)
THEOREM OrderlyStaffFindable == Spec => []OrderlyStaffRegistered
<1>1. Inv => OrderlyStaffRegistered
    BY DEF Inv, Walk, IndexIsSlot, OwnSlots, KeepsSlot, OrderlyStaffRegistered
<1>2. QED
    BY <1>1, RegistryInvariant, PTL

(* Started in turn, register_r fails only when as many others serve as     *)
(* there are slots: also with more staff than slots.                       *)
THEOREM RefusalMeansFull == Spec => []RefusedOnlyWhenFull
<1>1. ASSUME Inv, start = "in_turn", NEW s \in Staff, pc[s] = "refused"
      PROVE  Cardinality({r \in Staff : pc[r] = "ready"}) >= TOTAL_STAFF_SIZE
  <2> DEFINE serving == {r \in Staff : pc[r] = "ready"}
  <2>1. TypeOK /\ s \in hired /\ i[s] = TOTAL_STAFF_SIZE
      BY <1>1 DEF Inv, Walk, StartedHired, RefusedAtEnd
  <2>2. OneLooks /\ ClosedSettled
      BY <1>1 DEF Inv, InTurn
  <2>3. tester = "open"
      BY <1>1, <2>1, <2>2 DEF ClosedSettled
  <2>4. ASSUME NEW n \in Slots PROVE \E r \in serving : i[r] = n
    <3>1. n # TOTAL_STAFF_SIZE /\ n < i[s]
        BY <2>1, RegistryAssumption DEF Slots
    <3>2. PICK r \in hired \ {s} : i[r] = n /\ pc[r] \in Entered
        BY <1>1, <3>1 DEF Inv, Walk, PassedTaken
    <3>3. r \in Staff
        BY <2>1, <3>2 DEF TypeOK
    <3>4. pc[r] \notin {"index", "cleanup", "exited"}
        BY <1>1, <2>2, <2>3, <3>1, <3>2, <3>3 DEF OneLooks, ClosedSettled, Looking
    <3>5. QED
        BY <3>2, <3>3, <3>4 DEF Entered
  <2>5. serving \in SUBSET Staff
      OBVIOUS
  <2> HIDE DEF serving
  <2>6. Cardinality(serving) >= TOTAL_STAFF_SIZE
      BY <2>1, <2>4, <2>5, OnePerSlot DEF TypeOK
  <2>7. QED
      BY <2>6 DEF serving
<1>2. Inv => RefusedOnlyWhenFull
    BY <1>1 DEF RefusedOnlyWhenFull
<1>3. QED
    BY <1>2, RegistryInvariant, PTL

(* When all have left, the array holds at most processes started at once   *)
(* that SIGUSR1 kept from remembering their slot.                          *)
THEOREM ClosingClearsRegistry == Spec => []RegistryCleared
<1>1. ASSUME Inv, AllIn(hired, {"exited"}), NEW n \in Slots, staff_id[n] # NoPid
      PROVE  start = "at_once" /\ staff_index[staff_id[n]] # n
  <2>1. staff_id[n] \in Staff /\ pc[staff_id[n]] = "exited"
      BY <1>1 DEF Inv, Walk, TypeOK, AllIn
  <2>2. start # "in_turn"
      BY <1>1, <2>1 DEF Inv, OwnSlots, GoneFromArray
  <2>3. start \in {"at_once", "in_turn"}
      BY <1>1, RegistryAssumption DEF Inv, Walk, TypeOK
  <2>4. QED
      BY <1>1, <2>1, <2>2, <2>3 DEF Inv, ForgottenSlot
<1>2. Inv => RegistryCleared
    BY <1>1 DEF RegistryCleared
<1>3. QED
    BY <1>2, RegistryInvariant, PTL
=============================================================================
