-------------------------- MODULE LifecycleProofs --------------------------
(***************************************************************************)
(* Proofs about Lifecycle, for any clients, any staff and any number of    *)
(* openings.                                                               *)
(*                                                                         *)
(* Nothing in the programs keeps them in order, so what is proved rests on *)
(* what the user does (InOrder) and on what test waits for (InTime): while *)
(* a process that can be relied on is in the segment, the key stands for   *)
(* that segment and nobody fills or destroys it.                           *)
(***************************************************************************)
EXTENDS Lifecycle, TLAPS

(* Where each program can be. *)
Places ==
    /\ pc["init"] \in {"off", "get", "attach", "fill", "store", "done"}
    /\ pc["test"] \in {"off", "get", "attach", "attached", "reap", "kill", "done"}
    /\ pc["cleanup"] \in {"off", "get", "attach", "attached", "destroy", "detach",
                          "remove", "done"}
    /\ \A p \in Clients : pc[p] \in {"off", "get", "attach", "attached", "done"}
    /\ \A p \in Staff :
          pc[p] \in {"off", "get", "attach", "attached", "serving", "done"}

(* The user's order: init, test, cleanup, and init again after either. *)
InOrder ==
    /\ pc["init"] = "off" <=> openings = 0
    /\ pc["init"] # "done" => pc["test"] = "off"
    /\ pc["test"] # "done" => pc["cleanup"] = "off"

(* The commands work on the segment of the key, whose id it holds. *)
OnTheKey ==
    /\ pc["init"] \in {"attach", "fill", "store"} => key # None /\ got["init"] = key
    /\ pc["init"] \in {"fill", "store"} => attached["init"] = key
    /\ pc["init"] = "done" /\ pc["cleanup"] # "done" => key # None /\ stored[key] = key
    /\ pc["cleanup"] = "done" => key = None
    /\ \A p \in {"test", "cleanup"} : pc[p] = "attach" => got[p] = key
    /\ pc["test"] \in {"attached", "reap", "kill"} => attached["test"] = key
    /\ pc["cleanup"] \in {"attached", "destroy", "detach"} => attached["cleanup"] = key
    /\ pc["cleanup"] \in {"destroy", "detach", "remove"} => got["cleanup"] = key

(* What init has filled so far, and cleanup has not begun to destroy. *)
Filled ==
    /\ pc["init"] # "fill" /\ pc["cleanup"] # "destroy" => part = 1
    /\ pc["init"] = "fill" => \A k \in 1 .. part - 1 : state[key][Part[k]] = "ready"
    /\ \/ pc["init"] = "store"
       \/ pc["init"] = "done" /\ pc["cleanup"] \in {"off", "get", "attach", "attached"}
       => \A x \in Parts : state[key][x] = "ready"

(* Those one can rely on are there between the launch and the end of what  *)
(* waits for them, in the segment of that time.                            *)
InTime ==
    /\ \A p \in Clients :
          pc[p] \in {"get", "attach", "attached"} => pc["test"] = "reap"
    /\ patient => \A p \in Staff :
          pc[p] \in {"get", "attach", "attached", "serving"} =>
             pc["test"] \in {"reap", "kill", "done"} /\ pc["cleanup"] = "off"
    /\ \A p \in Relied : /\ pc[p] = "attach" => got[p] = key
                         /\ attached[p] # None => attached[p] = key

(* No id but those of segments was asked to be removed. *)
RemovedIds == removed \subseteq Ids

(* A process is attached only between its shmat and its end. *)
AttachedInside ==
    \A p \in Processes : attached[p] # None =>
        pc[p] \in {"fill", "store", "attached", "reap", "kill", "serving", "destroy", "detach"}

(* A segment that has lost its key is somebody's. *)
KeptBySomebody == \A id \in exists : id = key \/ AttachedTo(id) # {}

Inv == /\ TypeOK /\ Places /\ InOrder /\ OnTheKey /\ Filled /\ InTime
       /\ AttachedInside /\ KeptBySomebody
-----------------------------------------------------------------------------
(* The names of the programs are no clients and no staff. *)
LEMMA Distinct ==
    /\ Clients \subseteq Processes /\ Staff \subseteq Processes
    /\ Clients \intersect Staff = {}
    /\ "init" \in Processes /\ "test" \in Processes /\ "cleanup" \in Processes
    /\ \A p \in Clients \union Staff : p # "init" /\ p # "test" /\ p # "cleanup"
    /\ Children \subseteq Processes
    /\ \A p \in Children : p \in Clients \union Staff \/ p = "test" \/ p = "cleanup"
    /\ Commands = {"init", "test", "cleanup"}
BY LifecycleAssumption DEF Processes, Commands, Children

LEMMA PartFacts ==
    /\ Len(Part) = 7 /\ DOMAIN Part = 1 .. 7
    /\ \A k \in 1 .. 7 : Part[k] \in Parts
    /\ \A x \in Parts : \E k \in 1 .. 7 : x = Part[k]
BY DEF Part, Parts

LEMMA NoneIsNoId == None \notin Ids /\ Ids \subseteq Nat
BY LifecycleAssumption DEF Ids

(* init is there when the restaurant has been opened at least once. *)
LEMMA OpeningIsId == TypeOK /\ InOrder /\ pc["init"] = "get" => openings \in Ids
BY LifecycleAssumption DEF TypeOK, InOrder, Ids

LEMMA DetachTyped ==
    ASSUME TypeOK, NEW p \in Processes, Detach(p), key' = key
    PROVE  /\ attached' \in [Processes -> exists' \union {None}]
           /\ key' \in exists' \union {None} /\ exists' \subseteq Ids
<1>1. CASE attached[p] # key /\ AttachedTo(attached[p]) = {p}
  <2>1. exists' = exists \ {attached[p]} /\ attached' = [attached EXCEPT ![p] = None]
      BY <1>1 DEF Detach
  <2>2. \A r \in Processes : r # p => attached[r] # attached[p]
      BY <1>1 DEF AttachedTo
  <2>3. QED
      BY <1>1, <2>1, <2>2 DEF TypeOK
<1>2. CASE ~ (attached[p] # key /\ AttachedTo(attached[p]) = {p})
  <2>1. exists' = exists /\ attached' = [attached EXCEPT ![p] = None]
      BY <1>2 DEF Detach
  <2>2. QED
      BY <2>1 DEF TypeOK
<1>3. QED
    BY <1>1, <1>2

LEMMA TypeOKPreserved == Inv /\ [Next]_vars => TypeOK'
<1> SUFFICES ASSUME Inv, [Next]_vars PROVE TypeOK'
    OBVIOUS
<1> TypeOK /\ Places /\ InOrder /\ OnTheKey
    BY DEF Inv
<1> USE Distinct, PartFacts, NoneIsNoId DEF TypeOK, InOrder, OnTheKey, Places, AttachedTo
<1>1. CASE StartInit
    BY <1>1, LifecycleAssumption DEF StartInit, Returned, segmentVars
<1>2. CASE StartTest
    BY <1>2 DEF StartTest, Start, Returned, segmentVars
<1>3. CASE StartCleanup
    BY <1>3 DEF StartCleanup, Start, Returned, segmentVars
<1>4. CASE InitGet
    BY <1>4, OpeningIsId DEF InitGet, Goto
<1>5. CASE InitAttach
    BY <1>5 DEF InitAttach, Goto, segmentVars
<1>6. CASE InitPart
    BY <1>6 DEF InitPart, Goto
<1>7. CASE InitStore
    BY <1>7 DEF InitStore, Goto, Detach
<1>8. ASSUME NEW p \in Children, ChildGet(p) PROVE TypeOK'
    BY <1>8 DEF ChildGet, Goto, NoSegment, segmentVars
<1>9. ASSUME NEW p \in Children, ChildAttach(p) PROVE TypeOK'
    BY <1>9 DEF ChildAttach, Goto, NoSegment, segmentVars
<1>10. ASSUME NEW p \in Clients, ClientLeaves(p) PROVE TypeOK'
    BY <1>10, DetachTyped DEF ClientLeaves, Goto
<1>11. ASSUME NEW p \in Staff, Register(p) PROVE TypeOK'
  <2>1. PICK seen \in SUBSET Staff :
            staff_id' = [staff_id EXCEPT ![attached[p]] = @ \union seen]
      BY <1>11 DEF Register
  <2>2. staff_id' \in [Ids -> SUBSET Staff]
    <3>1. CASE attached[p] \in Ids
        BY <2>1, <3>1
    <3>2. CASE attached[p] \notin Ids
        BY <2>1, <3>2
    <3>3. QED
        BY <3>1, <3>2
  <2>3. QED
      BY <1>11, <2>2 DEF Register, Goto
<1>12. ASSUME NEW p \in Staff, CloseShop(p) PROVE TypeOK'
  <2>1. staff_id' = [staff_id EXCEPT ![attached[p]] = @ \ {p}]
      BY <1>12 DEF CloseShop
  <2>2. staff_id' \in [Ids -> SUBSET Staff]
    <3>1. CASE attached[p] \in Ids
        BY <2>1, <3>1
    <3>2. CASE attached[p] \notin Ids
        BY <2>1, <3>2
    <3>3. QED
        BY <3>1, <3>2
  <2>3. QED
      BY <1>12, <2>2, DetachTyped DEF CloseShop, Goto
<1>13. CASE Launch
    BY <1>13 DEF Launch, segmentVars
<1>14. CASE Reap
    BY <1>14 DEF Reap, Goto, segmentVars
<1>15. CASE KillStaff
    BY <1>15 DEF KillStaff, Goto, Detach
<1>16. CASE CleanupRead
    BY <1>16 DEF CleanupRead, Goto, segmentVars
<1>17. CASE CleanupPart
    BY <1>17 DEF CleanupPart, Goto, Destroyed
<1>18. CASE CleanupDetach
    BY <1>18 DEF CleanupDetach, Goto, Detach
<1>19. CASE CleanupRemove
    BY ZenonT(60), <1>19 DEF CleanupRemove, Goto
<1>20. CASE UNCHANGED vars
    BY <1>20 DEF vars, segmentVars
<1>21. QED
    BY <1>1, <1>2, <1>3, <1>4, <1>5, <1>6, <1>7, <1>8, <1>9, <1>10, <1>11, <1>12, <1>13, <1>14, <1>15, <1>16, <1>17, <1>18, <1>19, <1>20
    DEF Next, InitProgram, TestProgram, CleanupProgram, StaffMember

LEMMA PlacesPreserved == Inv /\ [Next]_vars => Places'
<1> SUFFICES ASSUME Inv, [Next]_vars PROVE Places'
    OBVIOUS
<1> TypeOK /\ Places /\ InOrder /\ OnTheKey
    BY DEF Inv
<1> USE Distinct DEF TypeOK, InOrder, OnTheKey, Places
<1>1. CASE StartInit
    BY <1>1 DEF StartInit, Returned, segmentVars
<1>2. CASE StartTest
    BY <1>2 DEF StartTest, Start, Returned, segmentVars
<1>3. CASE StartCleanup
    BY <1>3 DEF StartCleanup, Start, Returned, segmentVars
<1>4. CASE InitGet
    BY <1>4 DEF InitGet, Goto
<1>5. CASE InitAttach
    BY <1>5 DEF InitAttach, Goto, segmentVars
<1>6. CASE InitPart
    BY <1>6 DEF InitPart, Goto
<1>7. CASE InitStore
    BY <1>7 DEF InitStore, Goto, Detach
<1>8. ASSUME NEW p \in Children, ChildGet(p) PROVE Places'
    BY <1>8 DEF ChildGet, Goto, NoSegment, segmentVars
<1>9. ASSUME NEW p \in Children, ChildAttach(p) PROVE Places'
    BY <1>9 DEF ChildAttach, Goto, NoSegment, segmentVars
<1>10. ASSUME NEW p \in Clients, ClientLeaves(p) PROVE Places'
    BY <1>10 DEF ClientLeaves, Goto, Detach
<1>11. ASSUME NEW p \in Staff, Register(p) PROVE Places'
    BY <1>11 DEF Register, Goto
<1>12. ASSUME NEW p \in Staff, CloseShop(p) PROVE Places'
    BY <1>12 DEF CloseShop, Goto, Detach
<1>13. CASE Launch
    BY <1>13 DEF Launch, segmentVars
<1>14. CASE Reap
    BY <1>14 DEF Reap, Goto, segmentVars
<1>15. CASE KillStaff
    BY <1>15 DEF KillStaff, Goto, Detach
<1>16. CASE CleanupRead
    BY <1>16 DEF CleanupRead, Goto, segmentVars
<1>17. CASE CleanupPart
    BY <1>17 DEF CleanupPart, Goto, Destroyed
<1>18. CASE CleanupDetach
    BY <1>18 DEF CleanupDetach, Goto, Detach
<1>19. CASE CleanupRemove
    BY <1>19 DEF CleanupRemove, Goto
<1>20. CASE UNCHANGED vars
    BY <1>20 DEF vars, segmentVars
<1>21. QED
    BY <1>1, <1>2, <1>3, <1>4, <1>5, <1>6, <1>7, <1>8, <1>9, <1>10, <1>11, <1>12, <1>13, <1>14, <1>15, <1>16, <1>17, <1>18, <1>19, <1>20
    DEF Next, InitProgram, TestProgram, CleanupProgram, StaffMember

LEMMA InOrderPreserved == Inv /\ [Next]_vars => InOrder'
<1> SUFFICES ASSUME Inv, [Next]_vars PROVE InOrder'
    OBVIOUS
<1> TypeOK /\ Places /\ InOrder
    BY DEF Inv
<1> USE Distinct DEF TypeOK, InOrder, Places
<1>1. CASE StartInit
    BY <1>1 DEF StartInit, Returned, segmentVars
<1>2. CASE StartTest
    BY <1>2 DEF StartTest, Start, Returned, segmentVars
<1>3. CASE StartCleanup
    BY <1>3 DEF StartCleanup, Start, Returned, segmentVars
<1>4. CASE InitGet
    BY <1>4 DEF InitGet, Goto
<1>5. CASE InitAttach
    BY <1>5 DEF InitAttach, Goto, segmentVars
<1>6. CASE InitPart
    BY <1>6 DEF InitPart, Goto
<1>7. CASE InitStore
    BY <1>7 DEF InitStore, Goto, Detach
<1>8. ASSUME NEW p \in Children, ChildGet(p) PROVE InOrder'
    BY <1>8 DEF ChildGet, Goto, NoSegment, segmentVars
<1>9. ASSUME NEW p \in Children, ChildAttach(p) PROVE InOrder'
    BY <1>9 DEF ChildAttach, Goto, NoSegment, segmentVars
<1>10. ASSUME NEW p \in Clients, ClientLeaves(p) PROVE InOrder'
    BY <1>10 DEF ClientLeaves, Goto, Detach
<1>11. ASSUME NEW p \in Staff, Register(p) PROVE InOrder'
    BY <1>11 DEF Register, Goto
<1>12. ASSUME NEW p \in Staff, CloseShop(p) PROVE InOrder'
    BY <1>12 DEF CloseShop, Goto, Detach
<1>13. CASE Launch
    BY <1>13 DEF Launch, segmentVars
<1>14. CASE Reap
    BY <1>14 DEF Reap, Goto, segmentVars
<1>15. CASE KillStaff
    BY <1>15 DEF KillStaff, Goto, Detach
<1>16. CASE CleanupRead
    BY <1>16 DEF CleanupRead, Goto, segmentVars
<1>17. CASE CleanupPart
    BY <1>17 DEF CleanupPart, Goto, Destroyed
<1>18. CASE CleanupDetach
    BY <1>18 DEF CleanupDetach, Goto, Detach
<1>19. CASE CleanupRemove
    BY <1>19 DEF CleanupRemove, Goto
<1>20. CASE UNCHANGED vars
    BY <1>20 DEF vars, segmentVars
<1>21. QED
    BY <1>1, <1>2, <1>3, <1>4, <1>5, <1>6, <1>7, <1>8, <1>9, <1>10, <1>11, <1>12, <1>13, <1>14, <1>15, <1>16, <1>17, <1>18, <1>19, <1>20
    DEF Next, InitProgram, TestProgram, CleanupProgram, StaffMember

LEMMA OnTheKeyPreserved == Inv /\ [Next]_vars => OnTheKey'
<1> SUFFICES ASSUME Inv, [Next]_vars PROVE OnTheKey'
    OBVIOUS
<1> TypeOK /\ Places /\ InOrder /\ OnTheKey
    BY DEF Inv
<1> USE Distinct, NoneIsNoId DEF TypeOK, InOrder, OnTheKey, Places
<1>1. CASE StartInit
    BY <1>1 DEF StartInit, Returned, segmentVars
<1>2. CASE StartTest
    BY <1>2 DEF StartTest, Start, Returned, segmentVars
<1>3. CASE StartCleanup
    BY <1>3 DEF StartCleanup, Start, Returned, segmentVars
<1>4. CASE InitGet
    BY <1>4, OpeningIsId DEF InitGet, Goto
<1>5. CASE InitAttach
    BY <1>5 DEF InitAttach, Goto, segmentVars
<1>6. CASE InitPart
    BY <1>6 DEF InitPart, Goto
<1>7. CASE InitStore
    BY <1>7 DEF InitStore, Goto, Detach
<1>8. ASSUME NEW p \in Children, ChildGet(p) PROVE OnTheKey'
    BY <1>8 DEF ChildGet, Goto, NoSegment, segmentVars
<1>9. ASSUME NEW p \in Children, ChildAttach(p) PROVE OnTheKey'
    BY <1>9 DEF ChildAttach, Goto, NoSegment, segmentVars
<1>10. ASSUME NEW p \in Clients, ClientLeaves(p) PROVE OnTheKey'
    BY <1>10 DEF ClientLeaves, Goto, Detach
<1>11. ASSUME NEW p \in Staff, Register(p) PROVE OnTheKey'
    BY <1>11 DEF Register, Goto
<1>12. ASSUME NEW p \in Staff, CloseShop(p) PROVE OnTheKey'
    BY <1>12 DEF CloseShop, Goto, Detach
<1>13. CASE Launch
    BY <1>13 DEF Launch, segmentVars
<1>14. CASE Reap
    BY <1>14 DEF Reap, Goto, segmentVars
<1>15. CASE KillStaff
    BY <1>15 DEF KillStaff, Goto, Detach
<1>16. CASE CleanupRead
    BY <1>16 DEF CleanupRead, Goto, segmentVars
<1>17. CASE CleanupPart
    BY <1>17 DEF CleanupPart, Goto, Destroyed
<1>18. CASE CleanupDetach
    BY <1>18 DEF CleanupDetach, Goto, Detach
<1>19. CASE CleanupRemove
    BY <1>19 DEF CleanupRemove, Goto
<1>20. CASE UNCHANGED vars
    BY <1>20 DEF vars, segmentVars
<1>21. QED
    BY <1>1, <1>2, <1>3, <1>4, <1>5, <1>6, <1>7, <1>8, <1>9, <1>10, <1>11, <1>12, <1>13, <1>14, <1>15, <1>16, <1>17, <1>18, <1>19, <1>20
    DEF Next, InitProgram, TestProgram, CleanupProgram, StaffMember

LEMMA FilledPreserved == Inv /\ [Next]_vars => Filled'
<1> SUFFICES ASSUME Inv, [Next]_vars PROVE Filled'
    OBVIOUS
<1> TypeOK /\ Places /\ InOrder /\ OnTheKey /\ Filled
    BY DEF Inv
<1> USE Distinct, NoneIsNoId, PartFacts DEF TypeOK, InOrder, OnTheKey, Filled, Places
<1>1. CASE StartInit
    BY <1>1 DEF StartInit, Returned, segmentVars
<1>2. CASE StartTest
    BY <1>2 DEF StartTest, Start, Returned, segmentVars
<1>3. CASE StartCleanup
    BY <1>3 DEF StartCleanup, Start, Returned, segmentVars
<1>4. CASE InitGet
    BY <1>4 DEF InitGet, Goto
<1>5. CASE InitAttach
    BY <1>5 DEF InitAttach, Goto, segmentVars
<1>6. CASE InitPart
    BY <1>6 DEF InitPart, Goto
<1>7. CASE InitStore
    BY <1>7 DEF InitStore, Goto, Detach
<1>8. ASSUME NEW p \in Children, ChildGet(p) PROVE Filled'
    BY <1>8 DEF ChildGet, Goto, NoSegment, segmentVars
<1>9. ASSUME NEW p \in Children, ChildAttach(p) PROVE Filled'
    BY <1>9 DEF ChildAttach, Goto, NoSegment, segmentVars
<1>10. ASSUME NEW p \in Clients, ClientLeaves(p) PROVE Filled'
    BY <1>10 DEF ClientLeaves, Goto, Detach
<1>11. ASSUME NEW p \in Staff, Register(p) PROVE Filled'
    BY <1>11 DEF Register, Goto
<1>12. ASSUME NEW p \in Staff, CloseShop(p) PROVE Filled'
    BY <1>12 DEF CloseShop, Goto, Detach
<1>13. CASE Launch
    BY <1>13 DEF Launch, segmentVars
<1>14. CASE Reap
    BY <1>14 DEF Reap, Goto, segmentVars
<1>15. CASE KillStaff
    BY <1>15 DEF KillStaff, Goto, Detach
<1>16. CASE CleanupRead
    BY <1>16 DEF CleanupRead, Goto, segmentVars
<1>17. CASE CleanupPart
    BY <1>17 DEF CleanupPart, Goto, Destroyed
<1>18. CASE CleanupDetach
    BY <1>18 DEF CleanupDetach, Goto, Detach
<1>19. CASE CleanupRemove
    BY <1>19 DEF CleanupRemove, Goto
<1>20. CASE UNCHANGED vars
    BY <1>20 DEF vars, segmentVars
<1>21. QED
    BY <1>1, <1>2, <1>3, <1>4, <1>5, <1>6, <1>7, <1>8, <1>9, <1>10, <1>11, <1>12, <1>13, <1>14, <1>15, <1>16, <1>17, <1>18, <1>19, <1>20
    DEF Next, InitProgram, TestProgram, CleanupProgram, StaffMember

LEMMA InTimePreserved == Inv /\ [Next]_vars => InTime'
<1> SUFFICES ASSUME Inv, [Next]_vars PROVE InTime'
    OBVIOUS
<1> TypeOK /\ Places /\ InOrder /\ OnTheKey /\ InTime /\ AttachedInside
    BY DEF Inv
<1> USE Distinct, NoneIsNoId DEF TypeOK, InOrder, OnTheKey, InTime, Relied, Places
<1>1. CASE StartInit
    BY <1>1 DEF StartInit, Returned, segmentVars
<1>2. CASE StartTest
    BY <1>2 DEF StartTest, Start, Returned, segmentVars
<1>3. CASE StartCleanup
    BY <1>3 DEF StartCleanup, Start, Returned, segmentVars
<1>4. CASE InitGet
    BY <1>4 DEF InitGet, Goto
<1>5. CASE InitAttach
    BY <1>5 DEF InitAttach, Goto, segmentVars
<1>6. CASE InitPart
    BY <1>6 DEF InitPart, Goto
<1>7. CASE InitStore
    BY <1>7 DEF InitStore, Goto, Detach
<1>8. ASSUME NEW p \in Children, ChildGet(p) PROVE InTime'
    BY <1>8 DEF ChildGet, Goto, NoSegment, segmentVars
<1>9. ASSUME NEW p \in Children, ChildAttach(p) PROVE InTime'
    BY <1>9 DEF ChildAttach, Goto, NoSegment, segmentVars
<1>10. ASSUME NEW p \in Clients, ClientLeaves(p) PROVE InTime'
    BY <1>10 DEF ClientLeaves, Goto, Detach
<1>11. ASSUME NEW p \in Staff, Register(p) PROVE InTime'
    BY <1>11 DEF Register, Goto
<1>12. ASSUME NEW p \in Staff, CloseShop(p) PROVE InTime'
    BY <1>12 DEF CloseShop, Goto, Detach
<1>13. CASE Launch
    BY <1>13 DEF Launch, segmentVars
<1>14. CASE Reap
    BY <1>14 DEF Reap, Goto, segmentVars
<1>15. CASE KillStaff
    BY <1>15 DEF KillStaff, Goto, Detach
<1>16. CASE CleanupRead
    BY <1>16 DEF CleanupRead, Goto, segmentVars
<1>17. CASE CleanupPart
    BY <1>17 DEF CleanupPart, Goto, Destroyed
<1>18. CASE CleanupDetach
    BY <1>18 DEF CleanupDetach, Goto, Detach
<1>19. CASE CleanupRemove
    BY <1>19 DEF CleanupRemove, Goto, AttachedInside
<1>20. CASE UNCHANGED vars
    BY <1>20 DEF vars, segmentVars
<1>21. QED
    BY <1>1, <1>2, <1>3, <1>4, <1>5, <1>6, <1>7, <1>8, <1>9, <1>10, <1>11, <1>12, <1>13, <1>14, <1>15, <1>16, <1>17, <1>18, <1>19, <1>20
    DEF Next, InitProgram, TestProgram, CleanupProgram, StaffMember

LEMMA AttachedInsidePreserved == Inv /\ [Next]_vars => AttachedInside'
<1> SUFFICES ASSUME Inv, [Next]_vars PROVE AttachedInside'
    OBVIOUS
<1> TypeOK /\ Places /\ InTime /\ AttachedInside
    BY DEF Inv
<1> USE Distinct DEF TypeOK, AttachedInside, Places
<1>1. CASE StartInit
    BY <1>1 DEF StartInit, Returned, segmentVars
<1>2. CASE StartTest
    BY <1>2 DEF StartTest, Start, Returned, segmentVars
<1>3. CASE StartCleanup
    BY <1>3 DEF StartCleanup, Start, Returned, segmentVars
<1>4. CASE InitGet
    BY <1>4 DEF InitGet, Goto
<1>5. CASE InitAttach
    BY <1>5 DEF InitAttach, Goto, segmentVars
<1>6. CASE InitPart
    BY <1>6 DEF InitPart, Goto
<1>7. CASE InitStore
    BY <1>7 DEF InitStore, Goto, Detach
<1>8. ASSUME NEW p \in Children, ChildGet(p) PROVE AttachedInside'
    BY <1>8 DEF ChildGet, Goto, NoSegment, segmentVars
<1>9. ASSUME NEW p \in Children, ChildAttach(p) PROVE AttachedInside'
    BY <1>9 DEF ChildAttach, Goto, NoSegment, segmentVars
<1>10. ASSUME NEW p \in Clients, ClientLeaves(p) PROVE AttachedInside'
    BY <1>10 DEF ClientLeaves, Goto, Detach
<1>11. ASSUME NEW p \in Staff, Register(p) PROVE AttachedInside'
    BY <1>11 DEF Register, Goto
<1>12. ASSUME NEW p \in Staff, CloseShop(p) PROVE AttachedInside'
    BY <1>12 DEF CloseShop, Goto, Detach
<1>13. CASE Launch
    BY <1>13 DEF Launch, segmentVars, InTime
<1>14. CASE Reap
    BY <1>14 DEF Reap, Goto, segmentVars
<1>15. CASE KillStaff
    BY <1>15 DEF KillStaff, Goto, Detach
<1>16. CASE CleanupRead
    BY <1>16 DEF CleanupRead, Goto, segmentVars
<1>17. CASE CleanupPart
    BY <1>17 DEF CleanupPart, Goto, Destroyed
<1>18. CASE CleanupDetach
    BY <1>18 DEF CleanupDetach, Goto, Detach
<1>19. CASE CleanupRemove
    BY <1>19 DEF CleanupRemove, Goto
<1>20. CASE UNCHANGED vars
    BY <1>20 DEF vars, segmentVars
<1>21. QED
    BY <1>1, <1>2, <1>3, <1>4, <1>5, <1>6, <1>7, <1>8, <1>9, <1>10, <1>11, <1>12, <1>13, <1>14, <1>15, <1>16, <1>17, <1>18, <1>19, <1>20
    DEF Next, InitProgram, TestProgram, CleanupProgram, StaffMember

LEMMA KeptBySomebodyPreserved == Inv /\ [Next]_vars => KeptBySomebody'
<1> SUFFICES ASSUME Inv, [Next]_vars PROVE KeptBySomebody'
    OBVIOUS
<1> TypeOK /\ Places /\ OnTheKey /\ AttachedInside /\ KeptBySomebody
    BY DEF Inv
<1> USE Distinct, NoneIsNoId DEF TypeOK, OnTheKey, AttachedInside, KeptBySomebody, AttachedTo
<1>1. CASE StartInit
    BY <1>1 DEF StartInit, Returned, segmentVars
<1>2. CASE StartTest
    BY <1>2 DEF StartTest, Start, Returned, segmentVars
<1>3. CASE StartCleanup
    BY <1>3 DEF StartCleanup, Start, Returned, segmentVars
<1>4. CASE InitGet
    BY <1>4 DEF InitGet, Goto
<1>5. CASE InitAttach
    BY <1>5 DEF InitAttach, Goto, segmentVars
<1>6. CASE InitPart
    BY <1>6 DEF InitPart, Goto
<1>7. CASE InitStore
    BY <1>7 DEF InitStore, Goto, Detach
<1>8. ASSUME NEW p \in Children, ChildGet(p) PROVE KeptBySomebody'
    BY <1>8 DEF ChildGet, Goto, NoSegment, segmentVars
<1>9. ASSUME NEW p \in Children, ChildAttach(p) PROVE KeptBySomebody'
    BY <1>9 DEF ChildAttach, Goto, NoSegment, segmentVars
<1>10. ASSUME NEW p \in Clients, ClientLeaves(p) PROVE KeptBySomebody'
    BY <1>10 DEF ClientLeaves, Goto, Detach
<1>11. ASSUME NEW p \in Staff, Register(p) PROVE KeptBySomebody'
    BY <1>11 DEF Register, Goto
<1>12. ASSUME NEW p \in Staff, CloseShop(p) PROVE KeptBySomebody'
    BY <1>12 DEF CloseShop, Goto, Detach
<1>13. CASE Launch
    BY <1>13 DEF Launch, segmentVars
<1>14. CASE Reap
    BY <1>14 DEF Reap, Goto, segmentVars
<1>15. CASE KillStaff
    BY <1>15 DEF KillStaff, Goto, Detach
<1>16. CASE CleanupRead
    BY <1>16 DEF CleanupRead, Goto, segmentVars
<1>17. CASE CleanupPart
    BY <1>17 DEF CleanupPart, Goto, Destroyed
<1>18. CASE CleanupDetach
    BY <1>18 DEF CleanupDetach, Goto, Detach
<1>19. CASE CleanupRemove
    BY <1>19 DEF CleanupRemove, Goto
<1>20. CASE UNCHANGED vars
    BY <1>20 DEF vars, segmentVars
<1>21. QED
    BY <1>1, <1>2, <1>3, <1>4, <1>5, <1>6, <1>7, <1>8, <1>9, <1>10, <1>11, <1>12, <1>13, <1>14, <1>15, <1>16, <1>17, <1>18, <1>19, <1>20
    DEF Next, InitProgram, TestProgram, CleanupProgram, StaffMember

-----------------------------------------------------------------------------
LEMMA InitInv == Init => Inv
<1> SUFFICES ASSUME Init PROVE Inv
    OBVIOUS
<1>1. TypeOK
    BY LifecycleAssumption, PartFacts DEF Init, TypeOK
<1>2. Places /\ InOrder /\ OnTheKey /\ Filled
    BY Distinct DEF Init, Places, InOrder, OnTheKey, Filled
<1>3. InTime
    BY Distinct DEF Init, InTime, Relied
<1>4. AttachedInside /\ KeptBySomebody
    BY DEF Init, AttachedInside, KeptBySomebody
<1>5. QED
    BY <1>1, <1>2, <1>3, <1>4 DEF Inv

LEMMA InvPreserved == Inv /\ [Next]_vars => Inv'
BY TypeOKPreserved, PlacesPreserved, InOrderPreserved, OnTheKeyPreserved,
   FilledPreserved, InTimePreserved, AttachedInsidePreserved, KeptBySomebodyPreserved
DEF Inv

(* Who works on which segment when, for any number of openings. *)
THEOREM LifecycleInvariant == Spec => []Inv
BY InitInv, InvPreserved, PTL DEF Spec

(* Every segment attached exists, and every id is one the system gave. *)
THEOREM LifecycleTyped == Spec => []TypeOK
<1>1. Inv => TypeOK
    BY DEF Inv
<1>2. QED
    BY <1>1, LifecycleInvariant, PTL

(* The clients, whom test waits for, and the staff of a user who waits for *)
(* them, are all in the one segment that test launched them for, complete, *)
(* and neither init nor cleanup is at work in it.                          *)
THEOREM ReliedShareOneRestaurant == Spec => []OneLiveRestaurant
<1>1. ASSUME Inv, NEW p \in Relied, attached[p] # None
      PROVE  /\ attached[p] = key
             /\ \A x \in Parts : state[key][x] = "ready"
             /\ AttachedTo(key) \intersect {"init", "cleanup"} = {}
  <2>1. attached[p] = key
      BY <1>1 DEF Inv, InTime
  <2>2. pc["test"] \in {"reap", "kill", "done"} /\ pc["cleanup"] = "off"
    <3>1. CASE p \in Clients
        BY <1>1, <3>1, Distinct DEF Inv, InTime, InOrder, AttachedInside, Places
    <3>2. CASE p \in Staff /\ patient
        BY <1>1, <3>2, Distinct DEF Inv, InTime, AttachedInside, Places
    <3>3. QED
        BY <1>1, <3>1, <3>2 DEF Relied
  <2>3. pc["init"] = "done"
      BY <1>1, <2>2 DEF Inv, InOrder
  <2>4. \A x \in Parts : state[key][x] = "ready"
      BY <1>1, <2>2, <2>3 DEF Inv, Filled
  <2>5. attached["init"] = None /\ attached["cleanup"] = None
      BY <1>1, <2>2, <2>3, Distinct DEF Inv, AttachedInside
  <2>6. AttachedTo(key) \intersect {"init", "cleanup"} = {}
      BY <1>1, <2>1, <2>5 DEF AttachedTo
  <2>7. QED
      BY <2>1, <2>4, <2>6
<1>2. Inv => OneLiveRestaurant
    BY <1>1 DEF OneLiveRestaurant
<1>3. QED
    BY <1>2, LifecycleInvariant, PTL

(* cleanup destroys and removes one and the same segment, that of the key, *)
(* and neither test nor cleanup runs into a missing segment.               *)
THEOREM CleanupRemovesItsOwn == Spec => []OnlyOwnRemoved
<1>1. Inv => \A p \in Commands : pc[p] # "crashed"
    BY Distinct DEF Inv, Places
<1>2. Init => RemovedIds
    BY DEF Init, RemovedIds
<1>3. Inv /\ [Next]_vars /\ RemovedIds => RemovedIds'
  <2> SUFFICES ASSUME Inv, [Next]_vars, removed \subseteq Ids
               PROVE  removed' \subseteq Ids
      BY DEF RemovedIds
  <2>1. CASE CleanupRemove
    <3>1. got["cleanup"] = key /\ key # None /\ key \in Ids
        BY <2>1 DEF CleanupRemove, Goto, Inv, OnTheKey, InOrder, Places, TypeOK
    <3>2. QED
        BY <2>1, <3>1 DEF CleanupRemove
  <2>2. CASE ~ CleanupRemove
    <3>1. removed' = removed
        BY <2>2 DEF Next, vars, StartInit, StartTest, StartCleanup, Start, InitProgram,
            InitGet, InitAttach, InitPart, InitStore, TestProgram, Launch, Reap, KillStaff,
            CleanupProgram, CleanupRead, CleanupPart, CleanupDetach, ChildGet, ChildAttach,
            ClientLeaves, StaffMember, Register, CloseShop
    <3>2. QED
        BY <3>1
  <2>3. QED
      BY <2>1, <2>2
<1>4. Inv => /\ pc["cleanup"] \in {"destroy", "detach"} => got["cleanup"] = attached["cleanup"]
             /\ pc["cleanup"] = "remove" => got["cleanup"] = key
    BY DEF Inv, OnTheKey
<1>5. Inv /\ RemovedIds => OnlyOwnRemoved
    BY <1>1, <1>4 DEF OnlyOwnRemoved, RemovedIds
<1>6. QED
    BY <1>2, <1>3, <1>5, LifecycleInvariant, PTL DEF Spec

(* A segment that is still there when cleanup is done has staff attached,  *)
(* and nobody else; a user who has waited for the staff leaves none.       *)
THEOREM CleanupLeavesNothing == Spec => []NothingLeft
<1>1. ASSUME Inv, pc["cleanup"] = "done", NEW id \in exists
      PROVE  /\ AttachedTo(id) # {} /\ AttachedTo(id) \subseteq Staff
             /\ ~ patient
  <2>1. id # None /\ key = None
      BY <1>1, NoneIsNoId DEF Inv, TypeOK, OnTheKey
  <2>2. AttachedTo(id) # {}
      BY <1>1, <2>1 DEF Inv, KeptBySomebody
  <2>3. pc["test"] = "done" /\ pc["init"] = "done"
      BY <1>1 DEF Inv, InOrder
  <2>4. ASSUME NEW p \in AttachedTo(id) PROVE p \in Staff /\ ~ patient
    <3>1. /\ p \in Processes
          /\ pc[p] \in {"fill", "store", "attached", "reap", "kill", "serving", "destroy",
                        "detach"}
        BY <1>1, <2>1, <2>4 DEF AttachedTo, Inv, AttachedInside
    <3>2. p \notin Commands
        BY <1>1, <2>3, <3>1, Distinct
    <3>3. p \notin Clients
        BY <1>1, <2>3, <3>1 DEF Inv, InTime, Places
    <3>4. p \in Staff
        BY <3>1, <3>2, <3>3 DEF Processes
    <3>5. QED
        BY <1>1, <3>1, <3>4 DEF Inv, InTime, Places
  <2>5. QED
      BY <2>2, <2>4
<1>2. Inv => NothingLeft
    BY <1>1 DEF NothingLeft
<1>3. QED
    BY <1>2, LifecycleInvariant, PTL
=============================================================================
