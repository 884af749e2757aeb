------------------------------ MODULE Lifecycle ------------------------------
(***************************************************************************)
(* The life of the shared segment: init makes and fills it, test opens the *)
(* restaurant in it, cleanup destroys and removes it, and the processes in *)
(* between attach, are served or serve, and detach.  Nothing in the code   *)
(* keeps these programs in order: whoever types the commands does.         *)
(*                                                                         *)
(* A user starts the next command when the last one has returned.  A       *)
(* patient one also sees that the staff, which nobody waits for, are gone. *)
(* Either may open again without a cleanup in between.                     *)
(***************************************************************************)
EXTENDS Integers, Sequences, FiniteSets

CONSTANTS Clients,
          Staff,        \* the staff of all openings together
          NO_OF_STAFF,  \* how many of them test launches
          OPENINGS,     \* how often the user opens the restaurant
          None

Commands  == {"init", "test", "cleanup"}
Processes == Commands \union Clients \union Staff
Children  == Processes \ {"init"}   \* attach by shared_memory_child_get

ASSUME LifecycleAssumption ==
    /\ IsFiniteSet(Clients) /\ IsFiniteSet(Staff)
    /\ Clients \intersect Staff = {}
    /\ Commands \intersect (Clients \union Staff) = {}
    /\ NO_OF_STAFF \in Nat /\ OPENINGS \in Nat
    /\ Cardinality(Staff) = NO_OF_STAFF * OPENINGS
    /\ None \notin Nat

(* Identifiers of segments.  0, the value of sm_id in a new segment, is one *)
(* that the system may have given to somebody else.                         *)
Ids == 1 .. OPENINGS

(* shared_memory_init fills these in this order; cleanup destroys the parts *)
(* that hold semaphores, again in this order.                               *)
Part      == <<"mt", "lq", "sq", "st_p", "st_c", "mn", "staff_id">>
Parts     == {Part[k] : k \in DOMAIN Part}
Destroyed == 5

VARIABLES patient,    \* the user's habit
          openings,   \* how often init was started
          pc,
          part,       \* the loop of init or cleanup over the parts
          key,        \* the segment that ftok's key stands for
          exists,     \* the segments that exist
          state,      \* of each part of each segment
          stored,     \* sm_id in each segment
          staff_id,   \* the processes in each segment's array
          got,        \* what shmget, or cleanup's sm_p->sm_id, gave
          attached,   \* the segment each process has attached
          told,       \* the staff that SIGUSR1 was sent to
          removed     \* the ids shmctl was asked to remove (history)

segmentVars == <<key, exists, state, stored, staff_id>>
vars == <<patient, openings, pc, part, segmentVars, got, attached, told, removed>>

Init ==
    /\ patient \in BOOLEAN
    /\ openings = 0
    /\ pc = [p \in Processes |-> "off"]
    /\ part = 1
    /\ key = None
    /\ exists = {}
    /\ state = [id \in Ids |-> [x \in Parts |-> "zero"]]
    /\ stored = [id \in Ids |-> 0]
    /\ staff_id = [id \in Ids |-> {}]
    /\ got = [p \in Processes |-> None]
    /\ attached = [p \in Processes |-> None]
    /\ told = {}
    /\ removed = {}

Goto(p, here, there) ==
    /\ pc[p] = here
    /\ pc' = [pc EXCEPT ![p] = there]

AttachedTo(id) == {p \in Processes : attached[p] = id}

(* A segment that lost its key goes when its last process detaches it.      *)
Detach(p) ==
    /\ attached' = [attached EXCEPT ![p] = None]
    /\ exists' = IF attached[p] # key /\ AttachedTo(attached[p]) = {p}
                 THEN exists \ {attached[p]} ELSE exists

-----------------------------------------------------------------------------
(* The user *)

Returned(p) == pc[p] \in {"off", "done"}

Start(command) ==
    /\ \A p \in Commands : Returned(p)
    /\ patient => \A p \in Staff : Returned(p)
    /\ pc' = [pc EXCEPT ![command] = "get"]
    /\ UNCHANGED <<patient, part, segmentVars, got, attached, told, removed>>

(* Init comes first, or after a test or a cleanup. *)
StartInit ==
    /\ openings < OPENINGS
    /\ pc["test"] = "off" => openings = 0
    /\ openings' = openings + 1
    /\ \A p \in Commands : Returned(p)
    /\ patient => \A p \in Staff : Returned(p)
    /\ pc' = [p \in Processes |->
                IF p = "init" THEN "get" ELSE IF p \in Commands THEN "off" ELSE pc[p]]
    /\ UNCHANGED <<patient, part, segmentVars, got, attached, told, removed>>

StartTest == pc["init"] = "done" /\ pc["test"] = "off" /\ Start("test") /\ UNCHANGED openings

StartCleanup ==
    pc["test"] = "done" /\ pc["cleanup"] = "off" /\ Start("cleanup") /\ UNCHANGED openings

-----------------------------------------------------------------------------
(* shared_memory_main_get *)

(* Slip: shmget as with IPC_PRIVATE, a new segment at every call. *)
InitGetNew ==
    /\ Goto("init", "get", "attach")
    /\ \E id \in Ids \ exists :
          /\ stored[id] = 0
          /\ got' = [got EXCEPT !["init"] = id]
          /\ exists' = exists \union {id}
          /\ key' = id
    /\ UNCHANGED <<patient, openings, part, state, stored, staff_id, attached, told, removed>>

(* The segment of the key, or a new one, which the system fills with zeros. *)
InitGet ==
    /\ Goto("init", "get", "attach")
    /\ LET id == IF key # None THEN key ELSE openings
       IN  /\ got' = [got EXCEPT !["init"] = id]
           /\ exists' = exists \union {id}
           /\ key' = id
    /\ UNCHANGED <<patient, openings, part, state, stored, staff_id, attached, told, removed>>

InitAttach ==
    /\ Goto("init", "attach", "fill")
    /\ attached' = [attached EXCEPT !["init"] = got["init"]]
    /\ UNCHANGED <<patient, openings, part, segmentVars, got, told, removed>>

(* shared_memory_init *)
InitPart ==
    LET id == attached["init"]
    IN  /\ Goto("init", "fill", IF part < Len(Part) THEN "fill" ELSE "store")
        /\ part' = IF part < Len(Part) THEN part + 1 ELSE 1
        /\ state' = [state EXCEPT ![id][Part[part]] = "ready"]
        /\ staff_id' = [staff_id EXCEPT ![id] = IF Part[part] = "staff_id" THEN {} ELSE @]
        /\ UNCHANGED <<patient, openings, key, exists, stored, got, attached, told, removed>>

(* Slip: sm_id is not stored. *)
InitStoreMissing ==
    /\ Goto("init", "store", "done")
    /\ Detach("init")
    /\ UNCHANGED <<patient, openings, part, key, state, stored, staff_id, got, told, removed>>

(* The last statement, and the exit, which detaches. *)
InitStore ==
    /\ Goto("init", "store", "done")
    /\ stored' = [stored EXCEPT ![attached["init"]] = got["init"]]
    /\ Detach("init")
    /\ UNCHANGED <<patient, openings, part, key, state, staff_id, got, told, removed>>

InitProgram == InitGet \/ InitAttach \/ InitPart \/ InitStore

-----------------------------------------------------------------------------
(* shared_memory_child_get *)

(* Clients and staff check for NULL and exit; test and cleanup do not.      *)
NoSegment(p) == IF p \in Commands THEN "crashed" ELSE "done"

ChildGet(p) ==
    /\ Goto(p, "get", IF key # None THEN "attach" ELSE NoSegment(p))
    /\ got' = [got EXCEPT ![p] = key]
    /\ UNCHANGED <<patient, openings, part, segmentVars, attached, told, removed>>

(* Slip: the answer of shmat is not looked at. *)
ChildAttachUnchecked(p) ==
    /\ Goto(p, "attach", "attached")
    /\ attached' = [attached EXCEPT ![p] = got[p]]
    /\ UNCHANGED <<patient, openings, part, segmentVars, got, told, removed>>

(* The segment may have been removed since shmget. *)
ChildAttach(p) ==
    /\ Goto(p, "attach", IF got[p] \in exists THEN "attached" ELSE NoSegment(p))
    /\ attached' = [attached EXCEPT ![p] = IF got[p] \in exists THEN got[p] ELSE None]
    /\ UNCHANGED <<patient, openings, part, segmentVars, got, told, removed>>

-----------------------------------------------------------------------------
(* client.c: the visit is Restaurant's; here it ends. *)
ClientLeaves(p) ==
    /\ Goto(p, "attached", "done")
    /\ Detach(p)
    /\ UNCHANGED <<patient, openings, part, key, state, stored, staff_id, got, told, removed>>

(* cashier.c and server.c.  StaffRegistry shows how a process can miss the  *)
(* array; it is then never told to close.                                   *)
Register(p) ==
    /\ Goto(p, "attached", "serving")
    /\ \E seen \in {{}, {p}} :
          staff_id' = [staff_id EXCEPT ![attached[p]] = @ \union seen]
    /\ UNCHANGED <<patient, openings, part, key, exists, state, stored, got, attached,
                   told, removed>>

(* handle_sig_USR1 and cleanup_exit *)
CloseShop(p) ==
    /\ p \in told
    /\ Goto(p, "serving", "done")
    /\ staff_id' = [staff_id EXCEPT ![attached[p]] = @ \ {p}]
    /\ Detach(p)
    /\ UNCHANGED <<patient, openings, part, key, state, stored, got, told, removed>>

StaffMember(p) == Register(p) \/ CloseShop(p)

-----------------------------------------------------------------------------
(* test.c *)

(* All the forks: a process that has not begun yet is one that was forked late. *)
Launch ==
    /\ pc["test"] = "attached"
    /\ \E crew \in SUBSET {p \in Staff : pc[p] = "off"} :
          /\ Cardinality(crew) = NO_OF_STAFF
          /\ pc' = [p \in Processes |->
                      CASE p = "test"                -> "reap"
                        [] p \in Clients \union crew -> "get"
                        [] OTHER                     -> pc[p]]
    /\ UNCHANGED <<patient, openings, part, segmentVars, got, attached, told, removed>>

(* Slip: nobody waits for the clients. *)
ReapMissing ==
    /\ Goto("test", "reap", "kill")
    /\ UNCHANGED <<patient, openings, part, segmentVars, got, attached, told, removed>>

Reap ==
    /\ \A p \in Clients : pc[p] = "done"
    /\ Goto("test", "reap", "kill")
    /\ UNCHANGED <<patient, openings, part, segmentVars, got, attached, told, removed>>

(* The loop over staff_id, which StaffRegistry takes apart, and the exit.   *)
KillStaff ==
    /\ Goto("test", "kill", "done")
    /\ told' = told \union staff_id[attached["test"]]
    /\ Detach("test")
    /\ UNCHANGED <<patient, openings, part, key, state, stored, staff_id, got, removed>>

TestProgram == Launch \/ Reap \/ KillStaff

-----------------------------------------------------------------------------
(* cleanup.c *)

CleanupRead ==
    /\ Goto("cleanup", "attached", "destroy")
    /\ got' = [got EXCEPT !["cleanup"] = stored[attached["cleanup"]]]
    /\ UNCHANGED <<patient, openings, part, segmentVars, attached, told, removed>>

(* shared_memory_cleanup *)
CleanupPart ==
    /\ Goto("cleanup", "destroy", IF part < Destroyed THEN "destroy" ELSE "detach")
    /\ part' = IF part < Destroyed THEN part + 1 ELSE 1
    /\ state' = [state EXCEPT ![attached["cleanup"]][Part[part]] = "destroyed"]
    /\ UNCHANGED <<patient, openings, key, exists, stored, staff_id, got, attached, told,
                   removed>>

(* shared_memory_main_detach: shmdt ... *)
CleanupDetach ==
    /\ Goto("cleanup", "detach", "remove")
    /\ Detach("cleanup")
    /\ UNCHANGED <<patient, openings, part, key, state, stored, staff_id, got, told, removed>>

(* ... and shmctl with IPC_RMID: the key is free at once, the segment goes  *)
(* with its last process.                                                   *)
CleanupRemove ==
    LET id == got["cleanup"]
    IN  /\ Goto("cleanup", "remove", "done")
        /\ removed' = removed \union {id}
        /\ key' = IF key = id THEN None ELSE key
        /\ exists' = IF AttachedTo(id) = {} THEN exists \ {id} ELSE exists
        /\ UNCHANGED <<patient, openings, part, state, stored, staff_id, got, attached, told>>

CleanupProgram == CleanupRead \/ CleanupPart \/ CleanupDetach \/ CleanupRemove

-----------------------------------------------------------------------------
Next ==
    \/ StartInit \/ StartTest \/ StartCleanup
    \/ InitProgram \/ TestProgram \/ CleanupProgram
    \/ \E p \in Children : ChildGet(p) \/ ChildAttach(p)
    \/ \E p \in Clients : ClientLeaves(p)
    \/ \E p \in Staff : StaffMember(p)

Spec == Init /\ [][Next]_vars
-----------------------------------------------------------------------------
(* Properties *)

TypeOK ==
    /\ patient \in BOOLEAN
    /\ openings \in 0 .. OPENINGS
    /\ pc \in [Processes -> {"off", "get", "attach", "attached", "fill", "store", "serving",
                             "reap", "kill", "destroy", "detach", "remove", "done",
                             "crashed"}]
    /\ part \in DOMAIN Part
    /\ key \in exists \union {None} /\ exists \subseteq Ids
    /\ state \in [Ids -> [Parts -> {"zero", "ready", "destroyed"}]]
    /\ stored \in [Ids -> Ids \union {0}]
    /\ staff_id \in [Ids -> SUBSET Staff]
    /\ got \in [Processes -> Ids \union {0, None}]
    /\ attached \in [Processes -> exists \union {None}]
    /\ told \subseteq Staff
    /\ removed \subseteq Ids \union {0}

(* Those a well-meaning user can count on: the clients, whom test waits for, *)
(* and the staff only if the user waits for them too.                        *)
Relied == Clients \union (IF patient THEN Staff ELSE {})

(* They are all in one and the same segment, the one test has launched them  *)
(* for, every part of it initialized, and neither init nor cleanup is at it. *)
OneLiveRestaurant ==
    \A p \in Relied : attached[p] # None =>
        /\ attached[p] = key
        /\ \A x \in Parts : state[key][x] = "ready"
        /\ AttachedTo(key) \intersect {"init", "cleanup"} = {}

(* Neither test nor cleanup meets a missing segment, which they would not    *)
(* notice.  The id that cleanup reads in the segment is that of the segment  *)
(* itself, in which it then destroys the parts, and still the key's when it  *)
(* removes it: it never takes away a segment that it has not attached.       *)
OnlyOwnRemoved ==
    /\ \A p \in Commands : pc[p] # "crashed"
    /\ pc["cleanup"] \in {"destroy", "detach"} => got["cleanup"] = attached["cleanup"]
    /\ pc["cleanup"] = "remove" => got["cleanup"] = key
    /\ removed \subseteq Ids

(* However often the restaurant was opened, with or without a cleanup in     *)
(* between and whoever came late: a segment that is left after the cleanup   *)
(* is one that staff still have attached, and when the user has waited for   *)
(* the staff none is left at all.                                            *)
NothingLeft ==
    pc["cleanup"] = "done" =>
        /\ \A id \in exists : AttachedTo(id) # {} /\ AttachedTo(id) \subseteq Staff
        /\ patient => exists = {}
=============================================================================
