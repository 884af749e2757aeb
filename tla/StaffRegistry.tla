--------------------------- MODULE StaffRegistry ----------------------------
(***************************************************************************)
(* The staff_id array: how cashiers and servers register in it, how the    *)
(* test driver finds them there to send SIGUSR1 at closing time, and how   *)
(* they take themselves out.  No lock guards the array; each read and each *)
(* write of a slot is a step of its own.                                   *)
(***************************************************************************)
EXTENDS Integers, FiniteSets

CONSTANTS Cashiers, Servers,  \* staff processes
          NoPid,              \* 0: a free slot; kill(0) is the whole group
          TOTAL_STAFF_SIZE,
          Starts              \* how staff may be started, see Launch

Staff == Cashiers \union Servers
Slots == 0 .. TOTAL_STAFF_SIZE - 1

ASSUME RegistryAssumption ==
    /\ IsFiniteSet(Staff) /\ Cashiers # {} /\ Servers # {}
    /\ Cashiers \intersect Servers = {}
    /\ NoPid \notin Staff
    /\ TOTAL_STAFF_SIZE \in Nat \ {0}
    /\ Starts \subseteq {"at_once", "in_turn"} /\ Starts # {}

VARIABLES hired,        \* the staff of this opening
          start,        \* how they are started
          staff_id,     \* the shared array
          staff_index,  \* each process's global, 0 when it starts
          i,            \* each process's loop index in register_r
          pc,           \* where each process is
          signalled,    \* processes with a SIGUSR1 to handle
          tester,       \* where the test driver is
          j,            \* its loop index
          groupKilled   \* it called kill with pid 0

opening   == <<hired, start>>
staffVars == <<staff_index, i, pc>>
testVars  == <<tester, j, groupKilled>>
vars == <<opening, staff_id, staffVars, signalled, testVars>>

Init ==
    /\ hired \in {h \in SUBSET Staff : h \intersect Cashiers # {} /\ h \intersect Servers # {}}
    /\ start \in Starts
    /\ staff_id = [n \in Slots |-> NoPid]
    /\ staff_index = [s \in Staff |-> 0]
    /\ i = [s \in Staff |-> 0]
    /\ pc = [s \in Staff |-> "unborn"]
    /\ signalled = {}
    /\ tester = "open"
    /\ j = 0
    /\ groupKilled = FALSE

Goto(s, here, there) ==
    /\ pc[s] = here
    /\ pc' = [pc EXCEPT ![s] = there]

AllIn(ss, places) == \A s \in ss : pc[s] \in places

Settled == {"ready", "exited"}

Serving(kind) == \E s \in kind : pc[s] = "ready"

-----------------------------------------------------------------------------
(* The test driver forks all staff in one go.  Staff started by hand, each *)
(* when the one before has reported "ready to receive order" or given up,  *)
(* start "in_turn".                                                        *)
Launch(s) ==
    /\ tester = "open" /\ s \in hired
    /\ start = "in_turn" => AllIn(hired, {"unborn"} \union Settled)
    /\ Goto(s, "unborn", "scan")
    /\ UNCHANGED <<opening, staff_id, staff_index, i, signalled, testVars>>

(* register_r: look at a slot ... *)
Scan(s) ==
    /\ i[s] \in Slots
    /\ \/ /\ staff_id[i[s]] = NoPid
          /\ Goto(s, "scan", "claim")
          /\ UNCHANGED i
       \/ /\ staff_id[i[s]] # NoPid
          /\ pc[s] = "scan"
          /\ i' = [i EXCEPT ![s] = @ + 1]
          /\ UNCHANGED pc
    /\ UNCHANGED <<opening, staff_id, staff_index, signalled, testVars>>

(* Slip: the loop goes on after a slot was taken. *)
ClaimAndGoOn(s) ==
    /\ Goto(s, "claim", "scan")
    /\ staff_id' = [staff_id EXCEPT ![i[s]] = s]
    /\ i' = [i EXCEPT ![s] = @ + 1]
    /\ UNCHANGED <<opening, staff_index, signalled, testVars>>

(* ... take it if it was free when looked at ... *)
Claim(s) ==
    /\ Goto(s, "claim", "index")
    /\ staff_id' = [staff_id EXCEPT ![i[s]] = s]
    /\ UNCHANGED <<opening, staff_index, i, signalled, testVars>>

(* Slips: the index is not remembered; the next one is. *)
SetIndexMissing(s) ==
    /\ Goto(s, "index", "ready")
    /\ UNCHANGED <<opening, staff_id, staff_index, i, signalled, testVars>>

SetIndexNext(s) ==
    /\ Goto(s, "index", "ready")
    /\ staff_index' = [staff_index EXCEPT ![s] = i[s] + 1]
    /\ UNCHANGED <<opening, staff_id, i, signalled, testVars>>

SetIndex(s) ==
    /\ Goto(s, "index", "ready")
    /\ staff_index' = [staff_index EXCEPT ![s] = i[s]]
    /\ UNCHANGED <<opening, staff_id, i, signalled, testVars>>

(* Slip: the last slot is never looked at. *)
RegisterFailsEarly(s) ==
    /\ i[s] >= TOTAL_STAFF_SIZE - 1
    /\ Goto(s, "scan", "refused")
    /\ UNCHANGED <<opening, staff_id, staff_index, i, signalled, testVars>>

(* ... or find none: FAILED, and the process cleans up and exits. *)
RegisterFails(s) ==
    /\ i[s] = TOTAL_STAFF_SIZE
    /\ Goto(s, "scan", "refused")
    /\ UNCHANGED <<opening, staff_id, staff_index, i, signalled, testVars>>

(* handle_sig_USR1 interrupts the process wherever it is. *)
HandleUSR1(s) ==
    /\ s \in signalled
    /\ \E here \in {"scan", "claim", "index", "ready"} : Goto(s, here, "cleanup")
    /\ signalled' = signalled \ {s}
    /\ UNCHANGED <<opening, staff_id, staff_index, i, testVars>>

(* Slip: the slot is not freed. *)
CleanupExitKeepsSlot(s) ==
    /\ \E here \in {"cleanup", "refused"} : Goto(s, here, "exited")
    /\ UNCHANGED <<opening, staff_id, staff_index, i, signalled, testVars>>

(* cleanup_exit, from the handler and from a failed registration alike. *)
CleanupExit(s) ==
    /\ \E here \in {"cleanup", "refused"} : Goto(s, here, "exited")
    /\ staff_id' = [staff_id EXCEPT ![staff_index[s]] = NoPid]
    /\ UNCHANGED <<opening, staff_index, i, signalled, testVars>>

Run(s) ==
    \/ Scan(s) \/ Claim(s) \/ SetIndex(s) \/ RegisterFails(s)
    \/ HandleUSR1(s) \/ CleanupExit(s)

-----------------------------------------------------------------------------
(* The test driver closes when every client has exited.  That took at      *)
(* least one cashier and one server; it checks nothing else.               *)
Close ==
    /\ tester = "open"
    /\ AllIn(hired, {"scan", "claim", "index", "refused"} \union Settled)
    /\ start = "in_turn" => AllIn(hired, Settled)
    /\ Serving(Cashiers) /\ Serving(Servers)
    /\ tester' = "look"
    /\ UNCHANGED <<opening, staff_id, staffVars, signalled, j, groupKilled>>

(* Slip: free slots are not skipped. *)
LookUnchecked ==
    /\ tester = "look" /\ j \in Slots
    /\ tester' = "kill"
    /\ UNCHANGED <<opening, staff_id, staffVars, signalled, j, groupKilled>>

(* if (staff_id_arr[i] != 0) ... *)
Look ==
    /\ tester = "look" /\ j \in Slots
    /\ \/ /\ staff_id[j] # NoPid
          /\ tester' = "kill"
          /\ UNCHANGED j
       \/ /\ staff_id[j] = NoPid
          /\ j' = j + 1
          /\ UNCHANGED tester
    /\ UNCHANGED <<opening, staff_id, staffVars, signalled, groupKilled>>

(* ... kill(staff_id_arr[i], SIGUSR1), which reads the slot again.  Pid 0   *)
(* is everybody the driver has started and the driver itself, which has no *)
(* handler and ends.                                                       *)
Kill ==
    /\ tester = "kill"
    /\ \/ /\ staff_id[j] # NoPid
          /\ signalled' = signalled \union {staff_id[j]}
          /\ tester' = "look"
          /\ j' = j + 1
          /\ UNCHANGED groupKilled
       \/ /\ staff_id[j] = NoPid
          /\ signalled' = hired
          /\ tester' = "closed"
          /\ groupKilled' = TRUE
          /\ UNCHANGED j
    /\ UNCHANGED <<opening, staff_id, staffVars>>

(* Slip: the loop may end before the last slot. *)
LoopDoneEarly ==
    /\ tester = "look" /\ j >= TOTAL_STAFF_SIZE - 1
    /\ tester' = "closed"
    /\ UNCHANGED <<opening, staff_id, staffVars, signalled, j, groupKilled>>

LoopDone ==
    /\ tester = "look" /\ j = TOTAL_STAFF_SIZE
    /\ tester' = "closed"
    /\ UNCHANGED <<opening, staff_id, staffVars, signalled, j, groupKilled>>

Driver == Close \/ Look \/ Kill \/ LoopDone

(* Nobody has anything left to do here: a staff process that is "ready"    *)
(* runs its service loop from here on, and the driver has finished, or     *)
(* waits for clients whom no cashier or no server found a slot to serve.   *)
AtRest ==
    /\ \/ tester = "closed"
       \/ tester = "open" /\ ~ (Serving(Cashiers) /\ Serving(Servers))
    /\ AllIn(hired, Settled)
    /\ \A s \in signalled : pc[s] = "exited"
    /\ UNCHANGED vars

Next ==
    \/ \E s \in Staff : Launch(s) \/ Run(s)
    \/ Driver
    \/ AtRest

Spec == Init /\ [][Next]_vars

FairSpec ==
    /\ Spec
    /\ \A s \in Staff : WF_vars(Launch(s)) /\ WF_vars(Run(s))
    /\ WF_vars(Driver)

-----------------------------------------------------------------------------
(* Properties *)

TypeOK ==
    /\ hired \subseteq Staff
    /\ start \in Starts
    /\ staff_id \in [Slots -> hired \union {NoPid}]
    /\ staff_index \in [Staff -> Slots]
    /\ i \in [Staff -> 0 .. TOTAL_STAFF_SIZE]
    /\ pc \in [Staff -> {"unborn", "scan", "claim", "index", "ready", "refused",
                         "cleanup", "exited"}]
    /\ signalled \subseteq hired
    /\ tester \in {"open", "look", "kill", "closed"}
    /\ j \in 0 .. TOTAL_STAFF_SIZE
    /\ groupKilled \in BOOLEAN

InArray(s) == \E n \in Slots : staff_id[n] = s

EnoughSlots == Cardinality(hired) <= TOTAL_STAFF_SIZE
Orderly     == EnoughSlots /\ start = "in_turn"

(* shared_mem.h: staff_id holds "the process ids of all the staff members". *)
(* A process that has registered and serves is in the slot it remembers.    *)
AllStaffRegistered ==
    \A s \in Staff : pc[s] = "ready" => staff_id[staff_index[s]] = s

(* Processes whose refused registration is over. *)
TurnedDown == {s \in Staff : pc[s] = "exited" /\ i[s] = TOTAL_STAFF_SIZE}

(* That is so when staff start in turn, also while closing takes them out   *)
(* of the array, and however many there are: a process that was refused     *)
(* frees a slot on its way out, but never another than slot 0.              *)
OrderlyStaffRegistered ==
    start = "in_turn" =>
        \A s \in Staff : pc[s] = "ready" =>
            \/ staff_id[staff_index[s]] = s
            \/ staff_index[s] = 0 /\ TurnedDown # {}

(* While there are no more staff than slots, nobody is refused, however     *)
(* the unlocked scans of starting and closing processes interleave.         *)
NobodyRefused == EnoughSlots => \A s \in Staff : pc[s] # "refused"

(* The slot the driver found taken is still taken when it reads it again to *)
(* send the signal: it never sends one to its own process group.            *)
NoGroupSignal == EnoughSlots => ~ groupKilled

(* Started in turn, a process is refused only when as many others serve as  *)
(* there are slots.                                                         *)
RefusedOnlyWhenFull ==
    start = "in_turn" =>
        \A s \in Staff : pc[s] = "refused" =>
            Cardinality({r \in Staff : pc[r] = "ready"}) >= TOTAL_STAFF_SIZE

(* When everybody has left, a pid is still in the array only if staff were  *)
(* started at once and SIGUSR1 came between its process's two statements,   *)
(* staff_id[i] = getpid() and staff_index = i.  After a start in turn the   *)
(* next opening finds every slot free.                                      *)
RegistryCleared ==
    AllIn(hired, {"exited"}) =>
        \A n \in Slots : staff_id[n] # NoPid =>
            start = "at_once" /\ staff_index[staff_id[n]] # n

(* cashier.c: "we need a mechanism to inform the cashier that it's time to  *)
(* close shop, this is done by sending the USR1 signal".  With a slot for   *)
(* everybody and staff started in turn, every one of them is told and       *)
(* exits.  However they start, one that the driver's loop would find exits  *)
(* unless another takes or frees its slot.                                  *)
OrderlyStaffClose ==
    /\ Orderly => <>AllIn(hired, {"exited"})
    /\ \A s \in Staff :
          tester = "look" /\ j = 0 /\ InArray(s) ~> pc[s] = "exited" \/ ~ InArray(s)
=============================================================================
