----------------------------- MODULE FifoQueue ------------------------------
(***************************************************************************)
(* What the bounded queue promises its callers: a first-in first-out       *)
(* sequence of at most Capacity orders, no order lost or duplicated, and   *)
(* exactly how far the answer of a try operation can be trusted.           *)
(*                                                                         *)
(* A blocking call that has been accepted is never turned back.  A try     *)
(* call may be refused although there is room (or something to take), but  *)
(* only as far as other operations are still on their way in or out.       *)
(***************************************************************************)
EXTENDS Naturals, Sequences, FiniteSets

CONSTANTS Pushers, Poppers,  \* the processes that push, and those that pop
          Orders,            \* what is queued
          NoOrder,
          Capacity

VARIABLES contents,  \* the sequence of queued orders
          phase,     \* how far each process is in its operation
          held       \* the order a process is pushing, or has taken out

vars == <<contents, phase, held>>

Procs == Pushers \union Poppers

At(ph) == {p \in Procs : phase[p] = ph}

Init ==
    /\ contents = <<>>
    /\ phase = [p \in Procs |-> "idle"]
    /\ held = [p \in Procs |-> NoOrder]

Move(p, ph) == phase' = [phase EXCEPT ![p] = ph]
Hold(p, o)  == held' = [held EXCEPT ![p] = o]

-----------------------------------------------------------------------------
BeginPush(p, o) ==
    /\ phase[p] = "idle"
    /\ \E ph \in {"push", "trypush"} : Move(p, ph)
    /\ Hold(p, o)
    /\ UNCHANGED contents

(* Accepted: a slot is kept for this process whatever the others do. *)
AcceptPush(p) ==
    /\ phase[p] \in {"push", "trypush"}
    /\ Len(contents) + Cardinality(At("inserting")) < Capacity
    /\ Move(p, "inserting")
    /\ UNCHANGED <<contents, held>>

(* Only a trypush is refused, and only when queued orders, accepted       *)
(* pushes and pops that have not yet given their slot back fill the queue. *)
RefusePush(p) ==
    /\ phase[p] = "trypush"
    /\ Len(contents) + Cardinality(At("inserting")) + Cardinality(At("removed"))
         >= Capacity
    /\ Move(p, "idle")
    /\ Hold(p, NoOrder)
    /\ UNCHANGED contents

Insert(p) ==
    /\ phase[p] = "inserting"
    /\ contents' = Append(contents, held[p])
    /\ Move(p, "inserted")
    /\ UNCHANGED held

EndPush(p) ==
    /\ phase[p] = "inserted"
    /\ Move(p, "idle")
    /\ Hold(p, NoOrder)
    /\ UNCHANGED contents

-----------------------------------------------------------------------------
BeginPop(p) ==
    /\ phase[p] = "idle"
    /\ \E ph \in {"pop", "trypop"} : Move(p, ph)
    /\ UNCHANGED <<contents, held>>

(* Accepted: an order is kept for this process whatever the others do. *)
AcceptPop(p) ==
    /\ phase[p] \in {"pop", "trypop"}
    /\ Cardinality(At("removing")) < Len(contents)
    /\ Move(p, "removing")
    /\ UNCHANGED <<contents, held>>

(* Only a trypop is refused, and only when every queued order is matched   *)
(* by an accepted pop or by a push that has not returned.                  *)
RefusePop(p) ==
    /\ phase[p] = "trypop"
    /\ Len(contents) <= Cardinality(At("removing")) + Cardinality(At("inserted"))
    /\ Move(p, "idle")
    /\ UNCHANGED <<contents, held>>

Remove(p) ==
    /\ phase[p] = "removing"
    /\ contents # <<>>
    /\ contents' = Tail(contents)
    /\ Hold(p, Head(contents))
    /\ Move(p, "removed")

EndPop(p) ==
    /\ phase[p] = "removed"
    /\ Move(p, "idle")
    /\ Hold(p, NoOrder)
    /\ UNCHANGED contents

-----------------------------------------------------------------------------
Next ==
    \/ \E p \in Pushers :
          \/ \E o \in Orders : BeginPush(p, o)
          \/ AcceptPush(p) \/ RefusePush(p) \/ Insert(p) \/ EndPush(p)
    \/ \E p \in Poppers :
          BeginPop(p) \/ AcceptPop(p) \/ RefusePop(p) \/ Remove(p) \/ EndPop(p)

Spec == Init /\ [][Next]_vars
=============================================================================
