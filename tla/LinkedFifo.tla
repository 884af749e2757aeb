----------------------------- MODULE LinkedFifo -----------------------------
(***************************************************************************)
(* fifo.c: the two-lock queue with callers of its own.  Its main makes one *)
(* call after the other; here any threads make any calls at the same time, *)
(* which is what the header calls a "concurrent queue", and the queue is   *)
(* cleaned up when no call is under way and nothing is left in it.         *)
(***************************************************************************)
EXTENDS TwoLockQueue

VARIABLE destroyed   \* queue_cleanup has run

vars == <<twoLockVars, destroyed>>

(* queue_init *)
Init ==
    /\ \E dummy \in Nodes : QueueHolds(<<dummy>>, <<>>)
    /\ pc = [t \in Threads |-> "idle"]
    /\ item = [t \in Threads |-> NoValue]
    /\ tmp = [t \in Threads |-> Null]
    /\ destroyed = FALSE

(* A value is somewhere on its way at most once. *)
Fresh(v) ==
    /\ \A t \in Threads : item[t] # v
    /\ \A k \in DOMAIN Contents : Contents[k] # v

CallPush(t, v) ==
    /\ ~ destroyed /\ Fresh(v)
    /\ Goto(t, "idle", "push_alloc")
    /\ SetItem(t, v)
    /\ UNCHANGED <<heapVars, queueVars, tmp, destroyed>>

CallPop(t) ==
    /\ ~ destroyed
    /\ Goto(t, "idle", "pop_lock")
    /\ UNCHANGED <<heapVars, queueVars, item, tmp, destroyed>>

(* The caller has printed what pop gave it. *)
PrintValue(t) ==
    /\ Goto(t, "print", "idle")
    /\ SetItem(t, NoValue)
    /\ UNCHANGED <<heapVars, queueVars, tmp, destroyed>>

CleanUp ==
    /\ ~ destroyed
    /\ \A t \in Threads : pc[t] = "idle"
    /\ Contents = <<>>
    /\ Cleanup
    /\ destroyed' = TRUE
    /\ UNCHANGED pc

(* A step of queue_push or queue_pop. *)
Work(t) == QueueStep(t) /\ UNCHANGED destroyed

Terminated == destroyed /\ UNCHANGED vars

Next ==
    \/ \E t \in Threads :
          \/ \E v \in Values : CallPush(t, v)
          \/ CallPop(t) \/ PrintValue(t)
          \/ Work(t)
    \/ CleanUp \/ Terminated

Spec == Init /\ [][Next]_vars
-----------------------------------------------------------------------------
(* Properties *)

(* As long as the queue lives its nodes are handled safely; once it is      *)
(* cleaned up, every node is back with malloc.                              *)
HeapSafe ==
    IF destroyed THEN allocated = {} ELSE NoUseAfterFree /\ NoNodeLost

(* A value enters the sequence when the last node is linked to its node,    *)
(* before tail moves, and leaves it when its node becomes the dummy.        *)
AbstractPhase(t) ==
    CASE pc[t] = "push_alloc"                    -> "push"
      [] pc[t] \in {"push_lock", "push_link"}    -> "inserting"
      [] pc[t] \in {"push_tail", "push_unlock"}  -> "inserted"
      [] pc[t] \in {"pop_lock", "pop_read"}      -> "trypop"
      [] pc[t] = "pop_take"                      -> "removing"
      [] pc[t] \in {"pop_unlock", "pop_free"}    -> "removed"
      [] OTHER                                   -> "idle"

AbstractContents == IF destroyed THEN <<>> ELSE Contents

AbstractHeld(t) == IF pc[t] = "print" THEN NoValue ELSE item[t]
=============================================================================
