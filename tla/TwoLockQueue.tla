---------------------------- MODULE TwoLockQueue ----------------------------
(***************************************************************************)
(* The linked queue of fifo.c and fifo.h (the same code twice), which      *)
(* token.c carries as its token queue: a list of heap nodes that begins    *)
(* with a dummy, a lock for the head and another for the tail, so that a   *)
(* push and a pop run side by side.  One action per statement that another *)
(* thread can see.                                                         *)
(*                                                                         *)
(* A program that uses the queue says where its threads go on after a call *)
(* returns.  The three copies of pop differ in one point: token.c frees    *)
(* tmp also when it found the queue empty.                                 *)
(***************************************************************************)
EXTENDS Integers, Sequences, FiniteSets

CONSTANTS Threads,
          Nodes,        \* what malloc can return
          Null,
          Values, NoValue,
          AfterPush, AfterPop,  \* places of the calling program
          FREES_EMPTY   \* does pop free tmp when the queue is empty?

TwoLockAssumption ==
    /\ IsFiniteSet(Threads) /\ IsFiniteSet(Nodes)
    /\ Null \notin Nodes /\ NoValue \notin Values
    /\ FREES_EMPTY \in BOOLEAN

VARIABLES node,       \* the heap: value and next of each node
          allocated,  \* the nodes malloc has returned and free not got back
          head, tail, head_lock, tail_lock,  \* queue_t
          pc,         \* where each thread is
          item,       \* v of a push, *v_p of a pop
          tmp         \* the local pointer of push and pop

heapVars  == <<node, allocated>>
queueVars == <<head, tail, head_lock, tail_lock>>
twoLockVars == <<heapVars, queueVars, pc, item, tmp>>

Fields(v) == [value |-> v, next |-> Null]

(* The list made of the nodes in "list", the first of them the dummy, that *)
(* holds the values "vals".                                                *)
QueueHolds(list, vals) ==
    /\ allocated = {list[k] : k \in DOMAIN list}
    /\ node = [n \in Nodes |->
          IF \E k \in DOMAIN list : list[k] = n
          THEN LET k == CHOOSE k \in DOMAIN list : list[k] = n
               IN  [value |-> IF k = 1 THEN NoValue ELSE vals[k - 1],
                    next  |-> IF k = Len(list) THEN Null ELSE list[k + 1]]
          ELSE Fields(NoValue)]
    /\ head = list[1] /\ tail = list[Len(list)]
    /\ head_lock = 1 /\ tail_lock = 1

Goto(t, here, there) ==
    /\ pc[t] = here
    /\ pc' = [pc EXCEPT ![t] = there]

SetItem(t, v) == item' = [item EXCEPT ![t] = v]
SetTmp(t, n)  == tmp' = [tmp EXCEPT ![t] = n]

-----------------------------------------------------------------------------
(* queue_push *)

(* malloc does not fail: the code asserts that.  It returns any free node. *)
PushAlloc(t) ==
    /\ Goto(t, "push_alloc", "push_lock")
    /\ \E n \in Nodes \ allocated :
          /\ allocated' = allocated \union {n}
          /\ node' = [node EXCEPT ![n] = Fields(item[t])]
          /\ SetTmp(t, n)
    /\ UNCHANGED <<queueVars, item>>

PushLock(t) ==
    /\ tail_lock > 0
    /\ Goto(t, "push_lock", "push_link")
    /\ tail_lock' = tail_lock - 1
    /\ UNCHANGED <<heapVars, head, tail, head_lock, item, tmp>>

(* From here on a pop sees the value, although tail still lags behind. *)
PushLink(t) ==
    /\ Goto(t, "push_link", "push_tail")
    /\ node' = [node EXCEPT ![tail].next = tmp[t]]
    /\ UNCHANGED <<allocated, queueVars, item, tmp>>

PushTail(t) ==
    /\ Goto(t, "push_tail", "push_unlock")
    /\ tail' = tmp[t]
    /\ UNCHANGED <<heapVars, head, head_lock, tail_lock, item, tmp>>

PushUnlock(t) ==
    /\ Goto(t, "push_unlock", AfterPush)
    /\ tail_lock' = tail_lock + 1
    /\ SetItem(t, NoValue)
    /\ SetTmp(t, Null)
    /\ UNCHANGED <<heapVars, head, tail, head_lock>>

-----------------------------------------------------------------------------
(* queue_pop *)

(* Slip: no sem_wait on the head lock. *)
PopLockMissing(t) ==
    /\ Goto(t, "pop_lock", "pop_read")
    /\ UNCHANGED <<heapVars, queueVars, item, tmp>>

PopLock(t) ==
    /\ head_lock > 0
    /\ Goto(t, "pop_lock", "pop_read")
    /\ head_lock' = head_lock - 1
    /\ UNCHANGED <<heapVars, head, tail, tail_lock, item, tmp>>

(* tmp->next is read without the tail lock, beside a push that writes it. *)
PopRead(t) ==
    /\ Goto(t, "pop_read", IF node[head].next = Null THEN "pop_empty" ELSE "pop_take")
    /\ SetTmp(t, head)
    /\ UNCHANGED <<heapVars, queueVars, item>>

(* The queue was empty: -1. *)
PopEmpty(t) ==
    /\ Goto(t, "pop_empty", IF FREES_EMPTY THEN "pop_free" ELSE AfterPop)
    /\ head_lock' = head_lock + 1
    /\ SetTmp(t, IF FREES_EMPTY THEN tmp[t] ELSE Null)
    /\ UNCHANGED <<heapVars, head, tail, tail_lock, item>>

(* newHead becomes the dummy. *)
PopTake(t) ==
    LET newHead == node[tmp[t]].next
    IN  /\ Goto(t, "pop_take", "pop_unlock")
        /\ SetItem(t, node[newHead].value)
        /\ head' = newHead
        /\ UNCHANGED <<heapVars, tail, head_lock, tail_lock, tmp>>

PopUnlock(t) ==
    /\ Goto(t, "pop_unlock", "pop_free")
    /\ head_lock' = head_lock + 1
    /\ UNCHANGED <<heapVars, head, tail, tail_lock, item, tmp>>

(* Slip: free(q->head), which is no longer the node that was taken off. *)
PopFreeHead(t) ==
    /\ Goto(t, "pop_free", AfterPop)
    /\ allocated' = allocated \ {head}
    /\ SetTmp(t, Null)
    /\ UNCHANGED <<node, queueVars, item>>

(* What a freed node holds is of no use to anybody: it is blanked. *)
PopFree(t) ==
    /\ Goto(t, "pop_free", AfterPop)
    /\ allocated' = allocated \ {tmp[t]}
    /\ node' = [node EXCEPT ![tmp[t]] = Fields(NoValue)]
    /\ SetTmp(t, Null)
    /\ UNCHANGED <<queueVars, item>>

QueueStep(t) ==
    \/ PushAlloc(t) \/ PushLock(t) \/ PushLink(t) \/ PushTail(t) \/ PushUnlock(t)
    \/ PopLock(t) \/ PopRead(t) \/ PopEmpty(t) \/ PopTake(t) \/ PopUnlock(t)
    \/ PopFree(t)

(* queue_cleanup: the one node it frees is the dummy. *)
Cleanup ==
    /\ allocated' = allocated \ {head}
    /\ node' = [node EXCEPT ![head] = Fields(NoValue)]
    /\ head_lock' = 0 /\ tail_lock' = 0
    /\ UNCHANGED <<head, tail, item, tmp>>

-----------------------------------------------------------------------------
(* The list as it can be walked from head on, dummy first. *)

At(places) == {t \in Threads : pc[t] \in places}

Walk ==
    LET nth[k \in 0 .. Cardinality(Nodes)] ==
          IF k = 0 THEN head
          ELSE IF nth[k - 1] = Null THEN Null ELSE node[nth[k - 1]].next
        last == CHOOSE k \in 0 .. Cardinality(Nodes) :
                  /\ nth[k] # Null
                  /\ k < Cardinality(Nodes) => nth[k + 1] = Null
    IN  [k \in 1 .. last + 1 |-> nth[k - 1]]

Linked   == {Walk[k] : k \in DOMAIN Walk}
Contents == [k \in 1 .. Len(Walk) - 1 |-> node[Walk[k + 1]].value]

(* No thread is about to read, write or free a node that malloc could hand *)
(* out again, although a pop frees the old dummy while a push may still    *)
(* hold it as the tail, and no node is freed twice.                        *)
NoUseAfterFree ==
    /\ \A t \in At({"push_link"}) : tail \in allocated
    /\ \A t \in At({"pop_read"}) : head \in allocated
    /\ \A t \in At({"pop_take"}) : {tmp[t], node[tmp[t]].next} \subseteq allocated
    /\ \A t \in At({"pop_free"}) :
          /\ tmp[t] \in allocated \ Linked
          /\ \A u \in At({"pop_free"}) : tmp[t] = tmp[u] => t = u

(* Every node that malloc returned is in the list or in the hands of one   *)
(* thread: none is lost, so a queue used forever needs only as many nodes  *)
(* as it has held values at a time.                                        *)
NoNodeLost ==
    allocated = Linked \union
        {tmp[t] : t \in At({"push_lock", "push_link", "pop_unlock", "pop_free"})}
=============================================================================
