-------------------------- MODULE FirstTokenSystem --------------------------
(***************************************************************************)
(* token.c, the program the restaurant's token system grew from.  Client   *)
(* threads take a token from a two-lock queue, wait for its semaphore,     *)
(* leave and give the token back; main joins them and cleans up.           *)
(*                                                                         *)
(* What main_token_system.h left to its bounded queue is a counting        *)
(* semaphore here, tokens_available, and the token is pushed back and      *)
(* announced before its semaphore is restored.                             *)
(***************************************************************************)
EXTENDS TwoLockQueue

CONSTANTS NO_OF_TOKENS, Nobody

Clients == Threads
Tokens  == 0 .. NO_OF_TOKENS - 1

(* The queue's threads are the clients, its values the tokens; -1 is what  *)
(* pop returns for an empty queue, which this program's pop also frees.    *)
TokenAssumption ==
    /\ NO_OF_TOKENS \in Nat \ {0}
    /\ Values = Tokens /\ NoValue = -1
    /\ AfterPush = "post_available" /\ AfterPop = "assign"
    /\ FREES_EMPTY
    /\ Nobody \notin Clients

VARIABLES tokens_available, sem_arr, ct_assns,  \* main_token_system_t
          token_id,                             \* each client's local
          main                                  \* where main is

systemVars == <<tokens_available, sem_arr, ct_assns>>
vars == <<twoLockVars, systemVars, token_id, main>>

(* token_queue_init allocates the dummy node; mt_token_system_init pushes   *)
(* every token once behind it, before any thread starts.                   *)
TokenQueueInit ==
    \E list \in [1 .. NO_OF_TOKENS + 1 -> Nodes] :
        /\ \A j, k \in DOMAIN list : list[j] = list[k] => j = k
        /\ QueueHolds(list, [k \in 1 .. NO_OF_TOKENS |-> k - 1])

Init ==
    /\ TokenQueueInit
    /\ item = [c \in Clients |-> NoValue]
    /\ tmp = [c \in Clients |-> Null]
    /\ tokens_available = NO_OF_TOKENS
    /\ sem_arr = [k \in Tokens |-> 1]
    /\ ct_assns = [k \in Tokens |-> Nobody]
    /\ token_id = [c \in Clients |-> NoValue]
    /\ pc = [c \in Clients |-> "get"]
    /\ main = "join"

(* Slip: mt_token_get does not wait for a token to be announced. *)
GetTokenWaitMissing(c) ==
    /\ Goto(c, "get", "pop_lock")
    /\ UNCHANGED <<heapVars, queueVars, item, tmp, systemVars, token_id, main>>

(* mt_token_get *)
GetTokenWait(c) ==
    /\ tokens_available > 0
    /\ Goto(c, "get", "pop_lock")
    /\ tokens_available' = tokens_available - 1
    /\ UNCHANGED <<heapVars, queueVars, item, tmp, sem_arr, ct_assns, token_id, main>>

AssignToken(c) ==
    /\ Goto(c, "assign", "enter")
    /\ token_id' = [token_id EXCEPT ![c] = item[c]]
    /\ ct_assns' = [k \in Tokens |-> IF k = item[c] THEN c ELSE ct_assns[k]]
    /\ SetItem(c, NoValue)
    /\ UNCHANGED <<heapVars, queueVars, tmp, tokens_available, sem_arr, main>>

(* Slip: the check of mt_token_wait_for_signal is passed, its wait left out. *)
WaitForSignalMissing(c) ==
    /\ Goto(c, "enter", "return")
    /\ UNCHANGED <<heapVars, queueVars, item, tmp, systemVars, token_id, main>>

WaitForSignal(c) ==
    LET k    == token_id[c]
        mine == ct_assns[k] = c
    IN  /\ Goto(c, "enter", "return")
        /\ mine => sem_arr[k] > 0
        /\ sem_arr' = [sem_arr EXCEPT ![k] = IF mine THEN @ - 1 ELSE @]
        /\ UNCHANGED <<heapVars, queueVars, item, tmp, tokens_available, ct_assns,
                       token_id, main>>

(* mt_token_return, up to its call of token_queue_push ... *)
ReturnToken(c) ==
    LET k    == token_id[c]
        mine == ct_assns[k] = c
    IN  /\ Goto(c, "return", IF mine THEN "push_alloc" ELSE "done")
        /\ ct_assns' = [ct_assns EXCEPT ![k] = IF mine THEN Nobody ELSE @]
        /\ SetItem(c, IF mine THEN k ELSE NoValue)
        /\ UNCHANGED <<heapVars, queueVars, tmp, tokens_available, sem_arr, token_id,
                       main>>

(* ... and after it: announce the token first, restore its semaphore last. *)
PostAvailable(c) ==
    /\ Goto(c, "post_available", "give_signal")
    /\ tokens_available' = tokens_available + 1
    /\ UNCHANGED <<heapVars, queueVars, item, tmp, sem_arr, ct_assns, token_id, main>>

(* Slip: mt_token_return leaves the semaphore as it is. *)
GiveSignalMissing(c) ==
    /\ Goto(c, "give_signal", "done")
    /\ token_id' = [token_id EXCEPT ![c] = NoValue]
    /\ UNCHANGED <<heapVars, queueVars, item, tmp, systemVars, main>>

GiveSignal(c) ==
    /\ Goto(c, "give_signal", "done")
    /\ sem_arr' = [sem_arr EXCEPT ![token_id[c]] = @ + 1]
    /\ token_id' = [token_id EXCEPT ![c] = NoValue]
    /\ UNCHANGED <<heapVars, queueVars, item, tmp, tokens_available, ct_assns, main>>

(* token_queue_push and token_queue_pop *)
TokenQueueStep(c) == QueueStep(c) /\ UNCHANGED <<systemVars, token_id, main>>

Client(c) ==
    \/ GetTokenWait(c) \/ AssignToken(c) \/ WaitForSignal(c)
    \/ ReturnToken(c) \/ PostAvailable(c) \/ GiveSignal(c)
    \/ TokenQueueStep(c)

(* mt_token_system_cleanup: the queue's last node is freed; a semaphore that *)
(* is destroyed is worth nothing.                                          *)
SystemCleanup ==
    /\ Cleanup
    /\ tokens_available' = 0
    /\ sem_arr' = [k \in Tokens |-> 0]
    /\ UNCHANGED ct_assns

(* main has joined every thread. *)
Main ==
    /\ main = "join"
    /\ \A c \in Clients : pc[c] = "done"
    /\ SystemCleanup
    /\ main' = "done"
    /\ UNCHANGED <<token_id, pc>>

Terminated == main = "done" /\ UNCHANGED vars

Next == (\E c \in Clients : Client(c)) \/ Main \/ Terminated

Fairness == (\A c \in Clients : WF_vars(Client(c))) /\ WF_vars(Main)

Spec == Init /\ [][Next]_vars /\ Fairness
-----------------------------------------------------------------------------
(* Properties *)

Between(k, places) == {c \in At(places) : token_id[c] = k}

Returning == {"push_alloc", "push_lock", "push_link", "push_tail", "push_unlock",
              "post_available", "give_signal"}

(* token.c frees tmp even when it found the queue empty, and then head      *)
(* would be a freed node.  tokens_available keeps every pop from that: it   *)
(* is never ahead of the tokens that are linked.                            *)
NeverEmptyHanded ==
    /\ At({"pop_empty"}) = {}
    /\ main = "join" => NoUseAfterFree /\ NoNodeLost

(* A token changes hands before its semaphore is restored: the next holder  *)
(* may be waiting for it while the last one is still on its way out.  The   *)
(* semaphore counts neither twice: at most one client of a token is past    *)
(* its wait and not yet through its signal.                                 *)
OneClientPerToken ==
    main = "join" => \A k \in Tokens :
        sem_arr[k] + Cardinality(Between(k, {"return"} \union Returning)) = 1

(* Every client gets a token and leaves, and main returns. *)
Left == main = "done" /\ \A c \in Clients : pc[c] = "done"
=============================================================================
