------------------------------- MODULE Dining -------------------------------
(***************************************************************************)
(* What the restaurant promises, seen from the tables and the till: how    *)
(* many clients are inside, in which order a visit proceeds, when a client *)
(* may be turned away, and that no meal is served before it is on the      *)
(* books.  Staff, queues, tokens and semaphores do not appear.             *)
(***************************************************************************)
EXTENDS Naturals, FiniteSets

CONSTANTS Clients, MenuItems,
          Seats,   \* clients the restaurant holds
          Places   \* clients the line holds

VARIABLES stage,   \* where each client is in its visit
          choice,  \* the menu item each client orders
          sales    \* purchases on the books, per item

vars == <<stage, choice, sales>>

At(stages) == {c \in Clients : stage[c] \in stages}

Inside == Clients \ At({"outside", "fed", "unfed"})

(* Of these clients, those that ordered item i. *)
Ordered(i, cs) == {c \in cs : choice[c] = i}

Init ==
    /\ stage = [c \in Clients |-> "outside"]
    /\ choice \in [Clients -> MenuItems]
    /\ sales = [i \in MenuItems |-> 0]

Proceed(c, from, to) ==
    /\ stage[c] = from
    /\ stage' = [stage EXCEPT ![c] = to]
    /\ UNCHANGED choice

Enter(c) ==
    /\ Cardinality(Inside) < Seats
    /\ Proceed(c, "outside", "seated")
    /\ UNCHANGED sales

LineUp(c) == Proceed(c, "seated", "inline") /\ UNCHANGED sales

(* Only a line of Places clients that still wait to be received turns a    *)
(* client away.                                                            *)
TurnAway(c) ==
    /\ Cardinality(At({"inline"})) >= Places
    /\ Proceed(c, "seated", "refused")
    /\ UNCHANGED sales

Receive(c) == Proceed(c, "inline", "received") /\ UNCHANGED sales

Process(c) == Proceed(c, "received", "processed") /\ UNCHANGED sales

(* One purchase per client that got into the line, at most. *)
Sell(i) ==
    /\ sales[i] < Cardinality(Ordered(i,
          At({"inline", "received", "processed", "served", "fed"})))
    /\ sales' = [sales EXCEPT ![i] = @ + 1]
    /\ UNCHANGED <<stage, choice>>

(* Food is served only against a recorded purchase of its own. *)
Serve(c) ==
    /\ Cardinality(Ordered(choice[c], At({"served", "fed"}))) < sales[choice[c]]
    /\ Proceed(c, "processed", "served")
    /\ UNCHANGED sales

Leave(c) ==
    /\ \/ Proceed(c, "served", "fed")
       \/ Proceed(c, "refused", "unfed")
    /\ UNCHANGED sales

Next ==
    \/ \E c \in Clients :
          Enter(c) \/ LineUp(c) \/ TurnAway(c) \/ Receive(c) \/ Process(c)
            \/ Serve(c) \/ Leave(c)
    \/ \E i \in MenuItems : Sell(i)

Spec == Init /\ [][Next]_vars
=============================================================================
