-------------------------- MODULE StatisticsProofs --------------------------
(***************************************************************************)
(* Proofs about Statistics, for any number of clients, cashiers and menu   *)
(* items, any clock and any length of a minute.                            *)
(*                                                                         *)
(* The properties are sums over processes, so the invariant has one: each  *)
(* counter is the sum of what has been stored in it.  It is inductive only *)
(* with mutual exclusion and with what was read under the lock.            *)
(***************************************************************************)
EXTENDS Statistics, Sums, SequenceTheorems

-----------------------------------------------------------------------------
(* What a sequence of counter calls adds to the counter x. *)

Calls == [counter : Counters, op : {"add", "get"}, n : Int]

Share(x, call)   == IF call.counter = x THEN call.n ELSE 0
Shares(x, given) == [k \in DOMAIN given |-> Share(x, given[k])]

LEMMA SharesType ==
    ASSUME NEW x, NEW given \in Seq(Calls)
    PROVE  /\ DOMAIN given = 1 .. Len(given) /\ Len(given) \in Nat
           /\ IsFiniteSet(DOMAIN given)
           /\ Shares(x, given) \in [DOMAIN given -> Int]
<1>1. DOMAIN given = 1 .. Len(given) /\ Len(given) \in Nat
    OBVIOUS
<1>2. IsFiniteSet(1 .. Len(given))
    BY <1>1, FS_Interval
<1>3. \A k \in DOMAIN given : Share(x, given[k]) \in Int
  <2> TAKE k \in DOMAIN given
  <2>1. given[k] \in Calls
      OBVIOUS
  <2>2. QED
      BY <2>1 DEF Share, Calls
<1>4. QED
    BY <1>1, <1>2, <1>3 DEF Shares

LEMMA FoldSeqIsTotal ==
    ASSUME NEW x, NEW given \in Seq(Calls)
    PROVE  FoldSeq(LAMBDA call, sum : sum + (IF call.counter = x THEN call.n ELSE 0),
                   0, given) = Total(Shares(x, given))
<1> DEFINE D == DOMAIN given
           f == Shares(x, given)
           Along(g, s) == IF s = {} THEN 0
                          ELSE g[Rest(s)] + Share(x, given[First(s)])
           h == CHOOSE g : g = [s \in SUBSET D |-> Along(g, s)]
<1>1. FoldSeq(LAMBDA call, sum : sum + (IF call.counter = x THEN call.n ELSE 0),
              0, given) = h[D]
    BY DEF FoldSeq, FoldFunction, FoldFunctionOnSet, MapThenFoldSet, First, Rest, Share
<1>2. /\ IsFiniteSet(D) /\ f \in [D -> Int]
      /\ Table(f) \in [SUBSET D -> Int]
      /\ \A s \in SUBSET D : Table(f)[s] = Folded(f, Table(f), s)
    BY SharesType, TableIs
<1>3. \A k \in D : f[k] = Share(x, given[k])
    BY DEF Shares
<1> HIDE DEF f, D
<1>4. ASSUME NEW s \in SUBSET D
      PROVE  Table(f)[s] = Along(Table(f), s)
  <2>1. CASE s = {}
      BY <1>2, <2>1 DEF Folded
  <2>2. CASE s # {}
    <3>1. First(s) \in D /\ Rest(s) \in SUBSET D
        BY <1>2, <2>2, RestIsSmaller
    <3>2. f[First(s)] \in Int /\ Table(f)[Rest(s)] \in Int
        BY <1>2, <3>1
    <3>3. QED
        BY <1>2, <1>3, <2>2, <3>1, <3>2 DEF Folded
  <2>3. QED
      BY <2>1, <2>2
<1>5. h = [s \in SUBSET D |-> Along(h, s)]
  <2>1. Table(f) = [s \in SUBSET D |-> Along(Table(f), s)]
      BY <1>2, <1>4
  <2>2. \E g : g = [s \in SUBSET D |-> Along(g, s)]
      BY <2>1
  <2>3. QED
      BY <2>2
<1> HIDE DEF h
<1> DEFINE P == {s \in SUBSET D : h[s] = Table(f)[s]}
<1>6. {} \in P
  <2>1. h[{}] = 0 /\ Table(f)[{}] = 0
      BY <1>2, <1>5 DEF Folded
  <2>2. QED
      BY <2>1
<1>7. ASSUME NEW s \in SUBSET D, s # {}, Rest(s) \in P
      PROVE  s \in P
    BY <1>4, <1>5, <1>7
<1>8. D \in P
  <2> HIDE DEF P
  <2> QED
      BY <1>2, <1>6, <1>7, SubsetInduction
<1>9. h[D] = Table(f)[D] /\ DOMAIN f = D
    BY <1>2, <1>8
<1>10. QED
    BY <1>1, <1>9 DEF Total, f

(* One more call adds its share. *)
LEMMA OneMoreCall ==
    ASSUME NEW x, NEW given \in Seq(Calls), NEW call \in Calls
    PROVE  Total(Shares(x, Append(given, call))) = Total(Shares(x, given)) + Share(x, call)
<1> DEFINE n == Len(given)
           E == 1 .. n + 1
           D == 1 .. n
           f == Shares(x, given)
           w == [k \in E |-> IF k \in D THEN f[k] ELSE 0]
           u == Shares(x, Append(given, call))
<1>1. /\ n \in Nat /\ DOMAIN given = D /\ f \in [D -> Int]
    BY SharesType
<1>e. IsFiniteSet(E)
    BY <1>1, FS_Interval
<1>d. /\ D \in SUBSET E /\ n + 1 \in E /\ n + 1 \notin D
      /\ \A k \in E \ {n + 1} : k \in D
    BY <1>1
<1>2. Share(x, call) \in Int
    BY DEF Share, Calls
<1>3. w \in [E -> Int] /\ \A k \in E : w[k] = IF k \in D THEN f[k] ELSE 0
    BY <1>1, <1>d
<1>4. \A k \in D : f[k] = Share(x, given[k])
    BY <1>1 DEF Shares
<1>5. u \in [E -> Int] /\ \A k \in E : u[k] = IF k \in D THEN f[k] ELSE Share(x, call)
  <2>1. DOMAIN Append(given, call) = E
      OBVIOUS
  <2>2. \A k \in D : Append(given, call)[k] = given[k]
      OBVIOUS
  <2>3. Append(given, call)[n + 1] = call
      OBVIOUS
  <2>4. u = [k \in E |-> Share(x, Append(given, call)[k])]
      BY <2>1 DEF Shares
  <2> HIDE DEF u, D, E, f, n
  <2>5. \A k \in E : u[k] = IF k \in D THEN f[k] ELSE Share(x, call)
    <3> TAKE k \in E
    <3>1. u[k] = Share(x, Append(given, call)[k])
        BY <2>4
    <3>2. CASE k \in D
        BY <1>4, <2>2, <3>1, <3>2
    <3>3. CASE k = n + 1
        BY <1>d, <2>3, <3>1, <3>3
    <3>4. QED
        BY <1>d, <3>2, <3>3
  <2>6. \A k \in E : u[k] \in Int
      BY <1>1, <1>2, <2>5
  <2>7. QED
      BY <2>4, <2>5, <2>6
<1> HIDE DEF u, w, f, D, E, n
<1>6. Total(w) = Total(f)
    BY SMTT(30), <1>1, <1>e, <1>d, <1>3, TotalWiden
<1>7. Total(u) = Total(w) + Share(x, call)
  <2>1. PICK m : m = n + 1
      OBVIOUS
  <2>2. m \in E /\ u[m] = Share(x, call) /\ w[m] = 0 /\ \A k \in E \ {m} : u[k] = w[k]
      BY <1>d, <1>3, <1>5, <2>1
  <2>3. Total(u) = Total(w) + u[m] - w[m]
      BY <1>e, <1>3, <1>5, <2>2, TotalChange
  <2>4. Total(w) \in Int
      BY <1>e, <1>3, TotalInt
  <2>5. QED
      BY <1>2, <2>2, <2>3, <2>4
<1>8. QED
    BY <1>6, <1>7 DEF u, f

LEMMA NoCalls ==
    ASSUME NEW x
    PROVE  Total(Shares(x, <<>>)) = 0
<1>1. Shares(x, <<>>) \in [{} -> Int]
    BY DEF Shares
<1>2. QED
    BY <1>1, TotalZero, FS_EmptySet

-----------------------------------------------------------------------------
(* The calls of the program. *)

Additions == {call \in Calls : call.op = "add" /\ call.counter \in ClientCounters}
Readings  == {call \in Calls : call.op = "get"}

LEMMA RecordIs ==
    ASSUME NEW w \in Int, NEW t \in Int, NEW served \in BOOLEAN
    PROVE  Record(w, t, served) \in Seq(Additions)
<1>1. /\ Add("total_served", 1) \in Additions /\ Add("total_entered", 1) \in Additions
      /\ Add("total_time_waiting", w) \in Additions
      /\ Add("total_time_total", t) \in Additions
    BY DEF Add, Calls, Counters, ClientCounters, Additions
<1>2. (IF served THEN <<Add("total_served", 1)>> ELSE <<>>) \in Seq(Additions)
    BY <1>1
<1>3. << Add("total_entered", 1), Add("total_time_waiting", w),
         Add("total_time_total", t) >> \in Seq(Additions)
    BY <1>1
<1>4. QED
    BY <1>2, <1>3 DEF Record

(* What a whole record adds to each of the four counters. *)
LEMMA RecordSums ==
    ASSUME NEW w \in Int, NEW t \in Int, NEW served \in BOOLEAN
    PROVE  /\ Total(Shares("total_served", Record(w, t, served))) = IF served THEN 1 ELSE 0
           /\ Total(Shares("total_entered", Record(w, t, served))) = 1
           /\ Total(Shares("total_time_waiting", Record(w, t, served))) = w
           /\ Total(Shares("total_time_total", Record(w, t, served))) = t
<1> DEFINE r0 == IF served THEN <<Add("total_served", 1)>> ELSE <<>>
           a1 == Add("total_entered", 1)
           a2 == Add("total_time_waiting", w)
           a3 == Add("total_time_total", t)
           r1 == Append(r0, a1)
           r2 == Append(r1, a2)
           r3 == Append(r2, a3)
<1>1. Record(w, t, served) = r3
    BY DEF Record
<1>2. /\ Add("total_served", 1) \in Calls /\ a1 \in Calls /\ a2 \in Calls /\ a3 \in Calls
    BY DEF Add, Calls, Counters, ClientCounters
<1>3. r0 \in Seq(Calls) /\ r1 \in Seq(Calls) /\ r2 \in Seq(Calls)
    BY <1>2
<1>4. \A x : Total(Shares(x, r0)) =
                 IF served /\ x = "total_served" THEN 1 ELSE 0
  <2> TAKE x
  <2>1. Total(Shares(x, <<>>)) = 0
      BY NoCalls
  <2>2. <<>> \in Seq(Calls)
      OBVIOUS
  <2>3. Total(Shares(x, Append(<<>>, Add("total_served", 1))))
            = Total(Shares(x, <<>>)) + Share(x, Add("total_served", 1))
      BY <1>2, <2>2, OneMoreCall
  <2>4. Append(<<>>, Add("total_served", 1)) = <<Add("total_served", 1)>>
      OBVIOUS
  <2>5. Share(x, Add("total_served", 1)) = IF x = "total_served" THEN 1 ELSE 0
      BY DEF Share, Add
  <2>6. QED
      BY <2>1, <2>3, <2>4, <2>5
<1>5. \A x : Total(Shares(x, r1)) = Total(Shares(x, r0)) + Share(x, a1)
    BY <1>2, <1>3, OneMoreCall
<1>6. \A x : Total(Shares(x, r2)) = Total(Shares(x, r1)) + Share(x, a2)
    BY <1>2, <1>3, OneMoreCall
<1>7. \A x : Total(Shares(x, r3)) = Total(Shares(x, r2)) + Share(x, a3)
    BY <1>2, <1>3, OneMoreCall
<1>8. \A x : /\ Share(x, a1) = IF x = "total_entered" THEN 1 ELSE 0
             /\ Share(x, a2) = IF x = "total_time_waiting" THEN w ELSE 0
             /\ Share(x, a3) = IF x = "total_time_total" THEN t ELSE 0
    BY DEF Share, Add
<1> HIDE DEF r0, r1, r2, r3, a1, a2, a3
<1>9. \A x : Total(Shares(x, r3)) =
                 (IF served /\ x = "total_served" THEN 1 ELSE 0)
                 + (IF x = "total_entered" THEN 1 ELSE 0)
                 + (IF x = "total_time_waiting" THEN w ELSE 0)
                 + (IF x = "total_time_total" THEN t ELSE 0)
    BY <1>4, <1>5, <1>6, <1>7, <1>8
<1>10. QED
    BY <1>1, <1>9

LEMMA RevenueIs ==
    RevenueCalls \in Seq(Readings)
<1> DEFINE n == Cardinality(MenuItems)
           s == SetToSeq(MenuItems)
<1>1. n \in Nat
    BY StatisticsAssumption, FS_CardinalityType
<1>2. \E f \in [1 .. n -> MenuItems] : IsInjective(f)
  <2>1. ExistsBijection(1 .. n, MenuItems)
      BY StatisticsAssumption, FS_NatBijection, <1>1, FS_CardinalityType
  <2>2. PICK f \in Bijection(1 .. n, MenuItems) : TRUE
      BY <2>1 DEF ExistsBijection
  <2>3. f \in [1 .. n -> MenuItems] /\ IsInjective(f)
      BY <2>2 DEF Bijection, Injection, IsInjective
  <2>4. QED
      BY <2>3
<1>3. s \in [1 .. n -> MenuItems]
    BY <1>2 DEF SetToSeq
<1> HIDE DEF s, n
<1>4. RevenueCalls = [k \in 1 .. n |-> Get(s[k])]
    BY DEF RevenueCalls, s, n
<1>5. \A k \in 1 .. n : Get(s[k]) \in Readings
    BY <1>3 DEF Get, Calls, Counters, Readings
<1>6. QED
    BY <1>1, <1>4, <1>5

(* The report's calls, counted from the end. *)
LEMMA ReportIs ==
    /\ ReportCalls \in Seq(Readings) /\ Len(ReportCalls) \in Nat
    /\ LET n == Len(ReportCalls)
       IN  /\ n >= 4
           /\ ReportCalls[n - 3].counter = "total_entered"
           /\ ReportCalls[n - 2].counter = "total_served"
           /\ ReportCalls[n].counter = "total_time_waiting"
<1> DEFINE r == RevenueCalls
           e == << Get("total_entered"), Get("total_served"),
                   Get("total_served"), Get("total_time_waiting") >>
<1>1. r \in Seq(Readings)
    BY RevenueIs
<1>2. e \in Seq(Readings) /\ Len(e) = 4
    BY DEF Get, Calls, Counters, ClientCounters, Readings
<1>3. /\ e[1].counter = "total_entered" /\ e[2].counter = "total_served"
      /\ e[4].counter = "total_time_waiting"
    BY DEF Get
<1>4. ReportCalls = r \o e
    BY DEF ReportCalls
<1> HIDE DEF r, e
<1>5. PICK m \in Nat : m = Len(r)
    BY <1>1
<1>6. /\ r \o e \in Seq(Readings) /\ Len(r \o e) = Len(r) + Len(e)
      /\ \A k \in 1 .. Len(r) + Len(e) :
            (r \o e)[k] = IF k <= Len(r) THEN r[k] ELSE e[k - Len(r)]
    BY <1>1, <1>2, ConcatProperties
<1>p. Len(r \o e) = m + 4
    BY <1>2, <1>5, <1>6
<1>7. (r \o e)[m + 1] = e[1] /\ (r \o e)[m + 2] = e[2] /\ (r \o e)[m + 4] = e[4]
  <2>1. \A j \in 1 .. 4 : m + j \in 1 .. m + 4 /\ ~ (m + j <= m) /\ m + j - m = j
      OBVIOUS
  <2>2. \A j \in 1 .. 4 : (r \o e)[m + j] = e[j]
      BY <1>2, <1>5, <1>6, <2>1
  <2>3. 1 \in 1 .. 4 /\ 2 \in 1 .. 4 /\ 4 \in 1 .. 4
      OBVIOUS
  <2>4. QED
      BY <2>2, <2>3, Zenon
<1>8. PICK n \in Nat : n = m + 4 /\ n - 3 = m + 1 /\ n - 2 = m + 2 /\ n >= 4
    OBVIOUS
<1>9. /\ ReportCalls[n - 3] = e[1] /\ ReportCalls[n - 2] = e[2] /\ ReportCalls[n] = e[4]
      /\ Len(ReportCalls) = n
    BY <1>4, <1>7, <1>8, <1>p
<1>10. QED
    BY <1>3, <1>4, <1>6, <1>8, <1>9

-----------------------------------------------------------------------------
(* The invariant. *)

Workers == Clients \union Cashiers

ClientPlaces == {"outside", "inside", "waited", "recording", "exited"}

Types ==
    /\ counter \in [Counters -> [value : Int, lock : {0, 1}]]
    /\ now \in Nat
    /\ pc \in [Clients \union {Driver} -> ClientPlaces \union {"reporting", "done"}]
    /\ \A c \in Clients : pc[c] \in ClientPlaces
    /\ pc[Driver] \in {"outside", "reporting", "done"}
    /\ t1 \in [Clients -> Nat] /\ t2 \in [Clients -> Nat] /\ t3 \in [Clients -> Nat]
    /\ is_served \in [Clients -> BOOLEAN]
    /\ sold \in [Cashiers -> MenuItems \union {NoItem}]
    /\ todo \in [Procs -> Seq(Calls)]
    /\ at \in [Procs -> {"sem_wait", "load", "store", "sem_post"}]
    /\ reg \in [Procs -> Int]
    /\ report \in [Counters -> Int]

(* A process past sem_wait has a call to finish, and only one that adds     *)
(* comes to the store.                                                     *)
InCalls ==
    \A p \in Procs :
        /\ at[p] # "sem_wait" => todo[p] # <<>>
        /\ at[p] = "store" => Call(p).op = "add"

(* Whoever is past sem_wait has the lock of its counter, alone. *)
Inside(p) == at[p] # "sem_wait"

Locked ==
    \A p \in Procs : Inside(p) =>
        /\ counter[Call(p).counter].lock = 0
        /\ \A q \in Procs : Inside(q) /\ Call(q).counter = Call(p).counter => q = p

(* What was read under the lock is still so. *)
Current ==
    \A p \in Procs :
        at[p] = "store" \/ (at[p] = "sem_post" /\ Call(p).op = "get") =>
            reg[p] = counter[Call(p).counter].value

(* The calls a process has still to finish are the last of those it was     *)
(* given; nobody who has gone on has any left.                             *)
Assigned(p) ==
    IF p = Driver THEN IF pc[Driver] = "outside" THEN <<>> ELSE ReportCalls
    ELSE Given(p)

Finished(p) == Len(Assigned(p)) - Len(todo[p])

LastOnes ==
    \A p \in Procs :
        /\ Len(todo[p]) <= Len(Assigned(p))
        /\ \A k \in 1 .. Len(todo[p]) : todo[p][k] = Assigned(p)[Finished(p) + k]

GoneOn ==
    /\ \A c \in Clients : pc[c] = "exited" => todo[c] = <<>>
    /\ pc[Driver] = "done" => todo[Driver] = <<>>
    /\ pc[Driver] # "outside" => \A c \in Clients : pc[c] = "exited"

(* Every counter is the sum of what has been stored in it. *)
Added(x, p) == Total(Shares(x, Stored(p)))

Stores == \A x \in Counters : counter[x].value = Total([p \in Workers |-> Added(x, p)])

Books == Types /\ InCalls /\ Locked /\ Current /\ LastOnes /\ GoneOn /\ Stores

-----------------------------------------------------------------------------
Adds == {call \in Calls : call.op = "add"}

LEMMA Sets ==
    /\ IsFiniteSet(Workers) /\ Driver \notin Workers /\ Procs = Workers \union {Driver}
    /\ \A c \in Clients : c \in Workers /\ c \in Procs /\ c # Driver
    /\ \A k \in Cashiers : k \in Workers /\ k \in Procs /\ k # Driver /\ k \notin Clients
    /\ MINUTE \in Nat /\ MINUTE > 0 /\ NoItem \notin MenuItems
    /\ \A i \in MenuItems : i \in Counters /\ i \notin ClientCounters
    /\ \A x \in ClientCounters : x \in Counters
    /\ \A x \in Counters : x \in ClientCounters \/ x \in MenuItems
<1>1. IsFiniteSet(Workers)
    BY StatisticsAssumption, FS_Union DEF Workers
<1>2. Driver \notin Workers /\ Procs = Workers \union {Driver}
    BY StatisticsAssumption DEF Workers, Procs
<1>3. /\ \A c \in Clients : c \in Workers /\ c \in Procs /\ c # Driver
      /\ \A k \in Cashiers : k \in Workers /\ k \in Procs /\ k # Driver /\ k \notin Clients
    BY StatisticsAssumption DEF Workers, Procs
<1>4. MINUTE \in Nat /\ MINUTE > 0 /\ NoItem \notin MenuItems
    BY StatisticsAssumption
<1>5. /\ \A i \in MenuItems : i \in Counters /\ i \notin ClientCounters
      /\ \A x \in ClientCounters : x \in Counters
      /\ \A x \in Counters : x \in ClientCounters \/ x \in MenuItems
    BY StatisticsAssumption DEF Counters
<1>6. QED
    BY <1>1, <1>2, <1>3, <1>4, <1>5

LEMMA Times ==
    ASSUME Types, NEW c \in Clients
    PROVE  /\ TmSec(t2[c]) - TmSec(t1[c]) \in Int /\ TmSec(t3[c]) - TmSec(t1[c]) \in Int
           /\ TmSec(now) - TmSec(t1[c]) \in Int
<1>1. t1[c] \in Nat /\ t2[c] \in Nat /\ t3[c] \in Nat /\ now \in Nat
    BY DEF Types
<1>2. \A t \in Nat : TmSec(t) \in Int
    BY Sets DEF TmSec
<1>3. QED
    BY <1>1, <1>2

(* What is given to whom. *)
LEMMA GivenIs ==
    ASSUME Types
    PROVE  /\ \A c \in Clients : Given(c) \in Seq(Additions)
           /\ \A k \in Cashiers :
                 Given(k) = IF sold[k] = NoItem THEN <<>> ELSE <<Add(sold[k], 1)>>
           /\ \A k \in Cashiers :
                 sold[k] # NoItem => sold[k] \in MenuItems /\ Add(sold[k], 1) \in Adds
           /\ \A p \in Workers : Given(p) \in Seq(Adds)
<1>1. \A c \in Clients : Given(c) \in Seq(Additions)
  <2> TAKE c \in Clients
  <2>1. is_served[c] \in BOOLEAN
      BY DEF Types
  <2>2. Record(TmSec(t2[c]) - TmSec(t1[c]), TmSec(t3[c]) - TmSec(t1[c]), is_served[c])
            \in Seq(Additions)
      BY <2>1, Times, RecordIs
  <2>3. <<>> \in Seq(Additions)
      OBVIOUS
  <2>4. QED
      BY <2>2, <2>3 DEF Given
<1>2. \A k \in Cashiers :
        Given(k) = IF sold[k] = NoItem THEN <<>> ELSE <<Add(sold[k], 1)>>
    BY Sets DEF Given
<1>3. \A k \in Cashiers :
        sold[k] # NoItem => sold[k] \in MenuItems /\ Add(sold[k], 1) \in Adds
    BY DEF Types, Adds, Add, Calls, Counters
<1>4. Additions \subseteq Adds
    BY DEF Additions, Adds
<1>5. \A p \in Workers : Given(p) \in Seq(Adds)
  <2> TAKE p \in Workers
  <2>1. CASE p \in Clients
      BY <1>1, <1>4, <2>1, SeqMonotonic
  <2>2. CASE p \in Cashiers
    <3>1. CASE sold[p] = NoItem
      <4>1. Given(p) = <<>>
          BY <1>2, <2>2, <3>1
      <4>2. QED
          BY <4>1
    <3>2. CASE sold[p] # NoItem
      <4>1. PICK call \in Adds : call = Add(sold[p], 1)
          BY <1>3, <2>2, <3>2
      <4>2. Given(p) = <<call>>
          BY <1>2, <2>2, <3>2, <4>1
      <4>3. QED
          BY <4>2
    <3>3. QED
        BY <3>1, <3>2
  <2>3. QED
      BY <2>1, <2>2 DEF Workers
<1>6. QED
    BY <1>1, <1>2, <1>3, <1>5

LEMMA AssignedIs ==
    ASSUME Types
    PROVE  /\ \A p \in Workers : Assigned(p) = Given(p) /\ Assigned(p) \in Seq(Adds)
           /\ Assigned(Driver) \in Seq(Readings)
           /\ \A p \in Procs : Assigned(p) \in Seq(Calls) /\ Len(Assigned(p)) \in Nat
<1>1. \A p \in Workers : Assigned(p) = Given(p) /\ Assigned(p) \in Seq(Adds)
    BY Sets, GivenIs DEF Assigned
<1>2. Assigned(Driver) \in Seq(Readings)
    BY ReportIs DEF Assigned
<1>3. Adds \subseteq Calls /\ Readings \subseteq Calls
    BY DEF Adds, Readings
<1>4. \A p \in Procs : Assigned(p) \in Seq(Calls)
  <2>1. \A p \in Workers : Assigned(p) \in Seq(Calls)
      BY <1>1, <1>3, SeqMonotonic
  <2>2. Assigned(Driver) \in Seq(Calls)
      BY <1>2, <1>3, SeqMonotonic
  <2>3. QED
      BY <2>1, <2>2, Sets
<1>5. QED
    BY <1>1, <1>2, <1>4

(* The call a process has come to. *)
LEMMA CallIs ==
    ASSUME Types, NEW p \in Procs, todo[p] # <<>>
    PROVE  /\ todo[p] \in Seq(Calls) /\ Len(todo[p]) \in Nat /\ Len(todo[p]) >= 1
           /\ Call(p) = todo[p][1] /\ Call(p) \in Calls
           /\ Tail(todo[p]) \in Seq(Calls) /\ Len(Tail(todo[p])) = Len(todo[p]) - 1
           /\ \A k \in 1 .. Len(todo[p]) - 1 : Tail(todo[p])[k] = todo[p][k + 1]
<1>1. todo[p] \in Seq(Calls)
    BY DEF Types
<1>2. Head(todo[p]) = todo[p][1]
    OBVIOUS
<1>3. QED
    BY <1>1, <1>2, HeadTailProperties DEF Call

(* ... is one it was given. *)
LEMMA CallAssigned ==
    ASSUME Types, LastOnes, NEW p \in Procs, todo[p] # <<>>
    PROVE  /\ Finished(p) + 1 \in 1 .. Len(Assigned(p))
           /\ Call(p) = Assigned(p)[Finished(p) + 1]
           /\ p \in Workers => Call(p).op = "add"
           /\ p \in Clients => Call(p).counter \in ClientCounters
           /\ p \in Cashiers => /\ sold[p] \in MenuItems
                                /\ Call(p) = Add(sold[p], 1)
                                /\ Finished(p) = 0 /\ Len(todo[p]) = 1
           /\ p = Driver => Call(p).op = "get" /\ pc[Driver] # "outside"
<1>1. PICK m \in Nat : m = Len(Assigned(p))
    BY AssignedIs
<1>2. PICK l \in Nat : l = Len(todo[p]) /\ l >= 1
    BY CallIs
<1>3. l <= m /\ Finished(p) = m - l /\ Call(p) = todo[p][1]
    BY <1>1, <1>2, CallIs DEF LastOnes, Finished
<1>4. Finished(p) + 1 \in 1 .. m /\ 1 \in 1 .. l
    BY <1>1, <1>2, <1>3
<1>5. Call(p) = Assigned(p)[Finished(p) + 1]
    BY <1>2, <1>3, <1>4 DEF LastOnes
<1>6. p \in Workers => Call(p).op = "add"
  <2> SUFFICES ASSUME p \in Workers PROVE Call(p).op = "add"
      OBVIOUS
  <2>1. Assigned(p) \in Seq(Adds)
      BY AssignedIs
  <2>2. Call(p) \in Adds
      BY <1>1, <1>4, <1>5, <2>1, ElementOfSeq
  <2>3. QED
      BY <2>2 DEF Adds
<1>7. p \in Clients => Call(p).counter \in ClientCounters
  <2> SUFFICES ASSUME p \in Clients PROVE Call(p).counter \in ClientCounters
      OBVIOUS
  <2>1. Assigned(p) \in Seq(Additions)
      BY AssignedIs, GivenIs, Sets
  <2>2. Call(p) \in Additions
      BY <1>1, <1>4, <1>5, <2>1, ElementOfSeq
  <2>3. QED
      BY <2>2 DEF Additions
<1>8. p \in Cashiers => /\ sold[p] \in MenuItems
                        /\ Call(p) = Add(sold[p], 1)
                        /\ Finished(p) = 0 /\ l = 1
  <2> SUFFICES ASSUME p \in Cashiers
               PROVE  sold[p] \in MenuItems /\ Call(p) = Add(sold[p], 1) /\ Finished(p) = 0 /\ l = 1
      OBVIOUS
  <2>1. Assigned(p) = IF sold[p] = NoItem THEN <<>> ELSE <<Add(sold[p], 1)>>
      BY AssignedIs, GivenIs, Sets
  <2>2. sold[p] # NoItem /\ Assigned(p) = <<Add(sold[p], 1)>> /\ m = 1
      BY <1>1, <1>2, <1>3, <2>1
  <2>3. sold[p] \in MenuItems
      BY <2>2, GivenIs
  <2>4. l = 1 /\ Finished(p) = 0
    <3>1. m = 1
        BY <2>2
    <3>2. l \in Nat /\ l >= 1 /\ l <= m
        BY <1>2, <1>3
    <3>3. l = 1
        BY <3>1, <3>2
    <3>4. Finished(p) = 1 - 1
        BY <1>3, <3>1, <3>3
    <3>5. QED
        BY <3>3, <3>4
  <2>5. Call(p) = Assigned(p)[1]
      BY <1>5, <2>4
  <2>6. QED
      BY <2>2, <2>3, <2>4, <2>5
<1>9. p = Driver => Call(p).op = "get" /\ pc[Driver] # "outside"
  <2> SUFFICES ASSUME p = Driver PROVE Call(p).op = "get" /\ pc[Driver] # "outside"
      OBVIOUS
  <2>1. Assigned(p) \in Seq(Readings)
      BY AssignedIs
  <2>2. Call(p) \in Readings
      BY <1>1, <1>4, <1>5, <2>1, ElementOfSeq
  <2>3. Assigned(p) # <<>>
      BY <1>1, <1>2, <1>3
  <2>4. QED
      BY <2>2, <2>3 DEF Readings, Assigned
<1>10. QED
    BY <1>1, <1>2, <1>4, <1>5, <1>6, <1>7, <1>8, <1>9

-----------------------------------------------------------------------------
(* What the four statements of a counter call do. *)

LEMMA WaitDoes ==
    ASSUME Types, NEW p \in Procs, CounterWait(p)
    PROVE  /\ todo[p] # <<>> /\ Call(p).counter \in Counters
           /\ at[p] = "sem_wait" /\ at' = [at EXCEPT ![p] = "load"]
           /\ counter' \in [Counters -> [value : Int, lock : {0, 1}]]
           /\ \A x \in Counters : counter'[x].value = counter[x].value
           /\ counter[Call(p).counter].lock = 1 /\ counter'[Call(p).counter].lock = 0
           /\ \A x \in Counters : x # Call(p).counter => counter'[x] = counter[x]
<1>1. todo[p] # <<>> /\ at[p] = "sem_wait" /\ at' = [at EXCEPT ![p] = "load"]
    BY DEF CounterWait, Statement
<1>2. PICK y \in Counters : y = Call(p).counter
    BY <1>1, CallIs DEF Calls
<1>3. counter' = [counter EXCEPT ![y].lock = @ - 1] /\ counter[y].lock > 0
    BY <1>2 DEF CounterWait
<1>4. counter[y] \in [value : Int, lock : {0, 1}] /\ counter[y].lock = 1
    BY <1>3 DEF Types
<1>5. /\ counter' \in [Counters -> [value : Int, lock : {0, 1}]]
      /\ \A x \in Counters : counter'[x].value = counter[x].value
      /\ counter'[y].lock = 0
      /\ \A x \in Counters : x # y => counter'[x] = counter[x]
    BY <1>3, <1>4 DEF Types
<1>6. QED
    BY <1>1, <1>2, <1>4, <1>5

LEMMA LoadDoes ==
    ASSUME Types, NEW p \in Procs, CounterLoad(p)
    PROVE  /\ todo[p] # <<>> /\ Call(p).counter \in Counters
           /\ at[p] = "load"
           /\ \/ Call(p).op = "add" /\ at' = [at EXCEPT ![p] = "store"]
              \/ Call(p).op = "get" /\ at' = [at EXCEPT ![p] = "sem_post"]
           /\ reg' = [reg EXCEPT ![p] = counter[Call(p).counter].value]
           /\ counter[Call(p).counter].value \in Int
<1>1. /\ todo[p] # <<>> /\ at[p] = "load"
      /\ \/ Call(p).op = "add" /\ at' = [at EXCEPT ![p] = "store"]
         \/ Call(p).op = "get" /\ at' = [at EXCEPT ![p] = "sem_post"]
      /\ reg' = [reg EXCEPT ![p] = counter[Call(p).counter].value]
    BY DEF CounterLoad, Statement
<1>2. Call(p).counter \in Counters
    BY <1>1, CallIs DEF Calls
<1>3. counter[Call(p).counter].value \in Int
    BY <1>2 DEF Types
<1>4. QED
    BY <1>1, <1>2, <1>3

LEMMA StoreDoes ==
    ASSUME Types, InCalls, Current, NEW p \in Procs, CounterStore(p)
    PROVE  /\ todo[p] # <<>> /\ Call(p) \in Calls /\ Call(p).op = "add"
           /\ at[p] = "store" /\ at' = [at EXCEPT ![p] = "sem_post"]
           /\ counter' \in [Counters -> [value : Int, lock : {0, 1}]]
           /\ \A x \in Counters : counter'[x].lock = counter[x].lock
           /\ \A x \in Counters :
                 counter'[x].value = counter[x].value + Share(x, Call(p))
           /\ \A x \in Counters : x # Call(p).counter => counter'[x] = counter[x]
<1>1. todo[p] # <<>> /\ at[p] = "store" /\ at' = [at EXCEPT ![p] = "sem_post"]
    BY DEF CounterStore, Statement
<1>2. Call(p) \in Calls /\ Call(p).op = "add"
    BY <1>1, CallIs DEF InCalls
<1>3. PICK y \in Counters : y = Call(p).counter
    BY <1>2 DEF Calls
<1>4. PICK n \in Int : n = Call(p).n
    BY <1>2 DEF Calls
<1>5. counter' = [counter EXCEPT ![y].value = reg[p] + n]
    BY <1>3, <1>4 DEF CounterStore
<1>6. reg[p] = counter[y].value
    BY <1>1, <1>3 DEF Current
<1>7. counter[y] \in [value : Int, lock : {0, 1}]
    BY DEF Types
<1>8. /\ counter' \in [Counters -> [value : Int, lock : {0, 1}]]
      /\ \A x \in Counters : counter'[x].lock = counter[x].lock
      /\ counter'[y].value = counter[y].value + n
      /\ \A x \in Counters : x # y => counter'[x] = counter[x]
  <2>1. PICK v \in Int : v = counter[y].value + n
      BY <1>7
  <2>2. counter' = [counter EXCEPT ![y].value = v]
      BY <1>5, <1>6, <2>1
  <2>3. QED
      BY <2>1, <2>2, <1>7 DEF Types
<1>9. \A x \in Counters : Share(x, Call(p)) = IF x = y THEN n ELSE 0
    BY <1>3, <1>4 DEF Share
<1>10. \A x \in Counters : counter[x].value \in Int
    BY DEF Types
<1>11. \A x \in Counters : counter'[x].value = counter[x].value + Share(x, Call(p))
    BY <1>8, <1>9, <1>10
<1>12. QED
    BY <1>1, <1>2, <1>3, <1>8, <1>11

LEMMA PostDoes ==
    ASSUME Types, Locked, NEW p \in Procs, CounterPost(p)
    PROVE  /\ todo[p] # <<>> /\ Call(p) \in Calls
           /\ at[p] = "sem_post" /\ at' = [at EXCEPT ![p] = "sem_wait"]
           /\ counter' \in [Counters -> [value : Int, lock : {0, 1}]]
           /\ \A x \in Counters : counter'[x].value = counter[x].value
           /\ \A x \in Counters : x # Call(p).counter => counter'[x] = counter[x]
           /\ todo' = [todo EXCEPT ![p] = Tail(todo[p])]
           /\ Tail(todo[p]) \in Seq(Calls)
           /\ reg' = [reg EXCEPT ![p] = 0]
           /\ report' \in [Counters -> Int]
           /\ report' = IF Call(p).op = "get"
                        THEN [report EXCEPT ![Call(p).counter] = reg[p]] ELSE report
<1>1. /\ todo[p] # <<>> /\ at[p] = "sem_post" /\ at' = [at EXCEPT ![p] = "sem_wait"]
      /\ todo' = [todo EXCEPT ![p] = Tail(todo[p])] /\ reg' = [reg EXCEPT ![p] = 0]
      /\ report' = IF Call(p).op = "get"
                   THEN [report EXCEPT ![Call(p).counter] = reg[p]] ELSE report
    BY DEF CounterPost, Statement, Schedule
<1>2. Call(p) \in Calls /\ Tail(todo[p]) \in Seq(Calls)
    BY <1>1, CallIs
<1>3. PICK y \in Counters : y = Call(p).counter
    BY <1>2 DEF Calls
<1>4. counter' = [counter EXCEPT ![y].lock = @ + 1]
    BY <1>3 DEF CounterPost
<1>5. counter[y].lock = 0 /\ counter[y] \in [value : Int, lock : {0, 1}]
    BY <1>1, <1>3 DEF Locked, Inside, Types
<1>6. /\ counter' \in [Counters -> [value : Int, lock : {0, 1}]]
      /\ \A x \in Counters : counter'[x].value = counter[x].value
      /\ \A x \in Counters : x # y => counter'[x] = counter[x]
    BY <1>4, <1>5 DEF Types
<1>7. report' \in [Counters -> Int]
    BY <1>1, <1>3 DEF Types
<1>8. QED
    BY <1>1, <1>2, <1>3, <1>6, <1>7

-----------------------------------------------------------------------------
(* A step inside a call leaves alone what belongs to the visits. *)
Visits == <<now, pc, stamps, sold>>

LEMMA SameAssigned ==
    ASSUME UNCHANGED Visits
    PROVE  /\ \A p : Given(p)' = Given(p)
           /\ \A p : Assigned(p)' = Assigned(p)
<1>1. \A p : Given(p)' = Given(p)
    BY DEF Given, Visits, stamps
<1>2. QED
    BY <1>1 DEF Assigned, Visits

LEMMA TypesInCall ==
    ASSUME Types, InCalls, Locked, Current, NEW p \in Procs, InCall(p)
    PROVE  Types'
<1>1. UNCHANGED Visits
    BY DEF InCall, Visits
<1>2. CASE CounterWait(p)
  <2>1. UNCHANGED <<todo, reg, report>>
      BY <1>2 DEF CounterWait
  <2>2. counter' \in [Counters -> [value : Int, lock : {0, 1}]] /\ at' = [at EXCEPT ![p] = "load"]
      BY <1>2, WaitDoes
  <2>3. QED
      BY <1>1, <2>1, <2>2 DEF Types, Visits, stamps
<1>3. CASE CounterLoad(p)
  <2>1. UNCHANGED <<counter, todo, report>>
      BY <1>3 DEF CounterLoad
  <2>2. PICK n \in Int : reg' = [reg EXCEPT ![p] = n]
      BY <1>3, LoadDoes
  <2>3. at' = [at EXCEPT ![p] = "store"] \/ at' = [at EXCEPT ![p] = "sem_post"]
      BY <1>3, LoadDoes
  <2>4. QED
      BY <1>1, <2>1, <2>2, <2>3 DEF Types, Visits, stamps
<1>4. CASE CounterStore(p)
  <2>1. UNCHANGED <<todo, reg, report>>
      BY <1>4 DEF CounterStore
  <2>2. counter' \in [Counters -> [value : Int, lock : {0, 1}]]
        /\ at' = [at EXCEPT ![p] = "sem_post"]
      BY <1>4, StoreDoes
  <2>3. QED
      BY <1>1, <2>1, <2>2 DEF Types, Visits, stamps
<1>5. CASE CounterPost(p)
  <2>1. /\ counter' \in [Counters -> [value : Int, lock : {0, 1}]]
        /\ at' = [at EXCEPT ![p] = "sem_wait"]
        /\ todo' = [todo EXCEPT ![p] = Tail(todo[p])] /\ Tail(todo[p]) \in Seq(Calls)
        /\ reg' = [reg EXCEPT ![p] = 0] /\ report' \in [Counters -> Int]
      BY <1>5, PostDoes
  <2>2. QED
      BY <1>1, <2>1 DEF Types, Visits, stamps
<1>6. QED
    BY <1>2, <1>3, <1>4, <1>5 DEF InCall

LEMMA InCallsInCall ==
    ASSUME Types, InCalls, Locked, Current, NEW p \in Procs, InCall(p)
    PROVE  InCalls'
<1> SUFFICES ASSUME NEW q \in Procs
             PROVE  /\ at'[q] # "sem_wait" => todo'[q] # <<>>
                    /\ at'[q] = "store" => Call(q)'.op = "add"
    BY DEF InCalls
<1>1. /\ at[q] # "sem_wait" => todo[q] # <<>>
      /\ at[q] = "store" => Call(q).op = "add"
    BY DEF InCalls
<1>2. at \in [Procs -> {"sem_wait", "load", "store", "sem_post"}] /\ todo \in [Procs -> Seq(Calls)]
    BY DEF Types
<1>3. CASE CounterWait(p)
  <2>1. todo' = todo /\ Call(q)' = Call(q)
      BY <1>3 DEF CounterWait, Call
  <2>2. QED
      BY <1>1, <1>2, <1>3, <2>1, WaitDoes
<1>4. CASE CounterLoad(p)
  <2>1. todo' = todo /\ Call(q)' = Call(q)
      BY <1>4 DEF CounterLoad, Call
  <2>2. QED
      BY <1>1, <1>2, <1>4, <2>1, LoadDoes
<1>5. CASE CounterStore(p)
  <2>1. todo' = todo /\ Call(q)' = Call(q)
      BY <1>5 DEF CounterStore, Call
  <2>2. QED
      BY <1>1, <1>2, <1>5, <2>1, StoreDoes
<1>6. CASE CounterPost(p)
  <2>1. at' = [at EXCEPT ![p] = "sem_wait"] /\ todo' = [todo EXCEPT ![p] = Tail(todo[p])]
      BY <1>6, PostDoes
  <2>2. CASE q = p
      BY <1>2, <2>1, <2>2
  <2>3. CASE q # p
    <3>1. at'[q] = at[q] /\ todo'[q] = todo[q]
        BY <1>2, <2>1, <2>3
    <3>2. QED
        BY <1>1, <3>1 DEF Call
  <2>4. QED
      BY <2>2, <2>3
<1>7. QED
    BY <1>3, <1>4, <1>5, <1>6 DEF InCall

(* Who is inside after a step was inside before, or has just found the     *)
(* lock free.                                                              *)
LEMMA LockedInCall ==
    ASSUME Types, InCalls, Locked, Current, NEW p \in Procs, InCall(p)
    PROVE  Locked'
<1>1. at \in [Procs -> {"sem_wait", "load", "store", "sem_post"}]
      /\ todo \in [Procs -> Seq(Calls)]
    BY DEF Types
<1>0. \A q \in Procs : Inside(q) => Call(q).counter \in Counters
    BY CallIs DEF Inside, InCalls, Calls
<1>2. CASE CounterWait(p)
  <2>1. todo' = todo /\ \A q : Call(q)' = Call(q)
      BY <1>2 DEF CounterWait, Call
  <2>2. /\ at' = [at EXCEPT ![p] = "load"]
        /\ Call(p).counter \in Counters
        /\ counter[Call(p).counter].lock = 1 /\ counter'[Call(p).counter].lock = 0
        /\ \A x \in Counters : x # Call(p).counter => counter'[x] = counter[x]
      BY <1>2, WaitDoes
  <2>3. \A q \in Procs : q # p => (Inside(q)' <=> Inside(q))
      BY <1>1, <2>2 DEF Inside
  <2>4. \A q \in Procs : Inside(q) => Call(q).counter # Call(p).counter
      BY <2>2 DEF Locked
  <2>5. QED
      BY <1>0, <2>1, <2>2, <2>3, <2>4 DEF Locked
<1>3. CASE CounterLoad(p) \/ CounterStore(p)
  <2>1. todo' = todo /\ \A q : Call(q)' = Call(q)
      BY <1>3 DEF CounterLoad, CounterStore, Call
  <2>2. /\ at[p] # "sem_wait"
        /\ \E place \in {"store", "sem_post"} : at' = [at EXCEPT ![p] = place]
      BY <1>3, LoadDoes, StoreDoes
  <2>3. \A q \in Procs : Inside(q)' <=> Inside(q)
      BY <1>1, <2>2 DEF Inside
  <2>4. \A x \in Counters : counter'[x].lock = counter[x].lock
      BY <1>3, StoreDoes DEF CounterLoad
  <2>5. QED
      BY <1>0, <2>1, <2>3, <2>4 DEF Locked
<1>4. CASE CounterPost(p)
  <2>1. /\ at[p] = "sem_post" /\ at' = [at EXCEPT ![p] = "sem_wait"]
        /\ todo' = [todo EXCEPT ![p] = Tail(todo[p])]
        /\ \A x \in Counters : x # Call(p).counter => counter'[x] = counter[x]
      BY <1>4, PostDoes
  <2>2. ~ Inside(p)'
      BY <1>1, <2>1 DEF Inside
  <2>3. \A q \in Procs : q # p => (Inside(q)' <=> Inside(q)) /\ Call(q)' = Call(q)
      BY <1>1, <2>1 DEF Inside, Call
  <2>4. \A q \in Procs : q # p /\ Inside(q) => Call(q).counter # Call(p).counter
      BY <2>1 DEF Locked, Inside
  <2>5. QED
      BY <1>0, <2>1, <2>2, <2>3, <2>4 DEF Locked
<1>5. QED
    BY <1>2, <1>3, <1>4 DEF InCall

LEMMA CurrentInCall ==
    ASSUME Types, InCalls, Locked, Current, NEW p \in Procs, InCall(p)
    PROVE  Current'
<1>1. /\ at \in [Procs -> {"sem_wait", "load", "store", "sem_post"}]
      /\ todo \in [Procs -> Seq(Calls)] /\ reg \in [Procs -> Int]
    BY DEF Types
<1> SUFFICES ASSUME NEW q \in Procs,
                    at'[q] = "store" \/ (at'[q] = "sem_post" /\ Call(q)'.op = "get")
             PROVE  reg'[q] = counter'[Call(q)'.counter].value
    BY DEF Current
<1>2. at[q] = "store" \/ (at[q] = "sem_post" /\ Call(q).op = "get") =>
          /\ reg[q] = counter[Call(q).counter].value
          /\ Call(q).counter \in Counters
    BY CallIs DEF Current, InCalls, Calls
<1>3. CASE CounterWait(p)
  <2>1. todo' = todo /\ reg' = reg /\ Call(q)' = Call(q)
      BY <1>3 DEF CounterWait, Call
  <2>2. QED
      BY <1>1, <1>2, <1>3, <2>1, WaitDoes
<1>4. CASE CounterLoad(p)
  <2>1. todo' = todo /\ counter' = counter /\ Call(q)' = Call(q)
      BY <1>4 DEF CounterLoad, Call
  <2>2. /\ reg' = [reg EXCEPT ![p] = counter[Call(p).counter].value]
        /\ \E place \in {"store", "sem_post"} : at' = [at EXCEPT ![p] = place]
      BY <1>4, LoadDoes
  <2>3. CASE q = p
    <3>1. reg'[p] = counter[Call(p).counter].value
        BY <1>1, <2>2
    <3>2. QED
        BY <2>1, <2>3, <3>1
  <2>4. CASE q # p
    <3>1. at'[q] = at[q] /\ reg'[q] = reg[q]
        BY <1>1, <2>2, <2>4
    <3>2. QED
        BY <1>2, <2>1, <3>1
  <2>5. QED
      BY <2>3, <2>4
<1>5. CASE CounterStore(p)
  <2>1. todo' = todo /\ reg' = reg /\ Call(q)' = Call(q)
      BY <1>5 DEF CounterStore, Call
  <2>2. /\ at[p] = "store" /\ at' = [at EXCEPT ![p] = "sem_post"] /\ Call(p).op = "add"
        /\ \A x \in Counters : x # Call(p).counter => counter'[x] = counter[x]
      BY <1>5, StoreDoes
  <2>3. q # p /\ at'[q] = at[q]
      BY <1>1, <2>1, <2>2
  <2>4. Call(q).counter # Call(p).counter
      BY <2>1, <2>2, <2>3 DEF Locked, Inside
  <2>5. QED
      BY <1>2, <2>1, <2>2, <2>3, <2>4
<1>6. CASE CounterPost(p)
  <2>1. /\ at' = [at EXCEPT ![p] = "sem_wait"]
        /\ todo' = [todo EXCEPT ![p] = Tail(todo[p])]
        /\ reg' = [reg EXCEPT ![p] = 0]
        /\ \A x \in Counters : counter'[x].value = counter[x].value
      BY <1>6, PostDoes
  <2>2. q # p
      BY <1>1, <2>1
  <2>3. at'[q] = at[q] /\ reg'[q] = reg[q] /\ Call(q)' = Call(q)
      BY <1>1, <2>1, <2>2 DEF Call
  <2>4. QED
      BY <1>2, <2>1, <2>3
<1>7. QED
    BY <1>3, <1>4, <1>5, <1>6 DEF InCall

LEMMA LastOnesInCall ==
    ASSUME Types, InCalls, Locked, LastOnes, NEW p \in Procs, InCall(p)
    PROVE  LastOnes'
<1>1. \A q : Assigned(q)' = Assigned(q)
    BY SameAssigned DEF InCall, Visits
<1>2. CASE todo' = todo
    BY <1>1, <1>2 DEF LastOnes, Finished
<1>3. CASE CounterPost(p)
  <2>1. todo' = [todo EXCEPT ![p] = Tail(todo[p])] /\ todo[p] # <<>>
      BY <1>3, PostDoes
  <2> SUFFICES ASSUME NEW q \in Procs
               PROVE  /\ Len(todo'[q]) <= Len(Assigned(q))
                      /\ \A k \in 1 .. Len(todo'[q]) :
                            todo'[q][k] = Assigned(q)[Finished(q)' + k]
      BY <1>1 DEF LastOnes
  <2>2. CASE q # p
    <3>1. todo'[q] = todo[q]
        BY <2>1, <2>2 DEF Types
    <3>2. Finished(q)' = Finished(q)
        BY <1>1, <3>1 DEF Finished
    <3>3. QED
        BY <3>1, <3>2 DEF LastOnes
  <2>3. CASE q = p
    <3>1. todo'[p] = Tail(todo[p])
        BY <2>1 DEF Types
    <3>2. PICK l \in Nat : l = Len(todo[p]) /\ l >= 1
        BY <2>1, CallIs
    <3>3. PICK m \in Nat : m = Len(Assigned(p))
        BY AssignedIs
    <3>4. Len(todo'[p]) = l - 1 /\ \A k \in 1 .. l - 1 : todo'[p][k] = todo[p][k + 1]
        BY <2>1, <3>1, <3>2, CallIs
    <3>5. l <= m /\ \A k \in 1 .. l : todo[p][k] = Assigned(p)[m - l + k]
        BY <3>2, <3>3 DEF LastOnes, Finished
    <3>6. Finished(p)' = m - l + 1
        BY <1>1, <3>2, <3>3, <3>4 DEF Finished
    <3>7. \A k \in 1 .. l - 1 : k + 1 \in 1 .. l /\ m - l + (k + 1) = m - l + 1 + k
        BY <3>2, <3>3
    <3>8. \A k \in 1 .. l - 1 : todo'[p][k] = Assigned(p)[m - l + 1 + k]
        BY <3>4, <3>5, <3>7
    <3>9. l - 1 <= m
        BY <3>2, <3>3, <3>5
    <3>10. Len(todo'[p]) <= Len(Assigned(p))
        BY <3>3, <3>4, <3>9
    <3>11. \A k \in 1 .. Len(todo'[p]) :
              todo'[p][k] = Assigned(p)[Finished(p)' + k]
        BY <3>4, <3>6, <3>8
    <3>12. QED
        BY <2>3, <3>10, <3>11
  <2>4. QED
      BY <2>2, <2>3
<1>4. QED
    BY <1>2, <1>3 DEF InCall, CounterWait, CounterLoad, CounterStore

LEMMA GoneOnInCall ==
    ASSUME Types, InCalls, Locked, Current, GoneOn, NEW p \in Procs, InCall(p)
    PROVE  GoneOn'
<1>1. pc' = pc
    BY DEF InCall
<1>2. todo[p] # <<>> /\ \A q \in Procs : q # p => todo'[q] = todo[q]
  <2>1. CASE CounterPost(p)
    <3>1. todo[p] # <<>> /\ todo' = [todo EXCEPT ![p] = Tail(todo[p])]
        BY <2>1, PostDoes
    <3>2. QED
        BY <3>1 DEF Types
  <2>2. CASE ~ CounterPost(p)
      BY <2>2 DEF InCall, CounterWait, CounterLoad, CounterStore, Statement
  <2>3. QED
      BY <2>1, <2>2
<1>3. QED
    BY <1>1, <1>2, Sets DEF GoneOn, Procs


-----------------------------------------------------------------------------
(* How many of its calls a process has stored. *)
StoredCalls(p) ==
    Len(Given(p)) - Len(todo[p]) + (IF at[p] = "sem_post" THEN 1 ELSE 0)

LEMMA StoredIs ==
    ASSUME Types, InCalls, LastOnes, NEW p \in Workers
    PROVE  /\ Stored(p) = SubSeq(Given(p), 1, StoredCalls(p))
           /\ StoredCalls(p) \in Nat
           /\ Stored(p) \in Seq(Calls)
           /\ \A x : Added(x, p) \in Int
<1>1. Stored(p) = SubSeq(Given(p), 1, StoredCalls(p))
    BY DEF Stored, StoredCalls
<1>2. /\ p \in Procs /\ Given(p) = Assigned(p)
      /\ Given(p) \in Seq(Calls)
    BY Sets, AssignedIs
<1>3. PICK m \in Nat : m = Len(Given(p))
    BY <1>2
<1>4. PICK l \in Nat : l = Len(todo[p])
    BY <1>2 DEF Types
<1>5. l <= m /\ (at[p] = "sem_post" => l >= 1)
  <2>1. l <= m
      BY <1>2, <1>3, <1>4 DEF LastOnes
  <2>2. at[p] = "sem_post" => l >= 1
      BY <1>2, <1>4, CallIs DEF InCalls
  <2>3. QED
      BY <2>1, <2>2
<1>6. PICK n \in Nat : n = StoredCalls(p) /\ n <= m
  <2>1. StoredCalls(p) = m - l + (IF at[p] = "sem_post" THEN 1 ELSE 0)
      BY <1>3, <1>4 DEF StoredCalls
  <2>2. QED
      BY <1>5, <2>1
<1>7. Stored(p) \in Seq(Calls)
  <2>1. \A i \in 1 .. n : Given(p)[i] \in Calls
      BY <1>2, <1>3, <1>6, ElementOfSeq
  <2>2. SubSeq(Given(p), 1, n) \in Seq(Calls)
      BY <2>1, SubSeqProperties
  <2>3. QED
      BY <1>1, <1>6, <2>2
<1>8. \A x : Added(x, p) \in Int
  <2> TAKE x
  <2>1. /\ IsFiniteSet(DOMAIN Stored(p))
        /\ Shares(x, Stored(p)) \in [DOMAIN Stored(p) -> Int]
      BY <1>7, SharesType
  <2>2. Total(Shares(x, Stored(p))) \in Int
      BY <2>1, TotalInt
  <2>3. QED
      BY <2>2 DEF Added
<1>9. QED
    BY <1>1, <1>6, <1>7, <1>8

(* Only a store changes what has been stored. *)
LEMMA SameStores ==
    ASSUME Stores, \A p \in Workers : Stored(p)' = Stored(p),
           \A x \in Counters : counter'[x].value = counter[x].value
    PROVE  Stores'
<1>1. \A x \in Counters : \A p \in Workers : Added(x, p)' = Added(x, p)
    BY DEF Added
<1>2. QED
    BY <1>1 DEF Stores

LEMMA SameStored ==
    ASSUME Types, InCalls, LastOnes, Locked, NEW p \in Procs, NEW q \in Workers,
           InCall(p), ~ CounterStore(p)
    PROVE  Stored(q)' = Stored(q)
<1>1. Given(q)' = Given(q)
    BY SameAssigned DEF InCall, Visits
<1>2. q \in Procs /\ Given(q) = Assigned(q) /\ Given(q) \in Seq(Calls)
    BY Sets, AssignedIs
<1>3. PICK m \in Nat : m = Len(Given(q))
    BY <1>2
<1>4. PICK l \in Nat : l = Len(todo[q])
    BY <1>2 DEF Types
<1>5. at \in [Procs -> {"sem_wait", "load", "store", "sem_post"}]
      /\ todo \in [Procs -> Seq(Calls)]
    BY DEF Types
<1>6. CASE CounterWait(p)
  <2>1. todo' = todo /\ (at'[q] = "sem_post" <=> at[q] = "sem_post")
      BY ZenonT(60), <1>2, <1>5, <1>6, WaitDoes DEF CounterWait
  <2>2. QED
      BY <1>1, <2>1 DEF Stored
<1>7. CASE CounterLoad(p)
  <2>1. p \in Workers => Call(p).op = "add"
      BY <1>7, LoadDoes, CallAssigned
  <2>2. todo' = todo /\ (at'[q] = "sem_post" <=> at[q] = "sem_post")
      BY ZenonT(60), <1>2, <1>5, <1>7, <2>1, LoadDoes DEF CounterLoad
  <2>3. QED
      BY <1>1, <2>2 DEF Stored
<1>8. CASE CounterPost(p)
  <2>1. /\ at[p] = "sem_post" /\ at' = [at EXCEPT ![p] = "sem_wait"]
        /\ todo' = [todo EXCEPT ![p] = Tail(todo[p])] /\ todo[p] # <<>>
      BY <1>8, PostDoes
  <2>2. CASE q # p
    <3>1. todo'[q] = todo[q] /\ at'[q] = at[q]
        BY <1>5, <2>1, <2>2
    <3>2. QED
        BY <1>1, <3>1 DEF Stored
  <2>3. CASE q = p
    <3>1. todo'[q] = Tail(todo[q]) /\ at'[q] = "sem_wait" /\ at[q] = "sem_post"
        BY <1>2, <1>5, <2>1, <2>3
    <3>2. Len(todo'[q]) = l - 1
        BY <1>2, <1>4, <2>1, <2>3, <3>1, CallIs
    <3>3. Stored(q) = SubSeq(Given(q), 1, m - l + 1)
        BY <1>3, <1>4, <3>1 DEF Stored
    <3>4. Stored(q)' = SubSeq(Given(q), 1, m - (l - 1) + 0)
        BY <1>1, <1>3, <3>1, <3>2 DEF Stored
    <3>5. m - (l - 1) + 0 = m - l + 1
        OBVIOUS
    <3>6. QED
        BY <3>3, <3>4, <3>5
  <2>4. QED
      BY <2>2, <2>3
<1>9. QED
    BY <1>6, <1>7, <1>8 DEF InCall

(* A store adds the call it belongs to. *)
LEMMA OneMoreStored ==
    ASSUME Types, InCalls, LastOnes, Locked, Current, NEW p \in Procs,
           InCall(p), CounterStore(p)
    PROVE  /\ p \in Workers
           /\ Stored(p)' = Append(Stored(p), Call(p))
           /\ \A q \in Workers : q # p => Stored(q)' = Stored(q)
<1>1. \A q : Given(q)' = Given(q)
    BY SameAssigned DEF InCall, Visits
<1>2. /\ todo[p] # <<>> /\ Call(p) \in Calls /\ Call(p).op = "add"
      /\ at[p] = "store" /\ at' = [at EXCEPT ![p] = "sem_post"]
      /\ todo' = todo
    BY StoreDoes DEF CounterStore
<1>3. p \in Workers
    BY <1>2, CallAssigned, Sets
<1>4. /\ Given(p) = Assigned(p) /\ Given(p) \in Seq(Calls)
    BY <1>3, AssignedIs
<1>5. PICK m \in Nat : m = Len(Given(p))
    BY <1>4
<1>6. PICK l \in Nat : l = Len(todo[p])
    BY <1>2, CallIs
<1>7. PICK n \in Int : n = m - l
    OBVIOUS
<1>8. Finished(p) = n
    BY <1>4, <1>5, <1>6, <1>7 DEF Finished
<1>9. n + 1 \in 1 .. m /\ Call(p) = Given(p)[n + 1]
    BY <1>2, <1>4, <1>5, <1>8, CallAssigned
<1>10. Stored(p) = SubSeq(Given(p), 1, n)
  <2>1. Stored(p) = SubSeq(Given(p), 1, m - l + 0)
      BY <1>2, <1>5, <1>6 DEF Stored
  <2>2. QED
      BY <1>7, <2>1
<1>11. Stored(p)' = SubSeq(Given(p), 1, n + 1)
  <2>1. at'[p] = "sem_post"
      BY <1>2 DEF Types
  <2>2. Stored(p)' = SubSeq(Given(p), 1, m - l + 1)
      BY <1>1, <1>2, <1>5, <1>6, <2>1 DEF Stored
  <2>3. QED
      BY <1>7, <2>2
<1>12. PICK k \in 1 .. m : k = n + 1 /\ k - 1 = n
    BY <1>9
<1>13. SubSeq(Given(p), 1, k) = SubSeq(Given(p), 1, k - 1) \o << Given(p)[k] >>
  <2>1. 1 \in 1 .. Len(Given(p)) /\ k \in 1 .. Len(Given(p))
      BY <1>5, <1>12
  <2>2. QED
      BY <1>4, <2>1, SubSeqRecursiveSecond
<1>14. Stored(p)' = Stored(p) \o << Call(p) >>
    BY <1>9, <1>10, <1>11, <1>12, <1>13
<1>15. Stored(p) \in Seq(Calls)
    BY <1>3, StoredIs
<1>16. Stored(p) \o << Call(p) >> = Append(Stored(p), Call(p))
    BY <1>2, <1>15
<1>17. ASSUME NEW q \in Workers, q # p
       PROVE  Stored(q)' = Stored(q)
  <2>1. at'[q] = at[q]
      BY <1>2, <1>17, Sets DEF Types
  <2>2. QED
      BY <1>1, <1>2, <2>1 DEF Stored
<1>18. QED
    BY <1>3, <1>14, <1>16, <1>17

LEMMA StoresInCall ==
    ASSUME Types, InCalls, LastOnes, Locked, Current, Stores, NEW p \in Procs, InCall(p)
    PROVE  Stores'
<1>1. CASE ~ CounterStore(p)
  <2>1. \A q \in Workers : Stored(q)' = Stored(q)
      BY <1>1, SameStored
  <2>2. \A x \in Counters : counter'[x].value = counter[x].value
      BY <1>1, WaitDoes, PostDoes DEF InCall, CounterLoad
  <2>3. QED
      BY <2>1, <2>2, SameStores
<1>2. CASE CounterStore(p)
  <2> SUFFICES ASSUME NEW x \in Counters
               PROVE  counter'[x].value = Total([q \in Workers |-> Added(x, q)'])
      BY DEF Stores
  <2>1. /\ p \in Workers /\ Stored(p)' = Append(Stored(p), Call(p))
        /\ \A q \in Workers : q # p => Stored(q)' = Stored(q)
      BY <1>2, OneMoreStored
  <2>2. /\ Call(p) \in Calls
        /\ counter'[x].value = counter[x].value + Share(x, Call(p))
      BY <1>2, StoreDoes
  <2>3. \A q \in Workers : Stored(q) \in Seq(Calls) /\ Added(x, q) \in Int
      BY StoredIs
  <2>4. Share(x, Call(p)) \in Int
      BY <2>2 DEF Share, Calls
  <2>5. Added(x, p)' = Added(x, p) + Share(x, Call(p))
    <3>1. Total(Shares(x, Append(Stored(p), Call(p))))
              = Total(Shares(x, Stored(p))) + Share(x, Call(p))
        BY <2>1, <2>2, <2>3, OneMoreCall
    <3>2. Added(x, p)' = Total(Shares(x, Append(Stored(p), Call(p))))
        BY <2>1 DEF Added
    <3>3. QED
        BY <3>1, <3>2 DEF Added
  <2>6. \A q \in Workers : q # p => Added(x, q)' = Added(x, q)
      BY <2>1 DEF Added
  <2> DEFINE f == [q \in Workers |-> Added(x, q)]
             h == [q \in Workers |-> Added(x, q)']
  <2>7. /\ f \in [Workers -> Int] /\ h \in [Workers -> Int]
        /\ \A q \in Workers \ {p} : h[q] = f[q]
        /\ h[p] - f[p] = Share(x, Call(p)) /\ h[p] \in Int /\ f[p] \in Int
      BY <2>1, <2>3, <2>4, <2>5, <2>6
  <2>8. counter[x].value = Total(f)
      BY DEF Stores
  <2> HIDE DEF f, h
  <2>9. Total(h) = Total(f) + h[p] - f[p] /\ Total(f) \in Int
      BY SMTT(30), <2>1, <2>7, Sets, TotalChange, TotalInt
  <2>10. counter'[x].value = Total(h)
      BY <2>2, <2>4, <2>7, <2>8, <2>9
  <2>11. QED
      BY <2>10 DEF h
<1>3. QED
    BY <1>1, <1>2

-----------------------------------------------------------------------------
(* The steps of the visits and of the report. *)

(* Steps that give nobody anything to do. *)
LEMMA Quiet ==
    ASSUME InCalls, Locked, Current, LastOnes, Stores,
           UNCHANGED <<counter, calls>>,
           \A p \in Procs : Assigned(p)' = Assigned(p)
    PROVE  InCalls' /\ Locked' /\ Current' /\ LastOnes' /\ Stores'
<1>1. UNCHANGED <<counter, todo, at, reg>>
    BY DEF calls
<1>2. InCalls' /\ Locked' /\ Current'
    BY <1>1 DEF InCalls, Locked, Current, Inside, Call
<1>3. LastOnes'
    BY <1>1 DEF LastOnes, Finished
<1>4. \A p \in Workers : Given(p)' = Given(p)
    BY Sets DEF Assigned
<1>5. \A p \in Workers : Stored(p)' = Stored(p)
    BY <1>1, <1>4 DEF Stored
<1>6. Stores'
    BY <1>1, <1>5, SameStores
<1>7. QED
    BY <1>2, <1>3, <1>6

(* Steps that give p, who has had nothing to do, calls to make. *)
LEMMA Assigning ==
    ASSUME Types, Types', InCalls, Locked, Current, LastOnes, Stores,
           NEW p \in Procs, Assigned(p) = <<>>, todo'[p] = Assigned(p)',
           \A q \in Procs : q # p => Assigned(q)' = Assigned(q) /\ todo'[q] = todo[q],
           UNCHANGED <<counter, at, reg>>
    PROVE  todo[p] = <<>> /\ InCalls' /\ Locked' /\ Current' /\ LastOnes' /\ Stores'
<1>1. todo[p] = <<>>
  <2>1. todo[p] \in Seq(Calls) /\ Len(todo[p]) <= 0
      BY DEF Types, LastOnes
  <2>2. QED
      BY <2>1
<1>2. at[p] = "sem_wait"
    BY <1>1 DEF InCalls
<1>3. \A q \in Procs : q # p => Call(q)' = Call(q)
    BY DEF Call
<1>4. InCalls' /\ Locked' /\ Current'
  <2>1. InCalls'
      BY <1>2, <1>3 DEF InCalls
  <2>2. \A q \in Procs : Inside(q)' <=> Inside(q)
      BY DEF Inside
  <2>3. ~ Inside(p)
      BY <1>2 DEF Inside
  <2>4. Locked'
      BY <1>3, <2>2, <2>3 DEF Locked
  <2>5. Current'
      BY <1>2, <1>3 DEF Current
  <2>6. QED
      BY <2>1, <2>4, <2>5
<1>5. LastOnes'
  <2> SUFFICES ASSUME NEW q \in Procs
               PROVE  /\ Len(todo'[q]) <= Len(Assigned(q)')
                      /\ \A k \in 1 .. Len(todo'[q]) :
                            todo'[q][k] = (Assigned(q)')[Finished(q)' + k]
      BY DEF LastOnes
  <2>1. CASE q # p
    <3>1. Finished(q)' = Finished(q)
        BY <2>1 DEF Finished
    <3>2. QED
        BY <2>1, <3>1 DEF LastOnes
  <2>2. CASE q = p
    <3>1. PICK n \in Nat : n = Len(todo'[p])
        BY DEF Types
    <3>2. Len(Assigned(p)') = n
        BY <3>1
    <3>3. Finished(p)' = n - n
        BY <3>1, <3>2 DEF Finished
    <3>4. \A k \in 1 .. n : (n - n) + k = k
        BY <3>1
    <3>5. \A k \in 1 .. n : todo'[p][k] = (Assigned(p)')[Finished(p)' + k]
        BY <3>3, <3>4
    <3>6. n <= n
        BY <3>1
    <3>7. QED
        BY <2>2, <3>1, <3>2, <3>5, <3>6
  <2>3. QED
      BY <2>1, <2>2
<1>6. \A q \in Workers : Stored(q)' = Stored(q)
  <2> SUFFICES ASSUME NEW q \in Workers PROVE Stored(q)' = Stored(q)
      OBVIOUS
  <2>1. q \in Procs /\ Assigned(q)' = Given(q)' /\ Assigned(q) = Given(q)
      BY Sets DEF Assigned
  <2>2. CASE q # p
      BY <2>1, <2>2 DEF Stored
  <2>3. CASE q = p
    <3>1. PICK n \in Nat : n = Len(todo'[p])
        BY DEF Types
    <3>2. Stored(q)' = SubSeq(Given(q)', 1, n - n + 0)
        BY <1>2, <2>1, <2>3, <3>1 DEF Stored
    <3>3. n - n + 0 = 0
        BY <3>1
    <3>4. SubSeq(Given(q)', 1, 0) = <<>>
        BY SubSeqEmpty
    <3>5. Stored(q)' = <<>>
        BY <3>2, <3>3, <3>4
    <3>6. Given(q) = <<>> /\ todo[q] = <<>> /\ Len(<<>>) = 0
        BY <1>1, <2>1, <2>3
    <3>7. Stored(q) = SubSeq(<<>>, 1, 0 - 0 + 0)
        BY <1>2, <2>3, <3>6 DEF Stored
    <3>8. 0 - 0 + 0 = 0 /\ SubSeq(<<>>, 1, 0) = <<>>
        BY SubSeqEmpty
    <3>9. Stored(q) = <<>>
        BY <3>7, <3>8
    <3>10. QED
        BY <3>5, <3>9
  <2>4. QED
      BY <2>2, <2>3
<1>7. Stores'
    BY <1>6, SameStores
<1>8. QED
    BY <1>1, <1>4, <1>5, <1>7

LEMMA TypesOutside ==
    ASSUME Types,
           \/ Tick \/ StartReport \/ FinishReport
           \/ \E c \in Clients : StampEntry(c) \/ StampWaited(c) \/ StampExit(c) \/ Exit(c)
           \/ \E k \in Cashiers : Sell(k)
    PROVE  Types'
<1>1. CASE Tick
    BY <1>1 DEF Types, Tick, stamps, calls
<1>2. CASE StartReport
  <2>1. ReportCalls \in Seq(Calls)
      BY ReportIs, SeqMonotonic DEF Readings
  <2>2. QED
      BY <1>2, <2>1, Sets DEF Types, StartReport, Goto, Schedule, stamps, ClientPlaces
<1>3. CASE FinishReport
    BY <1>3, Sets DEF Types, FinishReport, Goto, stamps, calls, ClientPlaces
<1>4. ASSUME NEW c \in Clients, StampEntry(c) PROVE Types'
    BY <1>4, Sets DEF Types, StampEntry, Goto, stamps, calls, ClientPlaces
<1>5. ASSUME NEW c \in Clients, StampWaited(c) PROVE Types'
    BY <1>5, Sets DEF Types, StampWaited, Goto, stamps, calls, ClientPlaces
<1>6. ASSUME NEW c \in Clients, StampExit(c) PROVE Types'
  <2>1. is_served[c] \in BOOLEAN
      BY DEF Types
  <2>2. Record(TmSec(t2[c]) - TmSec(t1[c]), TmSec(now) - TmSec(t1[c]), is_served[c])
            \in Seq(Additions)
      BY <2>1, Times, RecordIs
  <2>3. PICK r \in Seq(Calls) : todo' = [todo EXCEPT ![c] = r]
      BY ZenonT(60), <1>6, <2>2, SeqMonotonic DEF Additions, StampExit, Schedule
  <2>4. QED
      BY <1>6, <2>3, Sets DEF Types, StampExit, Goto, ClientPlaces
<1>7. ASSUME NEW c \in Clients, Exit(c) PROVE Types'
    BY <1>7, Sets DEF Types, Exit, Goto, stamps, calls, ClientPlaces
<1>8. ASSUME NEW k \in Cashiers, Sell(k) PROVE Types'
  <2>1. PICK i \in MenuItems : /\ sold' = [sold EXCEPT ![k] = i]
                               /\ todo' = [todo EXCEPT ![k] = <<Add(i, 1)>>]
      BY <1>8 DEF Sell, Schedule
  <2>2. Add(i, 1) \in Calls
      BY DEF Add, Calls, Counters
  <2>3. <<Add(i, 1)>> \in Seq(Calls)
      BY <2>2
  <2>4. QED
      BY <1>8, <2>1, <2>3, Sets DEF Types, Sell, stamps
<1>9. QED
    BY <1>1, <1>2, <1>3, <1>4, <1>5, <1>6, <1>7, <1>8

(* A client's record depends on its own place only. *)
LEMMA GivenOutside ==
    ASSUME Types, NEW c \in Clients, NEW here, NEW there, Goto(c, here, there)
    PROVE  /\ pc[c] = here /\ pc'[c] = there
           /\ \A d \in Clients : d # c => pc'[d] = pc[d]
           /\ pc'[Driver] = pc[Driver]
BY Sets DEF Types, Goto

LEMMA GoneOnOutside ==
    ASSUME Types, GoneOn,
           \/ Tick \/ StartReport \/ FinishReport
           \/ \E c \in Clients : StampEntry(c) \/ StampWaited(c) \/ StampExit(c) \/ Exit(c)
           \/ \E k \in Cashiers : Sell(k)
    PROVE  GoneOn'
<1>1. CASE Tick
    BY <1>1 DEF GoneOn, Tick, calls
<1>2. CASE StartReport
    BY <1>2, Sets DEF GoneOn, Types, StartReport, Goto, Schedule
<1>3. CASE FinishReport
    BY <1>3, Sets DEF GoneOn, Types, FinishReport, Goto, calls
<1>4. ASSUME NEW c \in Clients, StampEntry(c) PROVE GoneOn'
  <2>1. UNCHANGED todo /\ Goto(c, "outside", "inside")
      BY <1>4 DEF StampEntry, calls
  <2>2. QED
      BY <2>1, GivenOutside DEF GoneOn
<1>5. ASSUME NEW c \in Clients, StampWaited(c) PROVE GoneOn'
  <2>1. UNCHANGED todo /\ Goto(c, "inside", "waited")
      BY <1>5 DEF StampWaited, calls
  <2>2. QED
      BY <2>1, GivenOutside DEF GoneOn
<1>6. ASSUME NEW c \in Clients, StampExit(c) PROVE GoneOn'
  <2>1. /\ Goto(c, "waited", "recording")
        /\ \A p \in Procs : p # c => todo'[p] = todo[p]
      BY <1>6 DEF StampExit, Schedule, Types
  <2>2. QED
      BY <2>1, GivenOutside, Sets DEF GoneOn
<1>7. ASSUME NEW c \in Clients, Exit(c) PROVE GoneOn'
  <2>1. UNCHANGED todo /\ todo[c] = <<>> /\ Goto(c, "recording", "exited")
      BY <1>7 DEF Exit, calls
  <2>2. QED
      BY <2>1, GivenOutside DEF GoneOn
<1>8. ASSUME NEW k \in Cashiers, Sell(k) PROVE GoneOn'
  <2>1. pc' = pc /\ \A p \in Procs : p # k => todo'[p] = todo[p]
      BY <1>8 DEF Sell, Schedule, Types
  <2>2. \A c \in Clients : todo'[c] = todo[c]
      BY <2>1, Sets
  <2>3. todo'[Driver] = todo[Driver]
      BY <2>1, Sets
  <2>4. QED
      BY <2>1, <2>2, <2>3 DEF GoneOn
<1>9. QED
    BY <1>1, <1>2, <1>3, <1>4, <1>5, <1>6, <1>7, <1>8

LEMMA CallsOutside ==
    ASSUME Types, Types', InCalls, Locked, Current, LastOnes, Stores,
           \/ Tick \/ StartReport \/ FinishReport
           \/ \E c \in Clients : StampEntry(c) \/ StampWaited(c) \/ StampExit(c) \/ Exit(c)
           \/ \E k \in Cashiers : Sell(k)
    PROVE  InCalls' /\ Locked' /\ Current' /\ LastOnes' /\ Stores'
<1> DEFINE Goal == InCalls' /\ Locked' /\ Current' /\ LastOnes' /\ Stores'
<1>1. CASE Tick
  <2>1. UNCHANGED <<counter, calls, pc, t1, t2, t3, is_served, sold>>
      BY <1>1 DEF Tick, stamps
  <2>2. \A p \in Procs : Assigned(p)' = Assigned(p)
      BY <2>1 DEF Assigned, Given
  <2>3. QED
      BY <2>1, <2>2, Quiet
<1>2. CASE StartReport
  <2>1. /\ pc[Driver] = "outside" /\ pc'[Driver] = "reporting"
        /\ \A c \in Clients : pc'[c] = pc[c]
        /\ UNCHANGED <<counter, at, reg, t1, t2, t3, is_served, sold>>
        /\ todo'[Driver] = ReportCalls
        /\ \A q \in Procs : q # Driver => todo'[q] = todo[q]
      BY <1>2, Sets DEF StartReport, Goto, Schedule, Types, stamps
  <2>2. \A q \in Procs : q # Driver => Assigned(q)' = Assigned(q)
      BY <2>1 DEF Assigned, Given
  <2>3. Driver \in Procs /\ Assigned(Driver) = <<>> /\ Assigned(Driver)' = ReportCalls
      BY <2>1, Sets DEF Assigned
  <2>4. QED
      BY <2>1, <2>2, <2>3, Assigning
<1>3. CASE FinishReport
  <2>1. /\ pc[Driver] = "reporting" /\ pc'[Driver] = "done"
        /\ \A c \in Clients : pc'[c] = pc[c]
        /\ UNCHANGED <<counter, calls, t1, t2, t3, is_served, sold>>
      BY <1>3, Sets DEF FinishReport, Goto, Types, stamps
  <2>2. \A p \in Procs : Assigned(p)' = Assigned(p)
      BY <2>1 DEF Assigned, Given
  <2>3. QED
      BY <2>1, <2>2, Quiet
<1>4. ASSUME NEW c \in Clients, StampEntry(c) PROVE Goal
  <2>1. /\ pc[c] = "outside" /\ pc'[c] = "inside"
        /\ \A d \in Clients : d # c => pc'[d] = pc[d] /\ t1'[d] = t1[d]
        /\ pc'[Driver] = pc[Driver]
        /\ UNCHANGED <<counter, calls, t2, t3, is_served, sold>>
    <3>1. Goto(c, "outside", "inside")
        BY <1>4 DEF StampEntry
    <3>2. QED
        BY <1>4, <3>1, GivenOutside DEF StampEntry, Types
  <2>2. \A p \in Procs : Assigned(p)' = Assigned(p)
      BY <2>1 DEF Assigned, Given
  <2>3. QED
      BY <2>1, <2>2, Quiet
<1>5. ASSUME NEW c \in Clients, StampWaited(c) PROVE Goal
  <2>1. /\ pc[c] = "inside" /\ pc'[c] = "waited"
        /\ \A d \in Clients : d # c => /\ pc'[d] = pc[d] /\ t2'[d] = t2[d]
                                       /\ is_served'[d] = is_served[d]
        /\ pc'[Driver] = pc[Driver]
        /\ UNCHANGED <<counter, calls, t1, t3, sold>>
    <3>1. Goto(c, "inside", "waited")
        BY <1>5 DEF StampWaited
    <3>2. QED
        BY <1>5, <3>1, GivenOutside DEF StampWaited, Types
  <2>2. \A p \in Procs : Assigned(p)' = Assigned(p)
      BY <2>1 DEF Assigned, Given
  <2>3. QED
      BY <2>1, <2>2, Quiet
<1>6. ASSUME NEW c \in Clients, StampExit(c) PROVE Goal
  <2>1. /\ pc[c] = "waited" /\ pc'[c] = "recording"
        /\ \A d \in Clients : d # c => pc'[d] = pc[d] /\ t3'[d] = t3[d]
        /\ pc'[Driver] = pc[Driver] /\ t3'[c] = now
        /\ UNCHANGED <<counter, at, reg, t1, t2, is_served, sold>>
    <3>1. Goto(c, "waited", "recording")
        BY <1>6 DEF StampExit
    <3>2. QED
        BY <1>6, <3>1, GivenOutside DEF StampExit, Types
  <2>2. /\ todo'[c] = Record(TmSec(t2[c]) - TmSec(t1[c]),
                             TmSec(now) - TmSec(t1[c]), is_served[c])
        /\ \A q \in Procs : q # c => todo'[q] = todo[q]
      BY <1>6, Sets DEF StampExit, Schedule, Types
  <2>3. \A q \in Procs : q # c => Assigned(q)' = Assigned(q)
      BY <2>1 DEF Assigned, Given
  <2>4. c \in Procs /\ c # Driver
      BY Sets
  <2>5. Assigned(c) = <<>> /\ Assigned(c)' = todo'[c]
      BY <2>1, <2>2, <2>4 DEF Assigned, Given
  <2>6. QED
      BY <2>1, <2>2, <2>3, <2>4, <2>5, Assigning
<1>7. ASSUME NEW c \in Clients, Exit(c) PROVE Goal
  <2>1. /\ pc[c] = "recording" /\ pc'[c] = "exited"
        /\ \A d \in Clients : d # c => pc'[d] = pc[d]
        /\ pc'[Driver] = pc[Driver]
        /\ UNCHANGED <<counter, calls, t1, t2, t3, is_served, sold>>
    <3>1. Goto(c, "recording", "exited")
        BY <1>7 DEF Exit
    <3>2. QED
        BY <1>7, <3>1, GivenOutside DEF Exit, stamps
  <2>2. \A p \in Procs : Assigned(p)' = Assigned(p)
      BY <2>1 DEF Assigned, Given
  <2>3. QED
      BY <2>1, <2>2, Quiet
<1>8. ASSUME NEW k \in Cashiers, Sell(k) PROVE Goal
  <2>1. PICK i \in MenuItems : /\ sold'[k] = i /\ sold[k] = NoItem
                               /\ \A j \in Cashiers : j # k => sold'[j] = sold[j]
                               /\ todo'[k] = <<Add(i, 1)>>
                               /\ \A q \in Procs : q # k => todo'[q] = todo[q]
      BY <1>8, Sets DEF Sell, Schedule, Types
  <2>2. UNCHANGED <<counter, at, reg, pc, t1, t2, t3, is_served>>
      BY <1>8 DEF Sell, stamps
  <2>3. \A q \in Procs : q # k => Assigned(q)' = Assigned(q)
      BY <2>1, <2>2 DEF Assigned, Given
  <2>4. /\ k \in Procs /\ k # Driver /\ k \notin Clients
        /\ Assigned(k) = Given(k) /\ Assigned(k)' = Given(k)'
      BY Sets DEF Assigned
  <2>5. Given(k) = <<>>
      BY <2>1, <2>4 DEF Given
  <2>6. Given(k)' = <<Add(i, 1)>>
      BY <2>1, <2>4, Sets DEF Given
  <2>7. QED
      BY <2>1, <2>2, <2>3, <2>4, <2>5, <2>6, Assigning
<1>9. QED
    BY <1>1, <1>2, <1>3, <1>4, <1>5, <1>6, <1>7, <1>8

-----------------------------------------------------------------------------
LEMMA InitBooks == Init => Books
<1> SUFFICES ASSUME Init PROVE Books
    OBVIOUS
<1>1. Types
    BY Sets DEF Init, Types, NewCounter, ClientPlaces
<1>2. InCalls /\ Locked /\ Current
    BY DEF Init, InCalls, Locked, Current, Inside
<1>3. \A p \in Procs : Assigned(p) = <<>> /\ todo[p] = <<>>
    BY Sets DEF Init, Assigned, Given, Procs
<1>4. LastOnes
  <2>1. Len(<<>>) = 0 /\ 0 <= 0 /\ \A k \in 1 .. 0 : FALSE
      OBVIOUS
  <2>2. QED
      BY <1>3, <2>1 DEF LastOnes
<1>5. GoneOn
    BY Sets DEF Init, GoneOn
<1>6. \A p \in Workers : Stored(p) = <<>>
  <2> TAKE p \in Workers
  <2>1. Given(p) = <<>> /\ todo[p] = <<>> /\ at[p] = "sem_wait" /\ Len(<<>>) = 0
      BY <1>3, Sets DEF Assigned, Init
  <2>2. Stored(p) = SubSeq(<<>>, 1, 0 - 0 + 0)
      BY <2>1 DEF Stored
  <2>3. 0 - 0 + 0 = 0 /\ SubSeq(<<>>, 1, 0) = <<>>
      BY SubSeqEmpty
  <2>4. QED
      BY <2>2, <2>3
<1>7. Stores
  <2> SUFFICES ASSUME NEW x \in Counters
               PROVE  counter[x].value = Total([p \in Workers |-> Added(x, p)])
      BY DEF Stores
  <2> DEFINE f == [p \in Workers |-> Added(x, p)]
  <2>1. f \in [Workers -> Int] /\ \A p \in Workers : f[p] = 0
      BY <1>6, NoCalls DEF Added
  <2>2. counter[x].value = 0
      BY DEF Init, NewCounter
  <2> HIDE DEF f
  <2>3. Total(f) = 0
      BY <2>1, Sets, TotalZero
  <2>4. QED
      BY <2>2, <2>3 DEF f
<1>8. QED
    BY <1>1, <1>2, <1>4, <1>5, <1>7 DEF Books

(* Every step of a process, inside a call or outside, keeps the books. *)
LEMMA BooksNext == Books /\ [Next]_vars => Books'
<1> SUFFICES ASSUME Books, [Next]_vars PROVE Books'
    OBVIOUS
<1>1. Types /\ InCalls /\ Locked /\ Current /\ LastOnes /\ GoneOn /\ Stores
    BY DEF Books
<1>2. ASSUME NEW p \in Procs, InCall(p) PROVE Books'
  <2>1. Types' /\ InCalls' /\ Locked' /\ Current' /\ GoneOn'
      BY <1>1, <1>2, TypesInCall, InCallsInCall, LockedInCall, CurrentInCall, GoneOnInCall
  <2>2. LastOnes'
      BY <1>1, <1>2, LastOnesInCall
  <2>3. Stores'
      BY <1>1, <1>2, StoresInCall
  <2>4. QED
      BY <2>1, <2>2, <2>3 DEF Books
<1>3. CASE \/ Tick \/ StartReport \/ FinishReport
           \/ \E c \in Clients : StampEntry(c) \/ StampWaited(c) \/ StampExit(c) \/ Exit(c)
           \/ \E k \in Cashiers : Sell(k)
  <2>1. Types'
      BY <1>1, <1>3, TypesOutside
  <2>2. GoneOn'
      BY <1>1, <1>3, GoneOnOutside
  <2>3. InCalls' /\ Locked' /\ Current' /\ LastOnes' /\ Stores'
      BY <1>1, <1>3, <2>1, CallsOutside
  <2>4. QED
      BY <2>1, <2>2, <2>3 DEF Books
<1>4. CASE AtRest \/ UNCHANGED vars
  <2>1. UNCHANGED <<counter, now, pc, t1, t2, t3, is_served, sold, calls, report>>
      BY <1>4 DEF AtRest, vars, stamps
  <2>2. Types' /\ GoneOn'
      BY <1>1, <2>1 DEF Types, GoneOn, calls
  <2>3. \A p \in Procs : Assigned(p)' = Assigned(p)
      BY <2>1 DEF Assigned, Given
  <2>4. InCalls' /\ Locked' /\ Current' /\ LastOnes' /\ Stores'
      BY <1>1, <2>1, <2>3, Quiet
  <2>5. QED
      BY <2>2, <2>4 DEF Books
<1>5. QED
    BY <1>2, <1>3, <1>4 DEF Next

(* The locked counters, in every reachable state: a process past sem_wait   *)
(* is alone with its counter, what it has read is still there, what it has *)
(* still to call is the end of what it was given, and each counter is the  *)
(* sum of what has been stored.                                            *)
THEOREM StatisticsInvariant == Spec => []Books
<1>1. QED
    BY InitBooks, BooksNext, PTL DEF Spec

-----------------------------------------------------------------------------
(* What the invariant says of the sums the properties are written with. *)

LEMMA AddedIs ==
    ASSUME Types, InCalls, LastOnes, NEW p \in Workers, NEW x
    PROVE  AddedTo(x, p) = Added(x, p)
BY StoredIs, FoldSeqIsTotal DEF AddedTo, Added

LEMMA BooksBalance == Books => NoLostUpdate
<1> SUFFICES ASSUME Books, NEW x \in Counters
             PROVE  counter[x].value =
                       SumOver(Clients \union Cashiers, LAMBDA p : AddedTo(x, p))
    BY DEF NoLostUpdate
<1>1. SumOver(Clients \union Cashiers, LAMBDA p : AddedTo(x, p))
          = FoldFunction(+, 0, [p \in Workers |-> AddedTo(x, p)])
    BY DEF SumOver, Workers
<1>2. [p \in Workers |-> AddedTo(x, p)] = [p \in Workers |-> Added(x, p)]
    BY AddedIs DEF Books
<1>3. FoldFunction(+, 0, [p \in Workers |-> Added(x, p)])
          = Total([p \in Workers |-> Added(x, p)])
    BY FoldIsTotal
<1>4. QED
    BY <1>1, <1>2, <1>3 DEF Books, Stores

(* A counter is always the sum of what clients and cashiers have stored in  *)
(* it: counter_increment and counter_increment_by_n read the value, compute *)
(* and write it back, and no other update comes between.                   *)
THEOREM NoUpdateIsLost == Spec => []NoLostUpdate
BY StatisticsInvariant, BooksBalance, PTL

-----------------------------------------------------------------------------
(* A client that has left has stored its whole record. *)
LEMMA GoneClient ==
    ASSUME Books, NEW c \in Clients, pc[c] = "exited"
    PROVE  /\ todo[c] = <<>> /\ ~ Inside(c)
           /\ Stored(c) = Record(TmSec(t2[c]) - TmSec(t1[c]),
                                 TmSec(t3[c]) - TmSec(t1[c]), is_served[c])
           /\ Added("total_served", c) = IF is_served[c] THEN 1 ELSE 0
           /\ Added("total_entered", c) = 1
           /\ Added("total_time_waiting", c) = TmSec(t2[c]) - TmSec(t1[c])
           /\ Added("total_time_total", c) = TmSec(t3[c]) - TmSec(t1[c])
<1>0. c \in Procs
    BY Sets
<1>1. todo[c] = <<>> /\ at[c] = "sem_wait"
    BY <1>0 DEF Books, GoneOn, InCalls
<1>2. Given(c) = Record(TmSec(t2[c]) - TmSec(t1[c]), TmSec(t3[c]) - TmSec(t1[c]), is_served[c])
    BY DEF Given
<1>3. Given(c) \in Seq(Additions)
    BY GivenIs DEF Books
<1>4. PICK m \in Nat : m = Len(Given(c))
    BY <1>3
<1>5. Stored(c) = SubSeq(Given(c), 1, m)
  <2>1. Len(todo[c]) = 0
      BY <1>1
  <2>2. Stored(c) = SubSeq(Given(c), 1, m - 0 + 0)
      BY <1>1, <1>4, <2>1 DEF Stored
  <2>3. m - 0 + 0 = m
      OBVIOUS
  <2>4. QED
      BY <2>2, <2>3
<1>6. Stored(c) = Given(c)
    BY <1>3, <1>4, <1>5, SubSeqFull
<1>7. /\ TmSec(t2[c]) - TmSec(t1[c]) \in Int /\ TmSec(t3[c]) - TmSec(t1[c]) \in Int
      /\ is_served[c] \in BOOLEAN
    BY Times DEF Books, Types
<1>8. \A x : Added(x, c) = Total(Shares(x, Record(TmSec(t2[c]) - TmSec(t1[c]),
                                                  TmSec(t3[c]) - TmSec(t1[c]), is_served[c])))
    BY <1>2, <1>6 DEF Added
<1>9. QED
    BY <1>1, <1>2, <1>6, <1>7, <1>8, RecordSums DEF Inside

(* Cashiers add nothing to the clients' counters. *)
LEMMA CashierAdds ==
    ASSUME Books, NEW k \in Cashiers, NEW x \in Counters
    PROVE  /\ Added(x, k) \in {0, 1}
           /\ Added(x, k) = 1 => sold[k] = x /\ x \in MenuItems
<1>1. k \in Workers /\ Types /\ InCalls /\ LastOnes
    BY Sets DEF Books
<1>2. Given(k) = IF sold[k] = NoItem THEN <<>> ELSE <<Add(sold[k], 1)>>
    BY <1>1, GivenIs
<1>3. Stored(k) = SubSeq(Given(k), 1, StoredCalls(k)) /\ StoredCalls(k) \in Nat
    BY <1>1, StoredIs
<1>4. PICK n \in Nat : n = StoredCalls(k)
    BY <1>3
<1>5. Stored(k) = <<>> \/ Stored(k) = Given(k)
  <2>1. Given(k) \in Seq(Adds)
      BY <1>1, GivenIs
  <2>2. PICK m \in Nat : m = Len(Given(k))
      BY <2>1
  <2>3. PICK l \in Nat : l = Len(todo[k])
      BY <1>1, Sets DEF Types
  <2>4. l <= m /\ n = m - l + (IF at[k] = "sem_post" THEN 1 ELSE 0)
      BY <1>1, <1>4, <2>2, <2>3, Sets DEF LastOnes, Assigned, StoredCalls
  <2>5. at[k] = "sem_post" => l >= 1
      BY <1>1, <2>3, CallIs, Sets DEF InCalls
  <2>6. m = 0 \/ m = 1
    <3>1. CASE sold[k] = NoItem
      <4>1. Given(k) = <<>>
          BY <1>2, <3>1
      <4>2. QED
          BY <2>2, <4>1
    <3>2. CASE sold[k] # NoItem
      <4>1. Given(k) = <<Add(sold[k], 1)>>
          BY <1>2, <3>2
      <4>2. QED
          BY <2>2, <4>1
    <3>3. QED
        BY <3>1, <3>2
  <2>7. n = 0 \/ n = m
      BY <2>4, <2>5, <2>6
  <2>8. CASE n = 0
      BY <1>3, <1>4, <2>8, SubSeqEmpty
  <2>9. CASE n = m
      BY <1>3, <1>4, <2>1, <2>2, <2>9, SubSeqFull
  <2>10. QED
      BY <2>7, <2>8, <2>9
<1>6. CASE Stored(k) = <<>>
    BY <1>6, NoCalls DEF Added
<1>7. CASE Stored(k) = Given(k) /\ sold[k] # NoItem
  <2>1. sold[k] \in MenuItems /\ Add(sold[k], 1) \in Calls
      BY <1>1, <1>7, GivenIs DEF Adds
  <2>2. PICK call \in Calls : call = Add(sold[k], 1)
      BY <2>1
  <2>3. Stored(k) = <<call>>
      BY <1>2, <1>7, <2>2
  <2>4. <<call>> = Append(<<>>, call) /\ <<>> \in Seq(Calls)
      OBVIOUS
  <2>5. Added(x, k) = Total(Shares(x, <<>>)) + Share(x, call)
    <3>1. Total(Shares(x, Append(<<>>, call))) = Total(Shares(x, <<>>)) + Share(x, call)
        BY <2>4, OneMoreCall
    <3>2. QED
        BY <2>3, <2>4, <3>1 DEF Added
  <2>6. Share(x, call) = IF x = sold[k] THEN 1 ELSE 0
      BY <2>2 DEF Share, Add
  <2>7. Total(Shares(x, <<>>)) = 0
      BY NoCalls
  <2>8. QED
      BY <2>1, <2>5, <2>6, <2>7
<1>8. QED
  <2>1. sold[k] = NoItem => Given(k) = <<>>
      BY <1>2
  <2>2. QED
      BY <1>5, <1>6, <1>7, <2>1

(* A counter of the clients is a sum over the clients. *)
LEMMA ClientSums ==
    ASSUME Books, NEW x \in ClientCounters
    PROVE  counter[x].value = Total([c \in Clients |-> Added(x, c)])
<1> DEFINE f == [c \in Clients |-> Added(x, c)]
           h == [p \in Workers |-> Added(x, p)]
<1>1. x \in Counters /\ IsFiniteSet(Workers) /\ Clients \in SUBSET Workers
    BY Sets
<1>2. \A p \in Workers : Added(x, p) \in Int
    BY StoredIs DEF Books
<1>3. \A k \in Cashiers : Added(x, k) = 0
    BY <1>1, CashierAdds, Sets
<1>4. /\ f \in [Clients -> Int] /\ h \in [Workers -> Int]
      /\ \A p \in Workers : h[p] = IF p \in Clients THEN f[p] ELSE 0
    BY <1>1, <1>2, <1>3 DEF Workers
<1>5. counter[x].value = Total(h)
    BY <1>1 DEF Books, Stores
<1> HIDE DEF f, h
<1>6. Total(h) = Total(f)
    BY <1>1, <1>4, TotalWiden
<1>7. QED
    BY <1>5, <1>6 DEF f

(* The difference of two tm_sec is a time less whole minutes. *)
LEMMA SecondsLost ==
    ASSUME NEW from \in Nat, NEW to \in Nat
    PROVE  TmSec(to) - TmSec(from) = to - from - Minutes(from, to)
<1>1. PICK M \in Nat : M = MINUTE /\ M > 0
    BY Sets
<1>2. /\ to = M * (to \div M) + (to % M) /\ from = M * (from \div M) + (from % M)
      /\ to \div M \in Int /\ from \div M \in Int /\ to % M \in Int /\ from % M \in Int
    BY <1>1
<1>3. \A a, b \in Int : M * (a - b) = M * a - M * b /\ M * a \in Int
    BY <1>1
<1>4. PICK a \in Int : a = to \div M
    BY <1>2
<1>5. PICK b \in Int : b = from \div M
    BY <1>2
<1>6. PICK c \in Int : c = to % M
    BY <1>2
<1>7. PICK d \in Int : d = from % M
    BY <1>2
<1>8. PICK e \in Int : e = M * a
    BY <1>3
<1>9. PICK g \in Int : g = M * b
    BY <1>3
<1>10. to = e + c /\ from = g + d /\ M * (a - b) = e - g
  <2>1. to = e + c /\ from = g + d
      BY <1>2, <1>4, <1>5, <1>6, <1>7, <1>8, <1>9
  <2>2. M * (a - b) = e - g
      BY <1>3, <1>8, <1>9
  <2>3. QED
      BY <2>1, <2>2
<1>11. TmSec(to) = c /\ TmSec(from) = d
    BY <1>1, <1>6, <1>7 DEF TmSec
<1>12. Minutes(from, to) = e - g
    BY <1>1, <1>4, <1>5, <1>10 DEF Minutes
<1>13. c - d = (e + c) - (g + d) - (e - g)
    OBVIOUS
<1>14. QED
    BY <1>10, <1>11, <1>12, <1>13

LEMMA MinutesAreLost == Books => LosesWholeMinutes
<1> SUFFICES ASSUME Books, \A c \in Clients : pc[c] = "exited"
             PROVE  /\ counter["total_time_waiting"].value =
                          SumOver(Clients, LAMBDA c : t2[c] - t1[c] - Minutes(t1[c], t2[c]))
                    /\ counter["total_time_total"].value =
                          SumOver(Clients, LAMBDA c : t3[c] - t1[c] - Minutes(t1[c], t3[c]))
    BY DEF LosesWholeMinutes
<1>0. \A c \in Clients : t1[c] \in Nat /\ t2[c] \in Nat /\ t3[c] \in Nat
    BY DEF Books, Types
<1>1. "total_time_waiting" \in ClientCounters /\ "total_time_total" \in ClientCounters
    BY DEF ClientCounters
<1>2. counter["total_time_waiting"].value =
          SumOver(Clients, LAMBDA c : t2[c] - t1[c] - Minutes(t1[c], t2[c]))
  <2> DEFINE f == [c \in Clients |-> Added("total_time_waiting", c)]
             g == [c \in Clients |-> t2[c] - t1[c] - Minutes(t1[c], t2[c])]
  <2>1. SumOver(Clients, LAMBDA c : t2[c] - t1[c] - Minutes(t1[c], t2[c]))
            = FoldFunction(+, 0, g)
      BY DEF SumOver
  <2>2. \A c \in Clients : Added("total_time_waiting", c)
                              = t2[c] - t1[c] - Minutes(t1[c], t2[c])
    <3> TAKE c \in Clients
    <3>1. Added("total_time_waiting", c) = TmSec(t2[c]) - TmSec(t1[c])
        BY GoneClient
    <3>2. QED
        BY <1>0, <3>1, SecondsLost
  <2>3. f = g
      BY <2>2
  <2>4. counter["total_time_waiting"].value = Total(f)
      BY <1>1, ClientSums
  <2> HIDE DEF f, g
  <2>5. QED
      BY <2>1, <2>3, <2>4, FoldIsTotal
<1>3. counter["total_time_total"].value =
          SumOver(Clients, LAMBDA c : t3[c] - t1[c] - Minutes(t1[c], t3[c]))
  <2> DEFINE f == [c \in Clients |-> Added("total_time_total", c)]
             g == [c \in Clients |-> t3[c] - t1[c] - Minutes(t1[c], t3[c])]
  <2>1. SumOver(Clients, LAMBDA c : t3[c] - t1[c] - Minutes(t1[c], t3[c]))
            = FoldFunction(+, 0, g)
      BY DEF SumOver
  <2>2. \A c \in Clients : Added("total_time_total", c)
                              = t3[c] - t1[c] - Minutes(t1[c], t3[c])
    <3> TAKE c \in Clients
    <3>1. Added("total_time_total", c) = TmSec(t3[c]) - TmSec(t1[c])
        BY GoneClient
    <3>2. QED
        BY <1>0, <3>1, SecondsLost
  <2>3. f = g
      BY <2>2
  <2>4. counter["total_time_total"].value = Total(f)
      BY <1>1, ClientSums
  <2> HIDE DEF f, g
  <2>5. QED
      BY <2>1, <2>3, <2>4, FoldIsTotal
<1>4. QED
    BY <1>2, <1>3

(* When the last client has left, the two counters of times hold the real   *)
(* times less one minute for every full minute that passed on the clock:   *)
(* the seconds of localtime are subtracted, and nothing else is lost.      *)
THEOREM OnlyMinutesAreLost == Spec => []LosesWholeMinutes
BY StatisticsInvariant, MinutesAreLost, PTL

-----------------------------------------------------------------------------
(* The report.  What it has of the menu items is never more than was sold;  *)
(* of the clients it has what there is, from the moment it was read.       *)
Reports ==
    /\ \A i \in MenuItems : report[i] <= counter[i].value
    /\ pc[Driver] # "outside" =>
          /\ Len(todo[Driver]) <= 3 =>
                report["total_entered"] = counter["total_entered"].value
          /\ Len(todo[Driver]) <= 2 =>
                report["total_served"] = counter["total_served"].value
          /\ Len(todo[Driver]) = 0 =>
                report["total_time_waiting"] = counter["total_time_waiting"].value

(* Cashiers and the driver do not change the clients' counters, and nobody  *)
(* takes anything from an item's.                                          *)
LEMMA CountersInCall ==
    ASSUME Books, NEW p \in Procs, InCall(p)
    PROVE  /\ \A i \in MenuItems : counter[i].value <= counter'[i].value
           /\ p \notin Clients =>
                 \A x \in ClientCounters : counter'[x].value = counter[x].value
<1>1. Types /\ InCalls /\ Locked /\ Current /\ LastOnes
    BY DEF Books
<1>2. \A x \in Counters : counter[x].value \in Int
    BY <1>1 DEF Types
<1>3. CASE ~ CounterStore(p)
  <2>1. \A x \in Counters : counter'[x].value = counter[x].value
      BY <1>1, <1>3, WaitDoes, PostDoes DEF InCall, CounterLoad
  <2>2. QED
      BY <1>2, <2>1, Sets
<1>4. CASE CounterStore(p)
  <2>1. /\ todo[p] # <<>> /\ Call(p).op = "add"
        /\ \A x \in Counters : counter'[x].value = counter[x].value + Share(x, Call(p))
      BY <1>1, <1>4, StoreDoes
  <2>2. CASE p \in Clients
    <3>1. Call(p).counter \in ClientCounters
        BY <1>1, <2>1, <2>2, CallAssigned
    <3>2. \A i \in MenuItems : Share(i, Call(p)) = 0
        BY <3>1, Sets DEF Share
    <3>3. \A i \in MenuItems : counter'[i].value = counter[i].value + 0
        BY <2>1, <3>2, Sets
    <3>4. QED
        BY <1>2, <2>2, <3>3, Sets
  <2>3. CASE p \in Cashiers
    <3>1. sold[p] \in MenuItems /\ Call(p) = Add(sold[p], 1)
        BY <1>1, <2>1, <2>3, CallAssigned
    <3>2. \A x : Share(x, Call(p)) = IF x = sold[p] THEN 1 ELSE 0
        BY <3>1 DEF Share, Add
    <3>3. \A x \in ClientCounters : Share(x, Call(p)) = 0
        BY <3>1, <3>2, Sets
    <3>4. \A i \in MenuItems : counter[i].value <= counter'[i].value
        BY <1>2, <2>1, <3>2, Sets
    <3>5. \A x \in ClientCounters : counter'[x].value = counter[x].value
        BY <1>2, <2>1, <3>3, Sets
    <3>6. QED
        BY <3>4, <3>5
  <2>4. p # Driver
      BY <1>1, <2>1, CallAssigned
  <2>5. QED
      BY <2>2, <2>3, <2>4, Sets DEF Workers
<1>5. QED
    BY <1>3, <1>4

(* The reading the driver comes back with. *)
LEMMA ReadingIs ==
    ASSUME Books, CounterPost(Driver), InCall(Driver)
    PROVE  LET x == Call(Driver).counter
               l == Len(todo[Driver])
           IN  /\ x \in Counters /\ l \in Nat /\ l >= 1 /\ Len(todo'[Driver]) = l - 1
               /\ report'[x] = counter[x].value
               /\ \A y \in Counters : y # x => report'[y] = report[y]
               /\ l = 4 => x = "total_entered"
               /\ l = 3 => x = "total_served"
               /\ l = 1 => x = "total_time_waiting"
<1>1. Types /\ InCalls /\ Locked /\ Current /\ LastOnes /\ Driver \in Procs
    BY Sets DEF Books
<1>2. /\ todo[Driver] # <<>> /\ Call(Driver) \in Calls /\ at[Driver] = "sem_post"
      /\ todo' = [todo EXCEPT ![Driver] = Tail(todo[Driver])]
      /\ report' = IF Call(Driver).op = "get"
                   THEN [report EXCEPT ![Call(Driver).counter] = reg[Driver]] ELSE report
    BY <1>1, PostDoes
<1>3. Call(Driver).op = "get" /\ pc[Driver] # "outside"
    BY <1>1, <1>2, CallAssigned
<1>4. PICK x \in Counters : x = Call(Driver).counter
    BY <1>2 DEF Calls
<1>5. report' = [report EXCEPT ![x] = counter[x].value]
    BY <1>1, <1>2, <1>3, <1>4 DEF Current
<1>6. report'[x] = counter[x].value /\ \A y \in Counters : y # x => report'[y] = report[y]
    BY <1>1, <1>5 DEF Types
<1>7. PICK l \in Nat : l = Len(todo[Driver]) /\ l >= 1 /\ Len(Tail(todo[Driver])) = l - 1
    BY <1>1, <1>2, CallIs
<1>8. Len(todo'[Driver]) = l - 1
    BY <1>1, <1>2, <1>7 DEF Types
<1>9. /\ l = 4 => x = "total_entered"
      /\ l = 3 => x = "total_served"
      /\ l = 1 => x = "total_time_waiting"
  <2>1. PICK m \in Nat : m = Len(ReportCalls)
      BY ReportIs
  <2>2. Assigned(Driver) = ReportCalls
      BY <1>3 DEF Assigned
  <2>3. Finished(Driver) = m - l
      BY <1>7, <2>1, <2>2 DEF Finished
  <2>4. Call(Driver) = ReportCalls[m - l + 1]
      BY <1>1, <1>2, <2>2, <2>3, CallAssigned
  <2>5. /\ ReportCalls[m - 3].counter = "total_entered"
        /\ ReportCalls[m - 2].counter = "total_served"
        /\ ReportCalls[m].counter = "total_time_waiting"
      BY <2>1, ReportIs
  <2>6. /\ l = 4 => m - l + 1 = m - 3
        /\ l = 3 => m - l + 1 = m - 2
        /\ l = 1 => m - l + 1 = m
      BY <2>1
  <2>7. l = 4 => x = "total_entered"
      BY <1>4, <2>4, <2>5, <2>6
  <2>8. l = 3 => x = "total_served"
      BY <1>4, <2>4, <2>5, <2>6
  <2>9. l = 1 => x = "total_time_waiting"
      BY <1>4, <2>4, <2>5, <2>6
  <2>10. QED
      BY <2>7, <2>8, <2>9
<1>10. QED
    BY <1>4, <1>6, <1>7, <1>8, <1>9

LEMMA ReportsInCall ==
    ASSUME Books, Reports, NEW p \in Procs, InCall(p)
    PROVE  Reports'
<1>1. Types /\ InCalls /\ Locked /\ Current /\ LastOnes /\ GoneOn /\ Driver \in Procs
    BY Sets DEF Books
<1>2. /\ "total_entered" \in ClientCounters /\ "total_served" \in ClientCounters
      /\ "total_time_waiting" \in ClientCounters
    BY DEF ClientCounters
<1>3. pc' = pc /\ todo[p] # <<>>
    BY <1>1, WaitDoes, LoadDoes, StoreDoes, PostDoes DEF InCall
<1>4. /\ \A x \in Counters : counter[x].value \in Int /\ counter'[x].value \in Int
      /\ \A x \in Counters : report[x] \in Int
    BY <1>1, TypesInCall DEF Types
<1>5. pc[Driver] # "outside" =>
          \A x \in ClientCounters : counter'[x].value = counter[x].value
  <2> SUFFICES ASSUME pc[Driver] # "outside"
               PROVE  \A x \in ClientCounters : counter'[x].value = counter[x].value
      OBVIOUS
  <2>1. p \notin Clients
      BY <1>1, <1>3 DEF GoneOn
  <2>2. QED
      BY <2>1, CountersInCall
<1>6. \A i \in MenuItems : counter[i].value <= counter'[i].value
    BY CountersInCall
<1>7. CASE p = Driver /\ CounterPost(p)
  <2>1. PICK x : x = Call(Driver).counter
      OBVIOUS
  <2>2. PICK l \in Nat : l = Len(todo[Driver]) /\ l >= 1
      BY <1>7, ReadingIs
  <2>3. /\ x \in Counters /\ Len(todo'[Driver]) = l - 1
        /\ report'[x] = counter[x].value
        /\ \A y \in Counters : y # x => report'[y] = report[y]
        /\ l = 4 => x = "total_entered"
        /\ l = 3 => x = "total_served"
        /\ l = 1 => x = "total_time_waiting"
      BY <1>7, <2>1, <2>2, ReadingIs
  <2>4. \A i \in MenuItems : report'[i] <= counter'[i].value
    <3> TAKE i \in MenuItems
    <3>1. report'[i] <= counter[i].value /\ report'[i] \in Int
        BY <1>4, <2>3, Sets DEF Reports
    <3>2. QED
        BY <1>4, <1>6, <3>1, Sets
  <2>5. ASSUME pc[Driver] # "outside"
        PROVE  /\ l - 1 <= 3 => report'["total_entered"] = counter["total_entered"].value
               /\ l - 1 <= 2 => report'["total_served"] = counter["total_served"].value
               /\ l - 1 = 0 => report'["total_time_waiting"] = counter["total_time_waiting"].value
    <3>1. /\ l <= 3 => report["total_entered"] = counter["total_entered"].value
          /\ l <= 2 => report["total_served"] = counter["total_served"].value
        BY <2>2, <2>5 DEF Reports
    <3>2. /\ l - 1 <= 3 => l <= 3 \/ l = 4
          /\ l - 1 <= 2 => l <= 2 \/ l = 3
          /\ l - 1 = 0 => l = 1
      <4>1. l \in Nat
          BY <2>2
      <4>2. QED
          BY <4>1
    <3>3. \A y \in ClientCounters : report'[y] = IF y = x THEN counter[y].value ELSE report[y]
        BY <2>3, Sets
    <3>4. QED
        BY <1>2, <2>3, <3>1, <3>2, <3>3
  <2>6. QED
      BY <1>2, <1>3, <1>5, <2>3, <2>4, <2>5 DEF Reports
<1>8. CASE ~ (p = Driver /\ CounterPost(p))
  <2>1. report' = report
    <3>1. CASE CounterPost(p)
      <4>1. p \in Workers
          BY <1>8, <3>1, Sets
      <4>2. Call(p).op = "add"
          BY <1>1, <1>3, <4>1, CallAssigned
      <4>3. QED
          BY <1>1, <3>1, <4>2, PostDoes
    <3>2. QED
        BY <3>1 DEF InCall, CounterWait, CounterLoad, CounterStore
  <2>2. todo'[Driver] = todo[Driver]
    <3>1. CASE CounterPost(p)
        BY <1>1, <1>8, <3>1, PostDoes DEF Types
    <3>2. QED
        BY <3>1 DEF InCall, CounterWait, CounterLoad, CounterStore
  <2>3. \A i \in MenuItems : report'[i] <= counter'[i].value
    <3> TAKE i \in MenuItems
    <3>1. report[i] <= counter[i].value /\ report[i] \in Int /\ counter[i].value \in Int
          /\ counter'[i].value \in Int /\ counter[i].value <= counter'[i].value
        BY <1>4, <1>6, Sets DEF Reports
    <3>2. QED
        BY <2>1, <3>1
  <2>4. QED
      BY <1>2, <1>3, <1>5, <2>1, <2>2, <2>3 DEF Reports
<1>9. QED
    BY <1>7, <1>8

LEMMA ReportsOutside ==
    ASSUME Books, Reports,
           \/ Tick \/ StartReport \/ FinishReport \/ AtRest \/ UNCHANGED vars
           \/ \E c \in Clients : StampEntry(c) \/ StampWaited(c) \/ StampExit(c) \/ Exit(c)
           \/ \E k \in Cashiers : Sell(k)
    PROVE  Reports'
<1>1. Types
    BY DEF Books
<1>2. CASE StartReport
  <2>1. counter' = counter /\ report' = report /\ todo'[Driver] = ReportCalls
      BY <1>1, <1>2, Sets DEF StartReport, Schedule, Types
  <2>2. ~ (Len(ReportCalls) <= 3) /\ ~ (Len(ReportCalls) <= 2) /\ ~ (Len(ReportCalls) = 0)
    <3>1. PICK m \in Nat : m = Len(ReportCalls) /\ m >= 4
        BY ReportIs
    <3>2. QED
        BY <3>1
  <2>3. QED
      BY <2>1, <2>2 DEF Reports
<1>3. CASE FinishReport
  <2>1. /\ counter' = counter /\ report' = report /\ todo' = todo
        /\ pc[Driver] # "outside"
      BY <1>3 DEF FinishReport, Goto, calls
  <2>2. QED
      BY <2>1 DEF Reports
<1>4. CASE Tick \/ AtRest \/ UNCHANGED vars
    BY <1>4 DEF Reports, Tick, AtRest, vars, calls
<1>5. ASSUME NEW c \in Clients, StampEntry(c) \/ StampWaited(c) \/ StampExit(c) \/ Exit(c)
      PROVE  Reports'
  <2>1. counter' = counter /\ report' = report /\ todo'[Driver] = todo[Driver]
      BY <1>1, <1>5, Sets DEF StampEntry, StampWaited, StampExit, Exit, Schedule, calls, Types
  <2>2. pc'[Driver] = pc[Driver]
      BY <1>1, <1>5, Sets DEF StampEntry, StampWaited, StampExit, Exit, Goto, Types
  <2>3. QED
      BY <2>1, <2>2 DEF Reports
<1>6. ASSUME NEW k \in Cashiers, Sell(k)
      PROVE  Reports'
  <2>1. /\ counter' = counter /\ report' = report /\ pc' = pc
        /\ todo'[Driver] = todo[Driver]
      BY <1>1, <1>6, Sets DEF Sell, Schedule, Types
  <2>2. QED
      BY <2>1 DEF Reports
<1>7. QED
    BY <1>2, <1>3, <1>4, <1>5, <1>6

LEMMA InitReports == Init => Reports
BY Sets DEF Init, Reports, NewCounter

LEMMA ReportsNext == Books /\ Reports /\ [Next]_vars => Reports'
<1> SUFFICES ASSUME Books, Reports, [Next]_vars PROVE Reports'
    OBVIOUS
<1>1. ASSUME NEW p \in Procs, InCall(p) PROVE Reports'
    BY <1>1, ReportsInCall
<1>2. QED
    BY <1>1, ReportsOutside DEF Next

(* What a client has stored in an item's counter: nothing. *)
LEMMA ClientAdds ==
    ASSUME Books, NEW c \in Clients, NEW i \in MenuItems
    PROVE  Added(i, c) = 0
<1>1. c \in Workers /\ Types /\ InCalls /\ LastOnes
    BY Sets DEF Books
<1>2. Given(c) \in Seq(Additions)
    BY <1>1, GivenIs
<1>3. PICK m \in Nat : m = Len(Given(c))
    BY <1>2
<1>4. PICK n \in Nat : n = StoredCalls(c) /\ n <= m
  <2>1. PICK l \in Nat : l = Len(todo[c]) /\ l <= m
    <3>1. c \in Procs /\ Given(c) = Assigned(c)
        BY Sets DEF Assigned
    <3>2. QED
        BY <1>1, <1>3, <3>1 DEF Types, LastOnes
  <2>2. at[c] = "sem_post" => l >= 1
      BY <1>1, <2>1, CallIs, Sets DEF InCalls
  <2>3. StoredCalls(c) = m - l + (IF at[c] = "sem_post" THEN 1 ELSE 0)
      BY <1>3, <2>1 DEF StoredCalls
  <2>4. l \in Nat /\ l <= m
      BY <2>1
  <2>5. QED
      BY <2>2, <2>3, <2>4
<1>5. Stored(c) \in Seq(Additions)
  <2>1. \A k \in 1 .. n : Given(c)[k] \in Additions
      BY <1>2, <1>3, <1>4, ElementOfSeq
  <2>2. SubSeq(Given(c), 1, n) \in Seq(Additions)
      BY <2>1, SubSeqProperties
  <2>3. QED
      BY <1>1, <1>4, <2>2, StoredIs
<1> DEFINE s == Stored(c)
<1>6. /\ s \in Seq(Calls) /\ IsFiniteSet(DOMAIN s)
      /\ Shares(i, s) \in [DOMAIN s -> Int]
    BY <1>1, StoredIs, SharesType
<1>7. \A k \in DOMAIN s : Shares(i, s)[k] = 0
  <2> TAKE k \in DOMAIN s
  <2>1. s[k] \in Additions
      BY <1>5
  <2>2. s[k].counter # i
      BY <2>1, Sets DEF Additions
  <2>3. QED
      BY <2>2 DEF Shares, Share
<1>8. Total(Shares(i, s)) = 0
    BY <1>6, <1>7, TotalZero
<1>9. QED
    BY <1>8 DEF Added

LEMMA ReportsFinal == Books /\ Reports => ReportFinal
<1> SUFFICES ASSUME Books, Reports, pc[Driver] = "done"
             PROVE  /\ report["total_entered"] = Cardinality(Clients)
                    /\ report["total_served"] = Cardinality({c \in Clients : is_served[c]})
                    /\ report["total_time_waiting"] = counter["total_time_waiting"].value
                    /\ \A i \in MenuItems :
                          report[i] <= Cardinality({k \in Cashiers : sold[k] = i})
    BY DEF ReportFinal
<1>1. Types /\ InCalls /\ LastOnes /\ Stores
    BY DEF Books
<1>2. \A c \in Clients : pc[c] = "exited"
    BY DEF Books, GoneOn
<1>3. /\ "total_entered" \in ClientCounters /\ "total_served" \in ClientCounters
      /\ "total_time_waiting" \in ClientCounters
    BY DEF ClientCounters
<1>4. /\ report["total_entered"] = counter["total_entered"].value
      /\ report["total_served"] = counter["total_served"].value
      /\ report["total_time_waiting"] = counter["total_time_waiting"].value
  <2>1. Len(todo[Driver]) = 0
      BY DEF Books, GoneOn
  <2>2. 0 <= 3 /\ 0 <= 2
      OBVIOUS
  <2>3. QED
      BY <2>1, <2>2 DEF Reports
<1>5. IsFiniteSet(Clients)
    BY StatisticsAssumption
<1>6. counter["total_entered"].value = Cardinality(Clients)
  <2> DEFINE f == [c \in Clients |-> Added("total_entered", c)]
  <2>1. /\ f \in [Clients -> Int]
        /\ \A c \in Clients : f[c] = IF c \in Clients THEN 1 ELSE 0
      BY <1>2, GoneClient
  <2>2. counter["total_entered"].value = Total(f)
      BY <1>3, ClientSums
  <2> HIDE DEF f
  <2>3. QED
      BY <1>5, <2>1, <2>2, TotalCount
<1>7. counter["total_served"].value = Cardinality({c \in Clients : is_served[c]})
  <2> DEFINE f == [c \in Clients |-> Added("total_served", c)]
             S == {c \in Clients : is_served[c]}
  <2>1. /\ f \in [Clients -> Int] /\ S \in SUBSET Clients
        /\ \A c \in Clients : f[c] = IF c \in S THEN 1 ELSE 0
      BY <1>2, GoneClient
  <2>2. counter["total_served"].value = Total(f)
      BY <1>3, ClientSums
  <2> HIDE DEF f, S
  <2>3. Total(f) = Cardinality(S)
      BY <1>5, <2>1, TotalCount
  <2>4. QED
      BY <2>2, <2>3 DEF S
<1>8. ASSUME NEW i \in MenuItems
      PROVE  report[i] <= Cardinality({k \in Cashiers : sold[k] = i})
  <2> DEFINE f == [p \in Workers |-> Added(i, p)]
             S == {k \in Cashiers : Added(i, k) = 1}
             T == {k \in Cashiers : sold[k] = i}
  <2>1. i \in Counters /\ IsFiniteSet(Workers) /\ IsFiniteSet(Cashiers)
      BY Sets, StatisticsAssumption
  <2>2. \A c \in Clients : Added(i, c) = 0
      BY ClientAdds
  <2>3. \A k \in Cashiers : Added(i, k) \in {0, 1} /\ (Added(i, k) = 1 => sold[k] = i)
      BY <2>1, CashierAdds
  <2>4. /\ f \in [Workers -> Int] /\ S \in SUBSET Workers
        /\ \A p \in Workers : f[p] = IF p \in S THEN 1 ELSE 0
      BY <2>2, <2>3, Sets DEF Workers
  <2>5. S \subseteq T /\ T \subseteq Cashiers
      BY <2>3
  <2>6. counter[i].value = Total(f)
      BY <1>1, <2>1 DEF Stores
  <2>7. report[i] <= counter[i].value /\ report[i] \in Int
      BY <1>1, <2>1 DEF Reports, Types
  <2> HIDE DEF f, S, T
  <2>8. Total(f) = Cardinality(S)
      BY <2>1, <2>4, TotalCount
  <2>9. IsFiniteSet(T)
      BY <2>1, <2>5, FS_Subset
  <2>10. Cardinality(S) <= Cardinality(T) /\ Cardinality(S) \in Nat /\ Cardinality(T) \in Nat
      BY <2>5, <2>9, FS_Subset, FS_CardinalityType
  <2>11. report[i] <= Cardinality(T)
      BY <2>6, <2>7, <2>8, <2>10
  <2>12. QED
      BY <2>11 DEF T
<1>9. QED
    BY <1>4, <1>6, <1>7, <1>8

(* The report printed by the test driver: everyone who came in is counted,  *)
(* and everyone served; the waiting time is the final one; and of no item  *)
(* more is reported than the cashiers, who may still be writing, have sold.*)
THEOREM ReportIsFinal == Spec => []ReportFinal
<1>1. Init => Books /\ Reports
    BY InitBooks, InitReports
<1>2. Books /\ Reports /\ [Next]_vars => Books' /\ Reports'
    BY BooksNext, ReportsNext
<1>3. QED
    BY <1>1, <1>2, ReportsFinal, PTL DEF Spec
=============================================================================
