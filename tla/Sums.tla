-------------------------------- MODULE Sums --------------------------------
(***************************************************************************)
(* Sums of a function over a finite set, as the folds of the community     *)
(* modules compute them: what such a sum is, how it follows one of its     *)
(* terms, when it counts.  Proofs about counters cite these lemmas.        *)
(*                                                                         *)
(* They go by induction, which is stated here over sets of numbers and     *)
(* over sets of subsets.                                                   *)
(***************************************************************************)
EXTENDS Integers, Folds, Functions, FiniteSetTheorems, WellFoundedInduction, TLAPS

-----------------------------------------------------------------------------
(* Induction. *)

(* A set of natural numbers has a least element. *)
LEMMA LeastNumber ==
    ASSUME NEW T \in SUBSET Nat, T # {}
    PROVE  \E n \in T : \A m \in T : n <= m
<1> DEFINE R == {ss \in Nat \X Nat : ss[1] < ss[2]}
<1>1. IsWellFoundedOn(R, Nat)
    BY NatLessThanWellFounded DEF OpToRel
<1>2. PICK n \in T : \A m \in T : <<m, n>> \notin R
  <2> HIDE DEF R
  <2> QED
      BY <1>1, WFMin
<1>3. \A m \in T : ~ (m < n)
  <2> TAKE m \in T
  <2>1. <<m, n>> \in Nat \X Nat /\ <<m, n>>[1] = m /\ <<m, n>>[2] = n
      OBVIOUS
  <2>2. QED
      BY <1>2, <2>1 DEF R
<1>4. QED
    BY <1>3

LEMMA NumberInduction ==
    ASSUME NEW S \in SUBSET Nat, 0 \in S, \A n \in S : n + 1 \in S
    PROVE  \A n \in Nat : n \in S
<1>1. SUFFICES ASSUME Nat \ S # {} PROVE FALSE
    OBVIOUS
<1>2. PICK n \in Nat \ S : \A m \in Nat \ S : n <= m
    BY <1>1, LeastNumber
<1>3. n - 1 \in S
    BY <1>2
<1>4. QED
    BY <1>2, <1>3

(* The element a fold takes from a set, and what is left for it. *)
First(s) == CHOOSE x \in s : TRUE
Rest(s)  == s \ {First(s)}

LEMMA RestIsSmaller ==
    ASSUME NEW D, IsFiniteSet(D), NEW s \in SUBSET D, s # {}
    PROVE  /\ First(s) \in s /\ First(s) \in D
           /\ Rest(s) \in SUBSET D
           /\ Cardinality(s) \in Nat /\ Cardinality(Rest(s)) = Cardinality(s) - 1
<1>1. First(s) \in s
    BY DEF First
<1>2. IsFiniteSet(s)
    BY FS_Subset
<1>3. Cardinality(s \ {First(s)}) = Cardinality(s) - 1
    BY <1>1, <1>2, FS_RemoveElement
<1>4. QED
    BY <1>1, <1>2, <1>3, FS_CardinalityType DEF Rest

(* What holds of the empty set and of a set if it holds of its rest. *)
LEMMA SubsetInduction ==
    ASSUME NEW D, IsFiniteSet(D), NEW P, {} \in P,
           \A s \in SUBSET D : s # {} /\ Rest(s) \in P => s \in P
    PROVE  \A s \in SUBSET D : s \in P
<1> DEFINE S == {n \in Nat : \A s \in SUBSET D : Cardinality(s) = n => s \in P}
<1>1. \A s \in SUBSET D : IsFiniteSet(s) /\ Cardinality(s) \in Nat
    BY FS_Subset, FS_CardinalityType
<1>2. 0 \in S
    BY <1>1, FS_EmptySet
<1>3. \A n \in S : n + 1 \in S
  <2> SUFFICES ASSUME NEW n \in S, NEW s \in SUBSET D, Cardinality(s) = n + 1
               PROVE  s \in P
      OBVIOUS
  <2>1. s # {}
      BY FS_EmptySet
  <2>2. Rest(s) \in SUBSET D /\ Cardinality(Rest(s)) = n
      BY <2>1, RestIsSmaller
  <2>3. QED
      BY <2>1, <2>2
<1>4. \A n \in Nat : n \in S
  <2> HIDE DEF S
  <2>1. S \in SUBSET Nat
      BY DEF S
  <2> QED
      BY <1>2, <1>3, <2>1, NumberInduction
<1>5. QED
    BY <1>1, <1>4

(* What holds of the empty set and goes on holding when an element is added. *)
LEMMA GrowingInduction ==
    ASSUME NEW D, IsFiniteSet(D), NEW P, {} \in P,
           \A s \in SUBSET D : \A x \in D \ s : s \in P => s \union {x} \in P
    PROVE  \A s \in SUBSET D : s \in P
<1>1. ASSUME NEW s \in SUBSET D, s # {}, Rest(s) \in P
      PROVE  s \in P
  <2>1. First(s) \in D /\ First(s) \in s /\ Rest(s) \in SUBSET D
      BY <1>1, RestIsSmaller
  <2>2. First(s) \in D \ Rest(s) /\ s = Rest(s) \union {First(s)}
      BY <2>1 DEF Rest
  <2>3. QED
      BY <1>1, <2>1, <2>2
<1>2. QED
    BY <1>1, SubsetInduction

-----------------------------------------------------------------------------
(* Sums.  A fold of + over a function f is Total(f): the last entry of a   *)
(* table that has the sum of f over every subset of its domain.            *)

Folded(f, g, s) == IF s = {} THEN 0 ELSE f[First(s)] + g[Rest(s)]
Table(f) == CHOOSE g : g = [s \in SUBSET DOMAIN f |-> Folded(f, g, s)]
Total(f) == Table(f)[DOMAIN f]

LEMMA FoldIsTotal ==
    ASSUME NEW f
    PROVE  FoldFunction(+, 0, f) = Total(f)
BY DEF FoldFunction, FoldFunctionOnSet, MapThenFoldSet, Total, Table, Folded, First, Rest

(* Up to any size of the subsets there is a table; at the size of the      *)
(* domain it is the whole.                                                 *)
LEMMA TableExists ==
    ASSUME NEW D, IsFiniteSet(D), NEW f \in [D -> Int]
    PROVE  \E g \in [SUBSET D -> Int] : \A s \in SUBSET D : g[s] = Folded(f, g, s)
<1> DEFINE Upto(g, n) == \A s \in SUBSET D : Cardinality(s) <= n => g[s] = Folded(f, g, s)
           S == {n \in Nat : \E g \in [SUBSET D -> Int] : Upto(g, n)}
<1>1. \A s \in SUBSET D : IsFiniteSet(s) /\ Cardinality(s) \in Nat
    BY FS_Subset, FS_CardinalityType
<1>2. 0 \in S
  <2> DEFINE g == [s \in SUBSET D |-> 0]
  <2>1. \A s \in SUBSET D : Cardinality(s) <= 0 => s = {}
      BY <1>1, FS_EmptySet
  <2>2. g \in [SUBSET D -> Int] /\ Upto(g, 0)
      BY <2>1 DEF Folded
  <2>3. QED
      BY <2>2
<1>3. \A n \in S : n + 1 \in S
  <2> TAKE n \in S
  <2>1. PICK g \in [SUBSET D -> Int] : Upto(g, n)
      OBVIOUS
  <2> DEFINE h == [s \in SUBSET D |-> Folded(f, g, s)]
  <2>2. \A s \in SUBSET D : s # {} =>
            /\ f[First(s)] \in Int /\ Rest(s) \in SUBSET D
            /\ Cardinality(Rest(s)) = Cardinality(s) - 1
      BY RestIsSmaller
  <2>3. h \in [SUBSET D -> Int]
      BY <2>2 DEF Folded
  <2>4. ASSUME NEW s \in SUBSET D, Cardinality(s) <= n + 1
        PROVE  h[s] = Folded(f, h, s)
    <3>1. CASE s = {}
        BY <3>1 DEF Folded
    <3>2. CASE s # {}
      <4>1. Rest(s) \in SUBSET D /\ Cardinality(Rest(s)) <= n
          BY <1>1, <2>2, <2>4, <3>2
      <4>2. g[Rest(s)] = h[Rest(s)]
          BY <2>1, <4>1
      <4>3. QED
          BY <4>2 DEF Folded
    <3>3. QED
        BY <3>1, <3>2
  <2> HIDE DEF h
  <2>5. \E k \in [SUBSET D -> Int] :
            \A s \in SUBSET D : Cardinality(s) <= n + 1 => k[s] = Folded(f, k, s)
      BY <2>3, <2>4
  <2>6. QED
      BY <2>5
<1>4. Cardinality(D) \in S
  <2> HIDE DEF S
  <2>1. S \in SUBSET Nat
      BY DEF S
  <2>2. QED
      BY <1>1, <1>2, <1>3, <2>1, NumberInduction
<1>5. \A s \in SUBSET D : Cardinality(s) <= Cardinality(D)
    BY FS_Subset
<1>6. QED
    BY <1>4, <1>5

(* Two tables of the same function are equal. *)
LEMMA TableUnique ==
    ASSUME NEW D, IsFiniteSet(D), NEW f \in [D -> Int], NEW g, NEW h,
           \A s \in SUBSET D : g[s] = Folded(f, g, s),
           \A s \in SUBSET D : h[s] = Folded(f, h, s)
    PROVE  \A s \in SUBSET D : g[s] = h[s]
<1> DEFINE P == {s \in SUBSET D : g[s] = h[s]}
<1>1. {} \in P
    BY DEF Folded
<1>2. \A s \in SUBSET D : s # {} /\ Rest(s) \in P => s \in P
    BY DEF Folded
<1>3. \A s \in SUBSET D : s \in P
  <2> HIDE DEF P
  <2> QED
      BY <1>1, <1>2, SubsetInduction
<1>4. QED
    BY <1>3

LEMMA TableIs ==
    ASSUME NEW D, IsFiniteSet(D), NEW f \in [D -> Int]
    PROVE  /\ Table(f) \in [SUBSET D -> Int]
           /\ \A s \in SUBSET D : Table(f)[s] = Folded(f, Table(f), s)
<1>1. PICK h \in [SUBSET D -> Int] : \A s \in SUBSET D : h[s] = Folded(f, h, s)
    BY TableExists
<1>2. h = [s \in SUBSET DOMAIN f |-> Folded(f, h, s)]
    BY <1>1
<1>3. Table(f) = [s \in SUBSET DOMAIN f |-> Folded(f, Table(f), s)]
    BY <1>2 DEF Table
<1>4. \A s \in SUBSET D : Table(f)[s] = Folded(f, Table(f), s)
  <2> DEFINE g == Table(f)
  <2>1. g = [s \in SUBSET D |-> Folded(f, g, s)]
      BY <1>3
  <2> HIDE DEF g
  <2>2. \A s \in SUBSET D : g[s] = Folded(f, g, s)
      BY <2>1
  <2>3. QED
      BY <2>2 DEF g
<1>5. \A s \in SUBSET D : Table(f)[s] = h[s]
    BY <1>1, <1>4, TableUnique
<1>6. Table(f) \in [SUBSET D -> Int]
  <2> DEFINE g == Table(f)
  <2>1. g = [s \in SUBSET D |-> Folded(f, g, s)]
      BY <1>3
  <2> HIDE DEF g
  <2>2. \A s \in SUBSET D : g[s] \in Int
      BY <1>1, <1>5 DEF g
  <2>3. g \in [SUBSET D -> Int]
      BY <2>1, <2>2
  <2>4. QED
      BY <2>3 DEF g
<1>7. QED
    BY <1>4, <1>6

(* A fold over a set of arguments is the sum of the function cut down to it. *)
LEMMA FoldOnSetIsTotal ==
    ASSUME NEW D, NEW f, NEW S \in SUBSET D, IsFiniteSet(S), \A x \in D : f[x] \in Int
    PROVE  FoldFunctionOnSet(+, 0, f, S) = Total([x \in S |-> f[x]])
<1> DEFINE h == [x \in S |-> f[x]]
           It == CHOOSE g : g = [s \in SUBSET S |-> Folded(f, g, s)]
<1>1. FoldFunctionOnSet(+, 0, f, S) = It[S]
    BY DEF FoldFunctionOnSet, MapThenFoldSet, Folded, First, Rest
<1>2. h \in [S -> Int] /\ DOMAIN h = S /\ \A x \in S : h[x] = f[x]
    OBVIOUS
<1>3. \A g : \A s \in SUBSET S : Folded(f, g, s) = Folded(h, g, s)
  <2> TAKE g
  <2> TAKE s \in SUBSET S
  <2>1. CASE s = {}
      BY <2>1 DEF Folded
  <2>2. CASE s # {}
    <3>1. First(s) \in S
        BY <2>2 DEF First
    <3>2. QED
        BY <1>2, <2>2, <3>1 DEF Folded
  <2>3. QED
      BY <2>1, <2>2
<1> HIDE DEF h
<1>2a. h \in [S -> Int]
    BY <1>2
<1>4. It = [s \in SUBSET S |-> Folded(f, It, s)]
  <2>1. PICK k \in [SUBSET S -> Int] : \A s \in SUBSET S : k[s] = Folded(h, k, s)
      BY <1>2a, TableExists, Zenon
  <2>2. k = [s \in SUBSET S |-> Folded(f, k, s)]
      BY <1>3, <2>1
  <2>3. QED
      BY <2>2
<1> HIDE DEF It
<1>5. \A s \in SUBSET S : It[s] = Folded(h, It, s)
    BY <1>3, <1>4
<1>6. \A s \in SUBSET S : Table(h)[s] = Folded(h, Table(h), s)
    BY <1>2a, TableIs, Zenon
<1>7. It[S] = Table(h)[S]
    BY <1>2, <1>5, <1>6, TableUnique
<1>8. QED
    BY <1>1, <1>2, <1>7 DEF Total, h

LEMMA TotalInt ==
    ASSUME NEW D, IsFiniteSet(D), NEW f \in [D -> Int]
    PROVE  Total(f) \in Int
<1>1. DOMAIN f \in SUBSET D
    OBVIOUS
<1>2. Table(f) \in [SUBSET D -> Int]
    BY TableIs
<1>3. QED
    BY <1>1, <1>2 DEF Total

(* A sum follows one of its terms. *)
LEMMA TotalChange ==
    ASSUME NEW D, IsFiniteSet(D), NEW f \in [D -> Int], NEW h \in [D -> Int],
           NEW x \in D, \A y \in D \ {x} : h[y] = f[y]
    PROVE  Total(h) = Total(f) + h[x] - f[x]
<1> DEFINE d == h[x] - f[x]
           P == {s \in SUBSET D : Table(h)[s] = Table(f)[s] + (IF x \in s THEN d ELSE 0)}
<1>1. h[x] = f[x] + d /\ d \in Int /\ \A y \in D : y # x => h[y] = f[y]
    OBVIOUS
<1> HIDE DEF d
<1>2. /\ Table(f) \in [SUBSET D -> Int] /\ Table(h) \in [SUBSET D -> Int]
      /\ \A s \in SUBSET D : Table(f)[s] = Folded(f, Table(f), s)
      /\ \A s \in SUBSET D : Table(h)[s] = Folded(h, Table(h), s)
    BY ZenonT(60), <1>1, TableIs
<1>3. {} \in P
  <2>1. Table(f)[{}] = 0 /\ Table(h)[{}] = 0
      BY <1>2 DEF Folded
  <2>2. QED
      BY <2>1
<1>4. ASSUME NEW s \in SUBSET D, s # {}, Rest(s) \in P
      PROVE  s \in P
  <2>1. First(s) \in s /\ First(s) \in D /\ Rest(s) \in SUBSET D
      BY <1>4, RestIsSmaller
  <2>2. Table(h)[s] = h[First(s)] + Table(h)[Rest(s)]
      BY <1>2, <1>4 DEF Folded
  <2>3. Table(f)[s] = f[First(s)] + Table(f)[Rest(s)]
      BY <1>2, <1>4 DEF Folded
  <2>4. Table(h)[Rest(s)] = Table(f)[Rest(s)] + (IF x \in Rest(s) THEN d ELSE 0)
      BY <1>4
  <2>5. f[First(s)] \in Int /\ Table(f)[Rest(s)] \in Int
      BY <1>2, <2>1
  <2>6. CASE First(s) = x
    <3>1. x \in s /\ x \notin Rest(s)
        BY <2>1, <2>6 DEF Rest
    <3>2. QED
        BY <1>1, <2>2, <2>3, <2>4, <2>5, <2>6, <3>1
  <2>7. CASE First(s) # x
    <3>1. x \in s <=> x \in Rest(s)
        BY <2>7 DEF Rest
    <3>2. h[First(s)] = f[First(s)]
        BY <1>1, <2>1, <2>7
    <3>3. QED
        BY <1>1, <2>2, <2>3, <2>4, <2>5, <3>1, <3>2
  <2>8. QED
      BY <2>6, <2>7
<1>5. D \in P
  <2> HIDE DEF P
  <2> QED
      BY <1>3, <1>4, SubsetInduction
<1>6. Table(f)[D] \in Int /\ DOMAIN f = D /\ DOMAIN h = D
    BY <1>2
<1>7. QED
    BY <1>1, <1>5, <1>6 DEF Total, d

LEMMA TotalZero ==
    ASSUME NEW D, IsFiniteSet(D), NEW f \in [D -> Int], \A x \in D : f[x] = 0
    PROVE  Total(f) = 0
<1> DEFINE P == {s \in SUBSET D : Table(f)[s] = 0}
<1>2. /\ Table(f) \in [SUBSET D -> Int]
      /\ \A s \in SUBSET D : Table(f)[s] = Folded(f, Table(f), s)
    BY TableIs
<1>3. {} \in P
    BY <1>2 DEF Folded
<1>4. ASSUME NEW s \in SUBSET D, s # {}, Rest(s) \in P
      PROVE  s \in P
  <2>1. First(s) \in D
      BY <1>4, RestIsSmaller
  <2>2. QED
      BY <1>2, <1>4, <2>1 DEF Folded
<1>5. D \in P
  <2> HIDE DEF P
  <2> QED
      BY <1>3, <1>4, SubsetInduction
<1>6. QED
    BY <1>5 DEF Total

(* A sum of small terms is small. *)
LEMMA TotalBetween ==
    ASSUME NEW D, IsFiniteSet(D), NEW m \in Nat,
           NEW f \in [D -> Int], \A x \in D : 0 <= f[x] /\ f[x] <= m
    PROVE  0 <= Total(f) /\ Total(f) <= m * Cardinality(D)
<1> DEFINE P == {s \in SUBSET D : /\ 0 <= Table(f)[s]
                                  /\ Table(f)[s] <= m * Cardinality(s)}
<1>2. /\ Table(f) \in [SUBSET D -> Int]
      /\ \A s \in SUBSET D : Table(f)[s] = Folded(f, Table(f), s)
    BY TableIs
<1>3. {} \in P
  <2>1. Table(f)[{}] = 0
      BY <1>2 DEF Folded
  <2>2. Cardinality({}) = 0
      BY FS_EmptySet
  <2>3. m * 0 = 0
      OBVIOUS
  <2>4. QED
      BY <2>1, <2>2, <2>3
<1>4. ASSUME NEW s \in SUBSET D, s # {}, Rest(s) \in P
      PROVE  s \in P
  <2>1. /\ First(s) \in D /\ Cardinality(s) \in Nat
        /\ Cardinality(Rest(s)) = Cardinality(s) - 1
      BY <1>4, RestIsSmaller
  <2>2. /\ 0 <= f[First(s)] /\ f[First(s)] <= m /\ f[First(s)] \in Int
        /\ 0 <= Table(f)[Rest(s)] /\ Table(f)[Rest(s)] <= m * (Cardinality(s) - 1)
        /\ Table(f)[Rest(s)] \in Int
        /\ Table(f)[s] = f[First(s)] + Table(f)[Rest(s)]
      BY <1>2, <1>4, <2>1 DEF Folded
  <2>3. m * (Cardinality(s) - 1) = m * Cardinality(s) - m /\ m * Cardinality(s) \in Int
      BY <2>1
  <2>4. 0 <= Table(f)[s] /\ Table(f)[s] <= m * Cardinality(s)
      BY <2>2, <2>3
  <2>5. QED
      BY <2>4
<1>5. D \in P
  <2> HIDE DEF P
  <2> QED
      BY <1>3, <1>4, SubsetInduction
<1>6. QED
    BY <1>5 DEF Total

(* A sum of natural numbers is at least each of them. *)
LEMMA TotalPart ==
    ASSUME NEW D, IsFiniteSet(D), NEW m \in Nat, NEW x \in D,
           NEW f \in [D -> Int], \A y \in D : 0 <= f[y] /\ f[y] <= m
    PROVE  f[x] <= Total(f)
<1> DEFINE h == [f EXCEPT ![x] = 0]
<1>1. /\ h \in [D -> Int] /\ h[x] = 0
      /\ \A y \in D \ {x} : h[y] = f[y]
      /\ \A y \in D : 0 <= h[y] /\ h[y] <= m
    OBVIOUS
<1> HIDE DEF h
<1>2. Total(h) = Total(f) + h[x] - f[x]
    BY <1>1, TotalChange
<1>3. 0 <= Total(h)
    BY <1>1, TotalBetween
<1>4. Total(f) \in Int /\ Total(h) \in Int
    BY <1>1, TotalInt
<1>5. QED
    BY <1>1, <1>2, <1>3, <1>4

(* Terms that are 0 do not count. *)
LEMMA TotalWiden ==
    ASSUME NEW E, IsFiniteSet(E), NEW D \in SUBSET E, NEW f \in [D -> Int],
           NEW h \in [E -> Int], \A x \in E : h[x] = IF x \in D THEN f[x] ELSE 0
    PROVE  Total(h) = Total(f)
<1> DEFINE Upto(A, s) == [y \in A |-> IF y \in s THEN f[y] ELSE 0]
           P == {s \in SUBSET D : Total(Upto(E, s)) = Total(Upto(D, s))}
<1>0. \A s \in SUBSET D :
        /\ Upto(E, s) \in [E -> Int] /\ Upto(D, s) \in [D -> Int]
        /\ \A y \in E : Upto(E, s)[y] = IF y \in s THEN f[y] ELSE 0
        /\ \A y \in D : Upto(D, s)[y] = IF y \in s THEN f[y] ELSE 0
    OBVIOUS
<1>1. IsFiniteSet(D)
    BY FS_Subset
<1>5. Upto(D, D) = f /\ Upto(E, D) = h
    OBVIOUS
<1> HIDE DEF Upto
<1>2. {} \in P
  <2>1. Total(Upto(E, {})) = 0
      BY <1>0, TotalZero
  <2>2. Total(Upto(D, {})) = 0
      BY <1>0, <1>1, TotalZero
  <2>3. QED
      BY <2>1, <2>2
<1>3. ASSUME NEW s \in SUBSET D, NEW x \in D \ s, s \in P
      PROVE  s \union {x} \in P
  <2> DEFINE t == s \union {x}
  <2>1. /\ t \in SUBSET D /\ x \in E /\ x \in t /\ x \notin s /\ f[x] \in Int
        /\ \A y \in E \ {x} : y \in t <=> y \in s
      OBVIOUS
  <2> HIDE DEF t
  <2>2. Total(Upto(E, t)) = Total(Upto(E, s)) + Upto(E, t)[x] - Upto(E, s)[x]
    <3>1. \A y \in E \ {x} : Upto(E, t)[y] = Upto(E, s)[y]
        BY <1>0, <2>1
    <3>2. QED
        BY <1>0, <2>1, <3>1, TotalChange
  <2>3. Total(Upto(D, t)) = Total(Upto(D, s)) + Upto(D, t)[x] - Upto(D, s)[x]
    <3>1. \A y \in D \ {x} : Upto(D, t)[y] = Upto(D, s)[y]
        BY <1>0, <2>1
    <3>2. QED
        BY <1>0, <1>1, <2>1, <3>1, TotalChange
  <2>4. /\ Upto(E, t)[x] = f[x] /\ Upto(D, t)[x] = f[x]
        /\ Upto(E, s)[x] = 0 /\ Upto(D, s)[x] = 0
      BY <1>0, <2>1
  <2>5. Total(Upto(D, s)) \in Int
      BY <1>0, <1>1, TotalInt
  <2>6. QED
      BY <1>3, <2>1, <2>2, <2>3, <2>4, <2>5 DEF t
<1>4. D \in P
  <2>1. \A s \in SUBSET D : \A x \in D \ s : s \in P => s \union {x} \in P
      BY <1>3
  <2> HIDE DEF P
  <2>2. \A s \in SUBSET D : s \in P
      BY <1>1, <1>2, <2>1, GrowingInduction
  <2>3. QED
      BY <2>2
<1>6. QED
    BY <1>4, <1>5

(* A sum of ones counts. *)
LEMMA TotalCount ==
    ASSUME NEW D, IsFiniteSet(D), NEW S \in SUBSET D, NEW f \in [D -> Int],
           \A x \in D : f[x] = IF x \in S THEN 1 ELSE 0
    PROVE  Total(f) = Cardinality(S)
<1> DEFINE Ones(s) == [y \in D |-> IF y \in s THEN 1 ELSE 0]
           P == {s \in SUBSET D : Total(Ones(s)) = Cardinality(s)}
<1>0. \A s \in SUBSET D :
        /\ Ones(s) \in [D -> Int]
        /\ \A y \in D : Ones(s)[y] = IF y \in s THEN 1 ELSE 0
    OBVIOUS
<1>5. Ones(S) = f
    OBVIOUS
<1> HIDE DEF Ones
<1>1. {} \in P
  <2>1. Total(Ones({})) = 0
      BY <1>0, TotalZero
  <2>2. QED
      BY <2>1, FS_EmptySet
<1>2. ASSUME NEW s \in SUBSET D, NEW x \in D \ s, s \in P
      PROVE  s \union {x} \in P
  <2> DEFINE t == s \union {x}
  <2>1. /\ t \in SUBSET D /\ x \in t /\ x \notin s
        /\ \A y \in D \ {x} : y \in t <=> y \in s
      OBVIOUS
  <2>2. IsFiniteSet(s) /\ Cardinality(s) \in Nat
      BY FS_Subset, FS_CardinalityType
  <2>3. Cardinality(t) = Cardinality(s) + 1
      BY <2>2, FS_AddElement
  <2> HIDE DEF t
  <2>4. \A y \in D \ {x} : Ones(t)[y] = Ones(s)[y]
      BY <1>0, <2>1
  <2>5. Total(Ones(t)) = Total(Ones(s)) + Ones(t)[x] - Ones(s)[x]
      BY <1>0, <2>1, <2>4, TotalChange
  <2>6. Ones(t)[x] = 1 /\ Ones(s)[x] = 0
      BY <1>0, <2>1
  <2>7. QED
      BY <1>2, <2>1, <2>2, <2>3, <2>5, <2>6 DEF t
<1>3. S \in P
  <2> HIDE DEF P
  <2> QED
      BY <1>1, <1>2, GrowingInduction
<1>4. QED
    BY <1>3, <1>5
=============================================================================
