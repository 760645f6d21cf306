------------------------------ MODULE EngineProofs ------------------------------
(***************************************************************************)
(* The two engines that stand beside the case: the fraud graph and the     *)
(* product library.  They share no state; each half of this module is      *)
(* about one.                                                              *)
(*                                                                         *)
(* The fraud graph, for any windows, thresholds and lots: a lot has one    *)
(* list in time, a sliding pass over it shows each record the window that  *)
(* ends with it, and so each detector finds what its definition without    *)
(* windows asks for.  Induction on positions is replaced by the least      *)
(* element of a set of naturals.                                           *)
(*                                                                         *)
(* The product, for any callers, bodies, limits and engines: three         *)
(* invariants that do not need each other, of what an answer is, what the  *)
(* report of errors holds, and what the limiter remembers of an identifier. *)
(***************************************************************************)
EXTENDS FraudGraph, ProductAnalysis, FiniteSetTheorems, SequenceTheorems,
        WellFoundedInduction, TLAPS

-----------------------------------------------------------------------------
(* Least and greatest numbers. *)

LEMMA LessIsWellFounded == IsWellFoundedOn({p \in Nat \X Nat : p[1] < p[2]}, Nat)
BY NatLessThanWellFounded, Zenon DEF OpToRel

\* A set of naturals has a least: what stands in for induction here.
LEMMA LeastOf ==
    ASSUME NEW S \in SUBSET Nat, S # {}
    PROVE  Min(S) \in S /\ \A y \in S : Min(S) <= y
<1>1. PICK x \in S : \A y \in S : <<y, x>> \notin {p \in Nat \X Nat : p[1] < p[2]}
  BY LessIsWellFounded, WFMin
<1>2. ASSUME NEW y \in S, y < x PROVE FALSE
  <2>1. <<y, x>> \in Nat \X Nat /\ <<y, x>>[1] < <<y, x>>[2]
    BY <1>2
  <2> QED
    BY <1>1, <2>1
<1>3. \A y \in S : x <= y
  BY <1>2
<1> QED
  BY <1>3 DEF Min

LEMMA GreatestOf ==
    ASSUME NEW n \in Nat, NEW S \in SUBSET (0..n), S # {}
    PROVE  \E x \in S : \A y \in S : y <= x
<1> DEFINE T == {m \in 0..n : n - m \in S}
<1>1. T \in SUBSET Nat /\ T # {}
  <2>1. PICK x \in S : TRUE
    OBVIOUS
  <2>2. n - x \in T
    <3>1. n - x \in 0..n /\ n - (n - x) = x
      OBVIOUS
    <3> QED
      BY <3>1
  <2> QED
    BY <2>2, T \in SUBSET (0..n), 0..n \subseteq Nat
<1>2. Min(T) \in T /\ \A m \in T : Min(T) <= m
  BY <1>1, LeastOf
<1>3. ASSUME NEW y \in S PROVE y <= n - Min(T)
  <2>1. n - y \in T
    <3>1. n - y \in 0..n /\ n - (n - y) = y
      OBVIOUS
    <3> QED
      BY <3>1
  <2> QED
    BY <2>1, <1>2
<1> QED
  BY <1>2, <1>3

-----------------------------------------------------------------------------
(* What is arranged by an order: everything once, each in its place. *)

Orders(R, P) ==
    /\ \A x \in P : <<x, x>> \notin R
    /\ \A x, y, z \in P : <<x, y>> \in R /\ <<y, z>> \in R => <<x, z>> \in R
    /\ \A x, y \in P : x # y => <<x, y>> \in R \/ <<y, x>> \in R

Earlier(x, P, R) == {y \in P : <<y, x>> \in R}
Rank(x, P, R)    == Cardinality(Earlier(x, P, R))

LEMMA RankInRange ==
    ASSUME NEW P, IsFiniteSet(P), NEW R, Orders(R, P), NEW x \in P
    PROVE  IsFiniteSet(Earlier(x, P, R)) /\ Rank(x, P, R) \in 0..(Cardinality(P) - 1)
<1>1. Earlier(x, P, R) \subseteq P \ {x}
  BY DEF Earlier, Orders
<1>2. IsFiniteSet(P \ {x}) /\ Cardinality(P \ {x}) = Cardinality(P) - 1
  BY FS_RemoveElement
<1>3. /\ IsFiniteSet(Earlier(x, P, R))
      /\ Cardinality(Earlier(x, P, R)) <= Cardinality(P \ {x})
  BY <1>1, <1>2, FS_Subset
<1>4. Cardinality(Earlier(x, P, R)) \in Nat /\ Cardinality(P) \in Nat
  BY <1>3, FS_CardinalityType
<1> QED
  BY <1>2, <1>3, <1>4 DEF Rank

LEMMA RankGrows ==
    ASSUME NEW P, IsFiniteSet(P), NEW R, Orders(R, P),
           NEW x \in P, NEW y \in P, <<x, y>> \in R
    PROVE  Rank(x, P, R) < Rank(y, P, R)
<1>1. IsFiniteSet(Earlier(y, P, R)) /\ IsFiniteSet(Earlier(x, P, R))
  BY RankInRange
<1>2. Earlier(x, P, R) \subseteq Earlier(y, P, R)
  BY DEF Earlier, Orders
<1>3. Earlier(x, P, R) # Earlier(y, P, R)
  BY DEF Earlier, Orders
<1>4. Cardinality(Earlier(x, P, R)) < Cardinality(Earlier(y, P, R))
  <2>1. Cardinality(Earlier(x, P, R)) <= Cardinality(Earlier(y, P, R))
    BY <1>1, <1>2, FS_Subset
  <2>2. Cardinality(Earlier(x, P, R)) # Cardinality(Earlier(y, P, R))
    BY <1>1, <1>2, <1>3, FS_Subset
  <2>3. Cardinality(Earlier(x, P, R)) \in Nat /\ Cardinality(Earlier(y, P, R)) \in Nat
    BY <1>1, FS_CardinalityType
  <2> QED
    BY <2>1, <2>2, <2>3
<1> QED
  BY <1>4 DEF Rank

LEMMA RankOnce ==
    ASSUME NEW P, IsFiniteSet(P), NEW R, Orders(R, P),
           NEW x \in P, NEW y \in P, Rank(x, P, R) = Rank(y, P, R)
    PROVE  x = y
<1>1. Rank(x, P, R) \in Int
  BY RankInRange
<1>2. CASE <<x, y>> \in R
  BY <1>1, <1>2, RankGrows
<1>3. CASE <<y, x>> \in R
  BY <1>1, <1>3, RankGrows
<1> QED
  BY <1>2, <1>3 DEF Orders

\* Every rank is taken: the ranks are as many as the elements.
LEMMA RankTaken ==
    ASSUME NEW P, IsFiniteSet(P), NEW R, Orders(R, P), NEW n \in 1..Cardinality(P)
    PROVE  \E x \in P : Rank(x, P, R) = n - 1
<1> DEFINE places == 1..Cardinality(P)
           place  == [x \in P |-> Rank(x, P, R) + 1]
<1>0. Cardinality(P) \in Nat
  BY FS_CardinalityType
<1>1. \A x \in P : Rank(x, P, R) \in Int /\ Rank(x, P, R) + 1 \in places
  BY <1>0, RankInRange
<1>2. place \in [P -> places]
  BY <1>1
<1>3. place \in Injection(P, places)
  <2>1. \A x, y \in P : place[x] = place[y] => x = y
    BY <1>1, RankOnce
  <2> QED
    BY <1>2, <2>1 DEF Injection, IsInjective
<1>4. IsFiniteSet(places) /\ Cardinality(places) = Cardinality(P)
  <2>1. \A k \in Nat : IsFiniteSet(1..k) /\ Cardinality(1..k) = k
    BY FS_Interval
  <2> QED
    BY <1>0, <2>1
<1>5. place \in Surjection(P, places)
  BY <1>3, <1>4, FS_Injection
<1>6. \E x \in P : place[x] = n
  BY <1>5 DEF Surjection
<1> QED
  BY <1>1, <1>6

\* Sequence a shows the records of s at the positions P, each once, in the order R.
Arranges(a, s, P, R) ==
    \E pos \in [1..Len(a) -> P] :
        /\ \A n \in 1..Len(a) : a[n] = s[pos[n]]
        /\ \A x \in P : \E n \in 1..Len(a) : pos[n] = x
        /\ \A m, n \in 1..Len(a) : m < n => <<pos[m], pos[n]>> \in R

LEMMA ArrangedInOrder ==
    ASSUME NEW E, NEW s, NEW P, IsFiniteSet(P), NEW R, Orders(R, P), \A i \in P : s[i] \in E
    PROVE  /\ Arranged(s, P, R) \in Seq(E)
           /\ Arranges(Arranged(s, P, R), s, P, R)
<1> DEFINE N   == Cardinality(P)
           pos == [n \in 1..N |-> CHOOSE x \in P : Rank(x, P, R) = n - 1]
           arr == [n \in 1..N |-> s[pos[n]]]
<1>0. N \in Nat
  BY FS_CardinalityType
<1>1. \A n \in 1..N : pos[n] \in P /\ Rank(pos[n], P, R) = n - 1
  BY RankTaken
<1>2. pos \in [1..N -> P]
  BY <1>1
<1>3. \A x \in P : \E n \in 1..N : pos[n] = x
  <2> SUFFICES ASSUME NEW x \in P PROVE \E n \in 1..N : pos[n] = x
    OBVIOUS
  <2>1. Rank(x, P, R) + 1 \in 1..N /\ Rank(x, P, R) \in Int
    BY <1>0, RankInRange
  <2>2. Rank(pos[Rank(x, P, R) + 1], P, R) = Rank(x, P, R)
    BY <2>1, <1>1
  <2> QED
    BY <2>1, <2>2, <1>1, RankOnce
<1>4. ASSUME NEW m \in 1..N, NEW n \in 1..N, m < n
      PROVE  <<pos[m], pos[n]>> \in R
  <2>1. Rank(pos[m], P, R) = m - 1 /\ Rank(pos[n], P, R) = n - 1 /\ pos[m] \in P /\ pos[n] \in P
    BY <1>1
  <2>2. pos[m] # pos[n]
    BY <2>1, <1>4
  <2>3. CASE <<pos[n], pos[m]>> \in R
    <3>1. n - 1 < m - 1
      BY <2>1, <2>3, RankGrows
    <3> QED
      BY <3>1, <1>4
  <2> QED
    BY <2>1, <2>2, <2>3 DEF Orders
<1>5. arr \in [1..N -> E]
  BY <1>1
<1>6. arr \in Seq(E) /\ Len(arr) = N
  <2>1. \A n \in Nat : \A q \in [1..n -> E] : q \in Seq(E) /\ Len(q) = n
    OBVIOUS
  <2> HIDE DEF arr, N
  <2> QED
    BY <1>0, <1>5, <2>1
<1>7. <<>> \o arr = arr
  BY <1>6
<1>8. Arranged(s, P, R) = arr
  BY <1>7 DEF Arranged, Rank, Earlier
<1>9. \A n \in 1..N : arr[n] = s[pos[n]]
  OBVIOUS
<1> HIDE DEF arr, pos, N
<1> QED
  BY <1>2, <1>3, <1>4, <1>6, <1>8, <1>9 DEF Arranges

-----------------------------------------------------------------------------
(* Lots, and the sequences that list them in time. *)

Distinct(E) == \A x, y \in E : x.id = y.id => x = y

Lot(E) == E \subseteq Record /\ IsFiniteSet(E) /\ Distinct(E)

Ascending(t, E) ==
    /\ t \in Seq(E)
    /\ \A x \in E : \E i \in 1..Len(t) : t[i] = x
    /\ \A i, j \in 1..Len(t) : i < j => Before(t[i], t[j])

LEMMA BeforeOrders ==
    ASSUME NEW E, E \subseteq Record, Distinct(E)
    PROVE  /\ \A x \in E : ~Before(x, x)
           /\ \A x, y, z \in E : Before(x, y) /\ Before(y, z) => Before(x, z)
           /\ \A x, y \in E : x # y => Before(x, y) \/ Before(y, x)
<1>1. \A x \in E : x.id \in Int /\ x.at \in Int
  BY DEF Record
<1> QED
  BY <1>1 DEF Before, Distinct

LEMMA LotOf ==
    ASSUME NEW E, Lot(E), NEW G \in SUBSET E
    PROVE  Lot(G)
BY FS_Subset DEF Lot, Distinct

\* A sequence of records with ids of their own, sorted, lists them in time.
LEMMA SortedAscends ==
    ASSUME NEW s \in Seq(Record), \A i, j \in 1..Len(s) : s[i].id = s[j].id => i = j
    PROVE  Lot(Entries(s)) /\ Ascending(sortRecordsByTime(s), Entries(s))
<1> DEFINE P == 1..Len(s)
           E == Entries(s)
           R == {p \in P \X P : Before(s[p[1]], s[p[2]])}
<1>1. P = DOMAIN s /\ Len(s) \in Nat
  OBVIOUS
<1>2. IsFiniteSet(P)
  BY <1>1, FS_Interval
<1>3. E \subseteq Record /\ (\A i \in P : s[i] \in E) /\ (\A x \in E : \E i \in P : x = s[i])
  BY DEF Entries
<1>4. Distinct(E)
  BY <1>3 DEF Distinct
<1>5. IsFiniteSet(E)
  <2> DEFINE f == [i \in P |-> s[i]]
  <2>1. f \in Surjection(P, E)
    BY <1>3 DEF Surjection
  <2> QED
    BY <2>1, <1>2, FS_Surjection
<1>6. \A i, j \in P : <<i, j>> \in R <=> Before(s[i], s[j])
  OBVIOUS
<1>7. Orders(R, P)
  <2>1. \A i, j \in P : i # j => s[i] # s[j]
    OBVIOUS
  <2> HIDE DEF R, P, E
  <2> QED
    BY <1>3, <1>4, <1>6, <2>1, BeforeOrders DEF Orders
<1>8. sortRecordsByTime(s) = Arranged(s, P, R)
  BY <1>1 DEF sortRecordsByTime
<1> HIDE DEF R, E, P
<1>9. Arranged(s, P, R) \in Seq(E) /\ Arranges(Arranged(s, P, R), s, P, R)
  BY <1>2, <1>3, <1>7, ArrangedInOrder
<1>10. Ascending(Arranged(s, P, R), E)
  <2> DEFINE a == Arranged(s, P, R)
  <2> HIDE DEF a
  <2>1. PICK pos \in [1..Len(a) -> P] :
            /\ \A n \in 1..Len(a) : a[n] = s[pos[n]]
            /\ \A x \in P : \E n \in 1..Len(a) : pos[n] = x
            /\ \A m, n \in 1..Len(a) : m < n => <<pos[m], pos[n]>> \in R
    BY <1>9 DEF Arranges, a
  <2>2. \A x \in E : \E i \in 1..Len(a) : a[i] = x
    BY <1>3, <2>1
  <2>3. ASSUME NEW i \in 1..Len(a), NEW j \in 1..Len(a), i < j PROVE Before(a[i], a[j])
    <3>1. pos[i] \in P /\ pos[j] \in P /\ <<pos[i], pos[j]>> \in R
      BY <2>1, <2>3
    <3> QED
      BY <3>1, <1>6, <2>1
  <2> QED
    BY <1>9, <2>2, <2>3 DEF Ascending, a
<1> QED
  BY <1>3, <1>4, <1>5, <1>8, <1>10 DEF E, Lot

\* A group of an ascending list ascends.
LEMMA ThoseAscend ==
    ASSUME NEW E, NEW t, Lot(E), Ascending(t, E), NEW G \in SUBSET E
    PROVE  Ascending(Those(t, G), G)
<1> DEFINE P == {i \in 1..Len(t) : t[i] \in G}
           R == {p \in P \X P : p[1] < p[2]}
           a == Arranged(t, P, R)
<1>1. DOMAIN t = 1..Len(t) /\ Len(t) \in Nat
  BY DEF Ascending
<1>2. IsFiniteSet(P)
  <2>1. IsFiniteSet(1..Len(t)) /\ P \in SUBSET (1..Len(t))
    BY <1>1, FS_Interval
  <2> QED
    BY <2>1, FS_Subset
<1>3. \A i, j \in P : <<i, j>> \in R <=> i < j
  OBVIOUS
<1>4. Those(t, G) = a
  BY <1>1 DEF Those
<1>5. P \subseteq 1..Len(t) /\ P \subseteq Int /\ \A i \in P : t[i] \in G
  OBVIOUS
<1>6. \A x \in G : \E i \in P : t[i] = x
  BY DEF Ascending
<1> HIDE DEF P, R
<1>7. Orders(R, P)
  BY <1>3, <1>5 DEF Orders
<1>8. a \in Seq(G) /\ Arranges(a, t, P, R)
  BY <1>2, <1>5, <1>7, ArrangedInOrder
<1> HIDE DEF a
<1>9. PICK pos \in [1..Len(a) -> P] :
          /\ \A n \in 1..Len(a) : a[n] = t[pos[n]]
          /\ \A x \in P : \E n \in 1..Len(a) : pos[n] = x
          /\ \A m, n \in 1..Len(a) : m < n => <<pos[m], pos[n]>> \in R
  BY <1>8 DEF Arranges
<1>10. \A x \in G : \E i \in 1..Len(a) : a[i] = x
  BY <1>6, <1>9
<1>11. ASSUME NEW i \in 1..Len(a), NEW j \in 1..Len(a), i < j PROVE Before(a[i], a[j])
  <2>1. pos[i] \in P /\ pos[j] \in P /\ <<pos[i], pos[j]>> \in R
    BY <1>9, <1>11
  <2>2. pos[i] < pos[j] /\ pos[i] \in 1..Len(t) /\ pos[j] \in 1..Len(t)
    BY <2>1, <1>3, <1>5
  <2> QED
    BY <2>2, <1>9 DEF Ascending
<1> QED
  BY <1>4, <1>8, <1>10, <1>11 DEF Ascending

LEMMA CountedOnce ==
    ASSUME NEW n \in Nat, NEW T, NEW f \in [1..n -> T],
           \A x \in T : \E i \in 1..n : f[i] = x,
           \A i, j \in 1..n : f[i] = f[j] => i = j
    PROVE  IsFiniteSet(T) /\ Cardinality(T) = n
<1>1. IsFiniteSet(1..n) /\ Cardinality(1..n) = n
  BY FS_Interval
<1>2. f \in Surjection(1..n, T)
  BY DEF Surjection
<1>3. f \in Injection(1..n, T)
  BY DEF Injection, IsInjective
<1> QED
  BY <1>1, <1>2, <1>3, FS_Surjection

\* The order of a lot in time.
InTime(E) == {p \in E \X E : Before(p[1], p[2])}

LEMMA InTimeOrders ==
    ASSUME NEW E, Lot(E)
    PROVE  /\ Orders(InTime(E), E)
           /\ \A x, y \in E : <<x, y>> \in InTime(E) <=> Before(x, y)
<1>1. \A x, y \in E : <<x, y>> \in InTime(E) <=> Before(x, y)
  BY DEF InTime
<1> QED
  BY <1>1, BeforeOrders DEF Orders, Lot

LEMMA AscendingBasics ==
    ASSUME NEW E, NEW t, Lot(E), Ascending(t, E)
    PROVE  /\ Len(t) \in Nat /\ DOMAIN t = 1..Len(t)
           /\ \A i \in 1..Len(t) : t[i] \in E
           /\ \A i, j \in 1..Len(t) : Before(t[i], t[j]) <=> i < j
           /\ \A i, j \in 1..Len(t) : t[i] = t[j] => i = j
<1>1. Len(t) \in Nat /\ DOMAIN t = 1..Len(t) /\ \A i \in 1..Len(t) : t[i] \in E
  BY DEF Ascending
<1>2. \A i, j \in 1..Len(t) : i < j => Before(t[i], t[j])
  BY DEF Ascending
<1>3. \A i, j \in 1..Len(t) : i < j \/ j < i \/ i = j
  BY <1>1
<1>4. \A x, y \in E : ~(Before(x, y) /\ Before(y, x)) /\ ~Before(x, x)
  BY BeforeOrders DEF Lot
<1> QED
  BY <1>1, <1>2, <1>3, <1>4

LEMMA PlaceIsRank ==
    ASSUME NEW E, NEW t, Lot(E), Ascending(t, E)
    PROVE  /\ Len(t) = Cardinality(E)
           /\ \A i \in 1..Len(t) : Rank(t[i], E, InTime(E)) = i - 1
<1>1. /\ Len(t) \in Nat /\ DOMAIN t = 1..Len(t)
      /\ \A i \in 1..Len(t) : t[i] \in E
      /\ \A i, j \in 1..Len(t) : Before(t[i], t[j]) <=> i < j
      /\ \A i, j \in 1..Len(t) : t[i] = t[j] => i = j
  BY AscendingBasics
<1>2. \A x \in E : \E i \in 1..Len(t) : t[i] = x
  BY DEF Ascending
<1>3. Len(t) = Cardinality(E)
  <2>1. t \in [1..Len(t) -> E]
    BY DEF Ascending
  <2> QED
    BY <1>1, <1>2, <2>1, CountedOnce
<1>4. ASSUME NEW i \in 1..Len(t) PROVE Rank(t[i], E, InTime(E)) = i - 1
  <2> DEFINE T == Earlier(t[i], E, InTime(E))
             f == [k \in 1..(i - 1) |-> t[k]]
  <2>1. \A y \in E : y \in T <=> Before(y, t[i])
    BY <1>1, InTimeOrders DEF Earlier
  <2>2. f \in [1..(i - 1) -> T]
    BY <1>1, <2>1
  <2>3. \A x \in T : \E k \in 1..(i - 1) : f[k] = x
    <3> SUFFICES ASSUME NEW x \in T PROVE \E k \in 1..(i - 1) : f[k] = x
      OBVIOUS
    <3>1. x \in E /\ Before(x, t[i])
      BY <2>1 DEF Earlier
    <3>2. PICK k \in 1..Len(t) : t[k] = x
      BY <3>1, <1>2
    <3>3. k < i
      BY <3>1, <3>2, <1>1
    <3> QED
      BY <3>2, <3>3
  <2>4. \A j, k \in 1..(i - 1) : f[j] = f[k] => j = k
    BY <1>1
  <2>5. i - 1 \in Nat
    OBVIOUS
  <2> HIDE DEF f, T
  <2>6. Cardinality(T) = i - 1
    BY <2>2, <2>3, <2>4, <2>5, CountedOnce
  <2> QED
    BY <2>6 DEF Rank, T
<1> QED
  BY <1>3, <1>4

\* A lot has one ascending list.
LEMMA AscendingIsUnique ==
    ASSUME NEW E, NEW t, NEW u, Lot(E), Ascending(t, E), Ascending(u, E)
    PROVE  t = u
<1>1. Len(t) = Len(u)
  BY PlaceIsRank
<1>2. ASSUME NEW i \in 1..Len(t) PROVE t[i] = u[i]
  <2>1. t[i] \in E /\ u[i] \in E
    BY <1>1, AscendingBasics
  <2>2. Rank(t[i], E, InTime(E)) = Rank(u[i], E, InTime(E))
    BY <1>1, PlaceIsRank
  <2>3. IsFiniteSet(E) /\ Orders(InTime(E), E)
    BY InTimeOrders DEF Lot
  <2> QED
    BY <2>1, <2>2, <2>3, RankOnce
<1>3. t \in Seq(E) /\ u \in Seq(E)
  BY DEF Ascending
<1> QED
  BY <1>1, <1>2, <1>3, SeqEqual

-----------------------------------------------------------------------------
(* The windows of a sliding pass. *)

\* The records of E that the window of x holds: none after x, none too early.
WindowOf(E, x, w) == {y \in E : (y = x \/ Before(y, x)) /\ x.at - y.at <= w}

\* The starts of the windows, as Slices defines them.
Starting(f, t, w) ==
    f = [i \in 0..Len(t) |->
            IF i = 0 THEN 1 ELSE Min({k \in f[i - 1]..i : t[i].at - t[k].at <= w})]

Near(t, i, w) == {k \in 1..i : t[i].at - t[k].at <= w}

\* Where the windows start, said of each alone.
Starts(t, w) == [i \in 0..Len(t) |-> IF i = 0 THEN 1 ELSE Min(Near(t, i, w))]

LEMMA TimesAscend ==
    ASSUME NEW E, NEW t, Lot(E), Ascending(t, E)
    PROVE  /\ \A i \in 1..Len(t) : t[i].at \in Int
           /\ \A i, j \in 1..Len(t) : i <= j => t[i].at <= t[j].at
<1>1. \A i \in 1..Len(t) : t[i].at \in Int
  BY AscendingBasics DEF Lot, Record
<1>2. ASSUME NEW i \in 1..Len(t), NEW j \in 1..Len(t), i < j PROVE t[i].at <= t[j].at
  <2>1. Before(t[i], t[j])
    BY <1>2 DEF Ascending
  <2> QED
    BY <1>1, <2>1 DEF Before
<1>3. \A i, j \in 1..Len(t) : i <= j => i = j \/ i < j
  BY AscendingBasics
<1> QED
  BY <1>1, <1>2, <1>3

LEMMA NearIsInterval ==
    ASSUME NEW E, NEW t, Lot(E), Ascending(t, E), NEW w \in Nat, NEW i \in 1..Len(t)
    PROVE  /\ Min(Near(t, i, w)) \in 1..i
           /\ \A k \in 1..i : t[i].at - t[k].at <= w <=> Min(Near(t, i, w)) <= k
<1> DEFINE N == Near(t, i, w)
<1>0. Len(t) \in Nat
  BY AscendingBasics
<1>1. N \in SUBSET (1..i) /\ N \in SUBSET Nat
  BY DEF Near
<1>2. i \in N
  BY <1>0, TimesAscend DEF Near
<1>3. Min(N) \in N /\ \A k \in N : Min(N) <= k
  BY <1>1, <1>2, LeastOf
<1>4. ASSUME NEW k \in 1..i, Min(N) <= k PROVE t[i].at - t[k].at <= w
  <2>1. Min(N) \in 1..Len(t) /\ k \in 1..Len(t)
    BY <1>0, <1>1, <1>3
  <2>2. t[Min(N)].at <= t[k].at
    BY <2>1, <1>4, TimesAscend
  <2>3. t[i].at - t[Min(N)].at <= w
    BY <1>3 DEF Near
  <2>4. t[i].at \in Int /\ t[Min(N)].at \in Int /\ t[k].at \in Int
    BY <2>1, TimesAscend
  <2> QED
    BY <2>2, <2>3, <2>4
<1>5. \A k \in 1..i : t[i].at - t[k].at <= w => k \in N
  BY DEF Near
<1> QED
  BY <1>1, <1>3, <1>4, <1>5

\* The window of a record starts no earlier than the window before it.
LEMMA StartsMoveForward ==
    ASSUME NEW E, NEW t, Lot(E), Ascending(t, E), NEW w \in Nat, NEW i \in 1..Len(t)
    PROVE  /\ Starts(t, w)[i - 1] \in 1..i
           /\ {k \in Starts(t, w)[i - 1]..i : t[i].at - t[k].at <= w} = Near(t, i, w)
<1>0. Len(t) \in Nat
  BY AscendingBasics
<1>1. CASE i = 1
  <2>1. Starts(t, w)[i - 1] = 1
    BY <1>0, <1>1 DEF Starts
  <2> QED
    BY <1>1, <2>1 DEF Near
<1>2. CASE i > 1
  <2> DEFINE m == Min(Near(t, i - 1, w))
  <2>1. Starts(t, w)[i - 1] = m
    BY <1>0, <1>2 DEF Starts
  <2>2. i - 1 \in 1..Len(t)
    BY <1>0, <1>2
  <2>3. m \in 1..(i - 1) /\ \A k \in 1..(i - 1) : t[i - 1].at - t[k].at <= w <=> m <= k
    BY <2>2, NearIsInterval
  <2> HIDE DEF m
  <2>4. ASSUME NEW k \in Near(t, i, w) PROVE m <= k
    <3>1. k \in 1..i /\ t[i].at - t[k].at <= w
      BY DEF Near
    <3>2. CASE k = i
      BY <3>2, <2>3
    <3>3. CASE k \in 1..(i - 1)
      <4>1. t[i - 1].at <= t[i].at /\ t[i - 1].at \in Int /\ t[i].at \in Int /\ t[k].at \in Int
        BY <1>0, <2>2, <3>3, TimesAscend
      <4>2. t[i - 1].at - t[k].at <= w
        BY <3>1, <4>1
      <4> QED
        BY <2>3, <3>3, <4>2
    <3> QED
      BY <3>1, <3>2, <3>3
  <2>5. {k \in m..i : t[i].at - t[k].at <= w} = Near(t, i, w)
    BY <2>3, <2>4 DEF Near
  <2> QED
    BY <2>1, <2>3, <2>5
<1> QED
  BY <1>1, <1>2

LEMMA StartsAreStarting ==
    ASSUME NEW E, NEW t, Lot(E), Ascending(t, E), NEW w \in Nat
    PROVE  Starting(Starts(t, w), t, w)
<1> DEFINE g == Starts(t, w)
<1>1. \A i \in 1..Len(t) : {k \in g[i - 1]..i : t[i].at - t[k].at <= w} = Near(t, i, w)
  BY StartsMoveForward
<1>2. \A i \in 0..Len(t) : i = 0 \/ i \in 1..Len(t)
  BY AscendingBasics
<1> HIDE DEF g
<1>3. g = [i \in 0..Len(t) |-> IF i = 0 THEN 1 ELSE Min(Near(t, i, w))]
  BY DEF g, Starts
<1> QED
  BY <1>1, <1>2, <1>3 DEF Starting, g

\* The equation of Slices has one solution, by a least counterexample.
LEMMA StartingIsStarts ==
    ASSUME NEW E, NEW t, Lot(E), Ascending(t, E), NEW w \in Nat, NEW f, Starting(f, t, w)
    PROVE  f = Starts(t, w)
<1> DEFINE g   == Starts(t, w)
           bad == {i \in 0..Len(t) : f[i] # g[i]}
<1>0. Len(t) \in Nat
  BY AscendingBasics
<1>1. f = [i \in 0..Len(t) |->
              IF i = 0 THEN 1 ELSE Min({k \in f[i - 1]..i : t[i].at - t[k].at <= w})]
  BY DEF Starting
<1>2. g = [i \in 0..Len(t) |-> IF i = 0 THEN 1 ELSE Min(Near(t, i, w))]
  BY DEF Starts
<1>3. bad = {}
  <2> SUFFICES ASSUME bad # {} PROVE FALSE
    OBVIOUS
  <2> DEFINE m == Min(bad)
  <2>1. bad \in SUBSET Nat
    OBVIOUS
  <2>2. m \in bad /\ \A i \in bad : m <= i
    BY <2>1, LeastOf
  <2> HIDE DEF m
  <2>3. f[m] # g[m] /\ m \in 0..Len(t)
    BY <2>2
  <2> HIDE DEF g
  <2>4. m # 0
    <3>1. f[0] = 1 /\ g[0] = 1
      BY <1>0, <1>1, <1>2
    <3> QED
      BY <2>3, <3>1
  <2>5. m \in 1..Len(t) /\ m - 1 \in 0..Len(t) /\ ~(m <= m - 1)
    BY <1>0, <2>3, <2>4
  <2>6. f[m - 1] = g[m - 1]
    BY <2>2, <2>5
  <2>7. f[m] = Min({k \in f[m - 1]..m : t[m].at - t[k].at <= w})
    BY <1>1, <2>3, <2>4
  <2>8. g[m] = Min(Near(t, m, w))
    BY <1>2, <2>3, <2>4
  <2>9. {k \in g[m - 1]..m : t[m].at - t[k].at <= w} = Near(t, m, w)
    BY <2>5, StartsMoveForward DEF g
  <2> QED
    BY <2>3, <2>6, <2>7, <2>8, <2>9
<1> HIDE DEF g
<1>4. \A i \in 0..Len(t) : f[i] = g[i]
  BY <1>3
<1>5. f = [i \in 0..Len(t) |-> f[i]] /\ g = [i \in 0..Len(t) |-> g[i]]
  BY <1>1, <1>2
<1> QED
  BY <1>4, <1>5 DEF g

\* What Slices is: the window of each record.
LEMMA SlicesAreWindows ==
    ASSUME NEW E, NEW t, Lot(E), Ascending(t, E), NEW w \in Nat
    PROVE  Slices(t, w) = [i \in 1..Len(t) |-> WindowOf(E, t[i], w)]
<1> DEFINE start == CHOOSE f : f = [i \in 0..Len(t) |->
                IF i = 0 THEN 1 ELSE Min({k \in f[i - 1]..i : t[i].at - t[k].at <= w})]
<1>1. Slices(t, w) = [i \in DOMAIN t |-> {t[k] : k \in start[i]..i}]
  BY Zenon DEF Slices
<1>2. start = CHOOSE f : Starting(f, t, w)
  BY Zenon DEF Starting
<1> HIDE DEF start
<1>3. start = Starts(t, w)
  BY <1>2, StartsAreStarting, StartingIsStarts
<1>4. Len(t) \in Nat /\ DOMAIN t = 1..Len(t)
  BY AscendingBasics
<1>5. ASSUME NEW i \in 1..Len(t)
      PROVE  {t[k] : k \in start[i]..i} = WindowOf(E, t[i], w)
  <2>1. start[i] = Min(Near(t, i, w))
    BY <1>3, <1>4 DEF Starts
  <2>2. start[i] \in 1..i /\ \A k \in 1..i : t[i].at - t[k].at <= w <=> start[i] <= k
    BY <2>1, NearIsInterval
  <2>3. \A k \in start[i]..i : k \in 1..i /\ start[i] <= k /\ k \in 1..Len(t)
    BY <1>4, <2>2
  <2>4. ASSUME NEW k \in start[i]..i PROVE t[k] \in WindowOf(E, t[i], w)
    <3>1. t[k] \in E /\ t[i].at - t[k].at <= w
      BY <2>2, <2>3, AscendingBasics
    <3>2. k = i \/ k < i
      BY <2>3
    <3>3. t[k] = t[i] \/ Before(t[k], t[i])
      BY <2>3, <3>2, AscendingBasics
    <3> QED
      BY <3>1, <3>3 DEF WindowOf
  <2>5. ASSUME NEW y \in WindowOf(E, t[i], w) PROVE \E k \in start[i]..i : t[k] = y
    <3>1. y \in E /\ (y = t[i] \/ Before(y, t[i])) /\ t[i].at - y.at <= w
      BY DEF WindowOf
    <3>2. PICK k \in 1..Len(t) : t[k] = y
      BY <3>1 DEF Ascending
    <3>3. k = i \/ k < i
      BY <3>1, <3>2, AscendingBasics
    <3>4. k \in 1..i /\ start[i] <= k
      BY <2>2, <3>1, <3>2, <3>3
    <3> QED
      BY <2>2, <3>2, <3>4
  <2> QED
    BY <2>4, <2>5
<1> QED
  BY <1>1, <1>4, <1>5

-----------------------------------------------------------------------------
(* What the passes find. *)

\* A pass slides over the ascending list of its group.
LEMMA PassIsWindows ==
    ASSUME NEW E, NEW t, Lot(E), Ascending(t, E), NEW G \in SUBSET E, NEW w \in Nat
    PROVE  \E u : Ascending(u, G) /\ Pass(t, G, w) = [i \in 1..Len(u) |-> WindowOf(G, u[i], w)]
<1>1. Lot(G)
  BY LotOf
<1>2. Ascending(Those(t, G), G)
  BY ThoseAscend
<1>3. Slices(Those(t, G), w) = [i \in 1..Len(Those(t, G)) |-> WindowOf(G, Those(t, G)[i], w)]
  BY <1>1, <1>2, SlicesAreWindows
<1> QED
  BY <1>2, <1>3 DEF Pass

LEMMA WindowIsTogether ==
    ASSUME NEW G, Lot(G), NEW w \in Nat, NEW x \in G
    PROVE  /\ WindowOf(G, x, w) \in SUBSET G /\ x \in WindowOf(G, x, w)
           /\ Together(WindowOf(G, x, w), w)
<1>1. \A y \in G : y.at \in Int
  BY DEF Lot, Record
<1>2. x \in WindowOf(G, x, w) /\ WindowOf(G, x, w) \in SUBSET G
  BY <1>1 DEF WindowOf
<1>3. ASSUME NEW a \in WindowOf(G, x, w), NEW b \in WindowOf(G, x, w) PROVE a.at - b.at <= w
  <2>1. a.at <= x.at /\ x.at - b.at <= w
    BY <1>1 DEF WindowOf, Before
  <2>2. a.at \in Int /\ b.at \in Int /\ x.at \in Int
    BY <1>1 DEF WindowOf
  <2> QED
    BY <2>1, <2>2
<1> QED
  BY <1>2, <1>3 DEF Together

\* Records that are close together are in the window of the last of them.
LEMMA LastWindowHolds ==
    ASSUME NEW G, Lot(G), NEW t, Ascending(t, G), NEW w \in Nat,
           NEW g \in SUBSET G, g # {}, Together(g, w)
    PROVE  \E i \in 1..Len(t) : t[i] \in g /\ g \subseteq WindowOf(G, t[i], w)
<1> DEFINE S == {i \in 1..Len(t) : t[i] \in g}
<1>0. Len(t) \in Nat
  BY AscendingBasics
<1>1. S \in SUBSET (0..Len(t)) /\ S # {}
  BY <1>0 DEF Ascending
<1>2. PICK i \in S : \A j \in S : j <= i
  BY <1>0, <1>1, GreatestOf
<1>3. ASSUME NEW y \in g PROVE y \in WindowOf(G, t[i], w)
  <2>1. PICK j \in 1..Len(t) : t[j] = y
    BY DEF Ascending
  <2>2. j <= i
    BY <1>2, <2>1
  <2>3. j = i \/ j < i
    BY <1>0, <2>2
  <2>4. y = t[i] \/ Before(y, t[i])
    BY <2>1, <2>3, AscendingBasics
  <2>5. t[i].at - y.at <= w
    BY DEF Together
  <2> QED
    BY <2>4, <2>5 DEF WindowOf
<1> QED
  BY <1>3

LEMMA BestOf ==
    ASSUME NEW n \in Nat \ {0}, NEW sl, DOMAIN sl = 1..n,
           \A i \in 1..n : IsFiniteSet(sl[i])
    PROVE  \E i \in 1..n : /\ Best(sl) = sl[i]
                          /\ \A j \in 1..n : Cardinality(sl[j]) <= Cardinality(sl[i])
<1> DEFINE size(i) == Cardinality(sl[i])
           above   == {m \in Nat : \A j \in 1..n : size(j) <= m}
           S       == {i \in DOMAIN sl : \A j \in DOMAIN sl : size(j) <= size(i)}
<1>1. \A i \in 1..n : size(i) \in Nat
  BY FS_CardinalityType
<1>2. above # {}
  <2> DEFINE U == UNION {sl[i] : i \in 1..n}
  <2>1. IsFiniteSet(U)
    <3>1. IsFiniteSet(1..n)
      BY FS_Interval
    <3> DEFINE F == {sl[i] : i \in 1..n}
               f == [i \in 1..n |-> sl[i]]
    <3>2. f \in Surjection(1..n, F)
      BY DEF Surjection
    <3>3. IsFiniteSet(F)
      BY <3>1, <3>2, FS_Surjection
    <3>4. \A T \in F : IsFiniteSet(T)
      OBVIOUS
    <3> HIDE DEF F, f
    <3>5. IsFiniteSet(UNION F)
      BY <3>3, <3>4, FS_UNION
    <3> QED
      BY <3>5 DEF F
  <2>2. ASSUME NEW i \in 1..n PROVE size(i) <= Cardinality(U)
    <3>1. sl[i] \in SUBSET U
      OBVIOUS
    <3> QED
      BY <2>1, <3>1, FS_Subset
  <2>3. Cardinality(U) \in Nat
    BY <2>1, FS_CardinalityType
  <2> HIDE DEF U
  <2> QED
    BY <2>2, <2>3
<1>3. Min(above) \in above /\ \A m \in above : Min(above) <= m
  <2>1. above \in SUBSET Nat
    OBVIOUS
  <2> HIDE DEF above
  <2> QED
    BY <1>2, <2>1, LeastOf
<1>4. S # {}
  <2> SUFFICES ASSUME S = {} PROVE FALSE
    OBVIOUS
  <2> DEFINE m == Min(above)
  <2>1. m \in Nat /\ \A j \in 1..n : size(j) <= m
    BY <1>3
  <2> HIDE DEF m
  <2>2. \A j \in 1..n : size(j) # m
    BY <1>1, <2>1
  <2>3. \A j \in 1..n : size(j) <= m - 1
    BY <1>1, <2>1, <2>2
  <2>4. m - 1 \in Nat
    <3>1. 1 \in 1..n
      OBVIOUS
    <3>2. size(1) \in Nat /\ size(1) <= m - 1
      BY <1>1, <2>3, <3>1
    <3> QED
      BY <2>1, <3>2
  <2>5. m - 1 \in above
    BY <2>3, <2>4
  <2>6. m <= m - 1
    BY <1>3, <2>5 DEF m
  <2> QED
    BY <2>1, <2>6
<1>5. S \in SUBSET (1..n)
  OBVIOUS
<1>6. Min(S) \in S
  <2>1. S \in SUBSET Nat
    BY <1>5
  <2> HIDE DEF S
  <2> QED
    BY <1>4, <2>1, LeastOf
<1>7. Best(sl) = sl[Min(S)]
  BY DEF Best
<1> QED
  BY <1>5, <1>6, <1>7

LEMMA WindowFits ==
    ASSUME NEW G, Lot(G), NEW x \in G, NEW w \in Nat
    PROVE  /\ IsFiniteSet(WindowOf(G, x, w)) /\ WindowOf(G, x, w) \in SUBSET G
           /\ Together(WindowOf(G, x, w), w)
<1>1. WindowOf(G, x, w) \in SUBSET G
  BY DEF WindowOf
<1>2. IsFiniteSet(WindowOf(G, x, w))
  BY <1>1, FS_Subset DEF Lot
<1>3. Together(WindowOf(G, x, w), w)
  BY WindowIsTogether
<1> QED
  BY <1>1, <1>2, <1>3

\* The best window of a pass is a largest set of records of the group that are
\* close together.
LEMMA BestIsLargest ==
    ASSUME NEW E, NEW t, Lot(E), Ascending(t, E), NEW G \in SUBSET E, G # {}, NEW w \in Nat
    PROVE  /\ Best(Pass(t, G, w)) \in SUBSET G
           /\ Together(Best(Pass(t, G, w)), w)
           /\ \A g \in SUBSET G : Together(g, w) =>
                  Cardinality(g) <= Cardinality(Best(Pass(t, G, w)))
<1>1. Lot(G)
  BY LotOf
<1>2. PICK u : Ascending(u, G) /\ Pass(t, G, w) = [i \in 1..Len(u) |-> WindowOf(G, u[i], w)]
  BY PassIsWindows
<1> DEFINE sl == Pass(t, G, w)
           n  == Len(u)
<1>3. n \in Nat /\ \A i \in 1..n : u[i] \in G
  BY <1>1, <1>2, AscendingBasics
<1>4. n # 0
  BY <1>2 DEF Ascending
<1>5. \A i \in 1..n : sl[i] = WindowOf(G, u[i], w)
  BY <1>2
<1>6. \A i \in 1..n : IsFiniteSet(sl[i]) /\ sl[i] \in SUBSET G /\ Together(sl[i], w)
  <2> SUFFICES ASSUME NEW i \in 1..n
               PROVE  IsFiniteSet(sl[i]) /\ sl[i] \in SUBSET G /\ Together(sl[i], w)
    OBVIOUS
  <2>1. u[i] \in G /\ sl[i] = WindowOf(G, u[i], w)
    BY <1>3, <1>5
  <2> QED
    BY <1>1, <2>1, WindowFits
<1>7. DOMAIN sl = 1..n
  BY <1>2
<1> HIDE DEF sl, n
<1>8. PICK i \in 1..n : /\ Best(sl) = sl[i]
                        /\ \A j \in 1..n : Cardinality(sl[j]) <= Cardinality(sl[i])
  BY <1>3, <1>4, <1>6, <1>7, BestOf
<1>9. ASSUME NEW g \in SUBSET G, Together(g, w) PROVE Cardinality(g) <= Cardinality(sl[i])
  <2>1. \A j \in 1..n : Cardinality(sl[j]) \in Nat
    BY <1>6, FS_CardinalityType
  <2>2. CASE g = {}
    <3>1. Cardinality(g) = 0
      BY <2>2, FS_EmptySet
    <3> QED
      BY <2>1, <3>1
  <2>3. CASE g # {}
    <3>1. PICK j \in 1..n : g \subseteq WindowOf(G, u[j], w)
      BY <1>1, <1>2, <1>9, <2>3, LastWindowHolds DEF n
    <3>2. g \in SUBSET sl[j] /\ IsFiniteSet(sl[j])
      BY <1>5, <1>6, <3>1
    <3>3. Cardinality(g) <= Cardinality(sl[j]) /\ Cardinality(g) \in Nat
      BY <3>2, FS_Subset, FS_CardinalityType
    <3>4. Cardinality(sl[j]) <= Cardinality(sl[i])
      BY <1>8
    <3> QED
      BY <2>1, <3>3, <3>4
  <2> QED
    BY <2>2, <2>3
<1> QED
  BY <1>6, <1>8, <1>9 DEF sl

\* The windows of a pass: parts of the group that are close together, and any two
\* records that are close share one.
LEMMA PassWindows ==
    ASSUME NEW E, NEW t, Lot(E), Ascending(t, E), NEW G \in SUBSET E, NEW w \in Nat
    PROVE  /\ \A j \in DOMAIN Pass(t, G, w) :
                  /\ Pass(t, G, w)[j] \in SUBSET G /\ IsFiniteSet(Pass(t, G, w)[j])
                  /\ Together(Pass(t, G, w)[j], w)
           /\ \A x, y \in G : Together({x, y}, w) =>
                  \E j \in DOMAIN Pass(t, G, w) : {x, y} \subseteq Pass(t, G, w)[j]
<1>1. Lot(G)
  BY LotOf
<1>2. PICK u : Ascending(u, G) /\ Pass(t, G, w) = [i \in 1..Len(u) |-> WindowOf(G, u[i], w)]
  BY PassIsWindows
<1> DEFINE sl == Pass(t, G, w)
<1>3. \A i \in 1..Len(u) : u[i] \in G
  BY <1>1, <1>2, AscendingBasics
<1>4. DOMAIN sl = 1..Len(u) /\ \A i \in 1..Len(u) : sl[i] = WindowOf(G, u[i], w)
  BY <1>2
<1> HIDE DEF sl
<1>5. \A i \in 1..Len(u) : IsFiniteSet(sl[i]) /\ sl[i] \in SUBSET G /\ Together(sl[i], w)
  <2> SUFFICES ASSUME NEW i \in 1..Len(u)
               PROVE  IsFiniteSet(sl[i]) /\ sl[i] \in SUBSET G /\ Together(sl[i], w)
    OBVIOUS
  <2>1. u[i] \in G /\ sl[i] = WindowOf(G, u[i], w)
    BY <1>3, <1>4
  <2> QED
    BY <1>1, <2>1, WindowFits
<1>6. ASSUME NEW x \in G, NEW y \in G, Together({x, y}, w)
      PROVE  \E j \in DOMAIN sl : {x, y} \subseteq sl[j]
  <2>1. {x, y} \in SUBSET G /\ {x, y} # {}
    OBVIOUS
  <2>2. PICK j \in 1..Len(u) : {x, y} \subseteq WindowOf(G, u[j], w)
    BY <1>1, <1>2, <1>6, <2>1, LastWindowHolds
  <2> QED
    BY <1>4, <2>2
<1> QED
  BY <1>4, <1>5, <1>6 DEF sl

LEMMA TwoOrMore ==
    ASSUME NEW S, IsFiniteSet(S)
    PROVE  Cardinality(S) >= 2 <=> \E x, y \in S : x # y
<1>1. Cardinality(S) \in Nat
  BY FS_CardinalityType
<1>2. Cardinality(S) = 0 <=> S = {}
  BY FS_EmptySet
<1>3. Cardinality(S) = 1 <=> \E x : S = {x}
  BY FS_Singleton
<1>4. (\E x, y \in S : x # y) <=> ~(S = {} \/ \E x : S = {x})
  OBVIOUS
<1> QED
  BY <1>1, <1>2, <1>3, <1>4

LEMMA NamesAreFinite ==
    ASSUME NEW G, IsFiniteSet(G)
    PROVE  IsFiniteSet(Jurisdictions(G)) /\ IsFiniteSet(Users(G))
<1>1. IsFiniteSet(Jurisdictions(G))
  <2> DEFINE f == [r \in G |-> r.jurisdiction]
  <2>1. f \in Surjection(G, Jurisdictions(G))
    BY DEF Surjection, Jurisdictions
  <2> QED
    BY <2>1, FS_Surjection
<1>2. IsFiniteSet(Users(G))
  <2> DEFINE U == {r.user : r \in G}
             f == [r \in G |-> r.user]
  <2>1. f \in Surjection(G, U)
    BY DEF Surjection
  <2>2. IsFiniteSet(U)
    BY <2>1, FS_Surjection
  <2>3. Users(G) \in SUBSET U
    BY DEF Users
  <2> QED
    BY <2>2, <2>3, FS_Subset
<1> QED
  BY <1>1, <1>2

LEMMA EntriesOfList ==
    ASSUME NEW E, NEW t, Lot(E), Ascending(t, E)
    PROVE  Entries(t) = E
<1>1. DOMAIN t = 1..Len(t) /\ \A i \in 1..Len(t) : t[i] \in E
  BY AscendingBasics
<1> QED
  BY <1>1 DEF Ascending, Entries

-----------------------------------------------------------------------------
(* What a lot warrants, by detector. *)

RepeatKeys(E) ==
    {<<r.plate, r.type>> : r \in {x \in E : x.plate # Blank /\
        \E g \in SUBSET OfType(E, <<x.plate, x.type>>) :
            Together(g, D7) /\ Cardinality(g) >= Repeats}}

ChainingPlates(E) ==
    {r.plate : r \in {x \in E : x.plate # Blank /\
        \E y \in E : y.plate = x.plate /\ y.jurisdiction # x.jurisdiction
                     /\ Together({x, y}, D30)}}

SpikeEntities(E) ==
    {n \in Entities(E) :
        \E g \in SUBSET OfEntity(E, n) : Together(g, H24) /\ Cardinality(g) >= Burst}

CollusionPlates(E) ==
    {r.plate : r \in {x \in E : x.plate # Blank /\ x.user # Blank /\
        \E y \in E : y.plate = x.plate /\ y.user \notin {x.user, Blank}
                     /\ Together({x, y}, D7)}}

LEMMA RepeatsExact ==
    ASSUME NEW E, NEW t, Lot(E), Ascending(t, E), NEW graph
    PROVE  detectHighFrequencyRepeats(t, graph) =
               {RepeatSignal(t, graph, k) : k \in RepeatKeys(E)}
<1>0. D7 \in Nat /\ Repeats \in Nat /\ Entries(t) = E
  BY FraudAssumption, EntriesOfList
<1>1. ASSUME NEW x \in E
      PROVE  Cardinality(RepeatBest(t, <<x.plate, x.type>>)) >= Repeats <=>
                 \E g \in SUBSET OfType(E, <<x.plate, x.type>>) :
                     Together(g, D7) /\ Cardinality(g) >= Repeats
  <2> DEFINE G == OfType(E, <<x.plate, x.type>>)
             b == Best(Pass(t, G, D7))
  <2>1. G \in SUBSET E /\ G # {}
    BY DEF OfType
  <2>2. b = RepeatBest(t, <<x.plate, x.type>>)
    BY <1>0 DEF RepeatBest
  <2> HIDE DEF G, b
  <2>3. /\ b \in SUBSET G /\ Together(b, D7)
        /\ \A g \in SUBSET G : Together(g, D7) => Cardinality(g) <= Cardinality(b)
    BY <1>0, <2>1, BestIsLargest DEF b
  <2>4. \A g \in SUBSET G : Cardinality(g) \in Nat
    BY <2>1, FS_Subset, FS_CardinalityType DEF Lot
  <2> QED
    BY <1>0, <2>2, <2>3, <2>4 DEF G
<1> QED
  BY <1>0, <1>1 DEF detectHighFrequencyRepeats, RepeatKeys

LEMMA SpikesExact ==
    ASSUME NEW E, NEW t, Lot(E), Ascending(t, E), NEW graph
    PROVE  detectTemporalClusterSpikes(t, graph) =
               {SpikeSignal(t, graph, n) : n \in SpikeEntities(E)}
<1>0. H24 \in Nat /\ Burst \in Nat /\ Entries(t) = E
  BY FraudAssumption, EntriesOfList
<1>1. ASSUME NEW n \in Entities(E)
      PROVE  Cardinality(SpikeBest(t, n)) >= Burst <=>
                 \E g \in SUBSET OfEntity(E, n) : Together(g, H24) /\ Cardinality(g) >= Burst
  <2> DEFINE G == OfEntity(E, n)
             b == Best(Pass(t, G, H24))
  <2>1. G \in SUBSET E /\ G # {}
    BY DEF OfEntity, Entities, Plates, Users
  <2>2. b = SpikeBest(t, n)
    BY <1>0 DEF SpikeBest
  <2> HIDE DEF G, b
  <2>3. /\ b \in SUBSET G /\ Together(b, H24)
        /\ \A g \in SUBSET G : Together(g, H24) => Cardinality(g) <= Cardinality(b)
    BY <1>0, <2>1, BestIsLargest DEF b
  <2>4. \A g \in SUBSET G : Cardinality(g) \in Nat
    BY <2>1, FS_Subset, FS_CardinalityType DEF Lot
  <2> QED
    BY <1>0, <2>2, <2>3, <2>4 DEF G
<1> QED
  BY <1>0, <1>1 DEF detectTemporalClusterSpikes, SpikeEntities

LEMMA ChainingExact ==
    ASSUME NEW E, NEW t, Lot(E), Ascending(t, E), NEW graph
    PROVE  /\ \A p \in ChainingPlates(E) : Crossings(ChainingPass(t, p)) # {}
           /\ detectCrossJurisdictionChaining(t, graph) =
                  {ChainingSignal(t, graph, p) : p \in ChainingPlates(E)}
<1>0. D30 \in Nat /\ Entries(t) = E
  BY FraudAssumption, EntriesOfList
<1>1. ASSUME NEW p
      PROVE  Crossings(ChainingPass(t, p)) # {} <=>
                 \E x, y \in OfPlate(E, p) :
                     x.jurisdiction # y.jurisdiction /\ Together({x, y}, D30)
  <2> DEFINE G == OfPlate(E, p)
             sl == Pass(t, G, D30)
  <2>1. G \in SUBSET E
    BY DEF OfPlate
  <2>2. sl = ChainingPass(t, p)
    BY <1>0 DEF ChainingPass
  <2> HIDE DEF G
  <2>3. /\ \A j \in DOMAIN sl : sl[j] \in SUBSET G /\ IsFiniteSet(sl[j]) /\ Together(sl[j], D30)
        /\ \A x, y \in G : Together({x, y}, D30) => \E j \in DOMAIN sl : {x, y} \subseteq sl[j]
    BY <1>0, <2>1, PassWindows
  <2> HIDE DEF sl
  <2>4. \A j \in DOMAIN sl : j \in Crossings(sl) <=>
            \E x, y \in sl[j] : x.jurisdiction # y.jurisdiction
    <3> SUFFICES ASSUME NEW j \in DOMAIN sl
                 PROVE  j \in Crossings(sl) <=> \E x, y \in sl[j] : x.jurisdiction # y.jurisdiction
      OBVIOUS
    <3>1. j \in Crossings(sl) <=> \E a, b \in Jurisdictions(sl[j]) : a # b
      BY <2>3, NamesAreFinite, TwoOrMore DEF Crossings
    <3> QED
      BY <3>1 DEF Jurisdictions
  <2>5. Crossings(sl) \subseteq DOMAIN sl
    BY DEF Crossings
  <2>6. ASSUME NEW j \in Crossings(sl)
        PROVE  \E x, y \in G : x.jurisdiction # y.jurisdiction /\ Together({x, y}, D30)
    <3>1. PICK x \in sl[j], y \in sl[j] : x.jurisdiction # y.jurisdiction
      BY <2>4, <2>5
    <3>2. x \in G /\ y \in G /\ Together({x, y}, D30)
      BY <2>3, <2>5 DEF Together
    <3> QED
      BY <3>1, <3>2
  <2>7. ASSUME NEW x \in G, NEW y \in G, x.jurisdiction # y.jurisdiction, Together({x, y}, D30)
        PROVE  Crossings(sl) # {}
    <3>1. PICK j \in DOMAIN sl : x \in sl[j] /\ y \in sl[j]
      BY <2>3, <2>7
    <3> QED
      BY <2>4, <2>7, <3>1
  <2> QED
    BY <2>2, <2>6, <2>7 DEF G
<1>2. ChainingPlates(E) = {p \in Plates(E) : Crossings(ChainingPass(t, p)) # {}}
  <2>1. ASSUME NEW p \in ChainingPlates(E)
        PROVE  p \in Plates(E) /\ Crossings(ChainingPass(t, p)) # {}
    <3>1. PICK x \in E : /\ x.plate = p /\ x.plate # Blank
                         /\ \E y \in E : y.plate = x.plate /\ y.jurisdiction # x.jurisdiction
                                         /\ Together({x, y}, D30)
      BY DEF ChainingPlates
    <3>2. \E a, b \in OfPlate(E, p) : a.jurisdiction # b.jurisdiction /\ Together({a, b}, D30)
      BY <3>1 DEF OfPlate
    <3> QED
      BY <1>1, <3>1, <3>2 DEF Plates
  <2>2. ASSUME NEW p \in Plates(E), Crossings(ChainingPass(t, p)) # {}
        PROVE  p \in ChainingPlates(E)
    <3>1. PICK x \in OfPlate(E, p), y \in OfPlate(E, p) :
              x.jurisdiction # y.jurisdiction /\ Together({x, y}, D30)
      BY <1>1, <2>2
    <3> QED
      BY <3>1 DEF OfPlate, Plates, ChainingPlates
  <2> QED
    BY <2>1, <2>2
<1> QED
  BY <1>0, <1>2 DEF detectCrossJurisdictionChaining

LEMMA CollusionExact ==
    ASSUME NEW E, NEW t, Lot(E), Ascending(t, E), NEW graph
    PROVE  detectSharedEntityCollusion(t, graph) =
               {CollusionSignal(t, graph, p) : p \in CollusionPlates(E)}
<1>0. D7 \in Nat /\ Entries(t) = E
  BY FraudAssumption, EntriesOfList
<1>1. ASSUME NEW p
      PROVE  Colluding(Pass(t, Signed(E, p), D7)) <=>
                 \E x, y \in Signed(E, p) : x.user # y.user /\ Together({x, y}, D7)
  <2> DEFINE G == Signed(E, p)
             sl == Pass(t, G, D7)
  <2>1. G \in SUBSET E /\ \A r \in G : r.user # Blank
    BY DEF Signed
  <2> HIDE DEF G
  <2>2. /\ \A j \in DOMAIN sl : sl[j] \in SUBSET G /\ IsFiniteSet(sl[j]) /\ Together(sl[j], D7)
        /\ \A x, y \in G : Together({x, y}, D7) => \E j \in DOMAIN sl : {x, y} \subseteq sl[j]
    BY <1>0, <2>1, PassWindows
  <2> HIDE DEF sl
  <2>3. ASSUME NEW j \in DOMAIN sl
        PROVE  Cardinality(Users(sl[j])) >= 2 <=> \E x, y \in sl[j] : x.user # y.user
    <3>1. Cardinality(Users(sl[j])) >= 2 <=> \E a, b \in Users(sl[j]) : a # b
      BY <2>2, NamesAreFinite, TwoOrMore
    <3>2. \A r \in sl[j] : r.user # Blank
      BY <2>1, <2>2
    <3> QED
      BY <3>1, <3>2 DEF Users
  <2>4. ASSUME NEW j \in DOMAIN sl, Cardinality(Users(sl[j])) >= 2
        PROVE  \E x, y \in G : x.user # y.user /\ Together({x, y}, D7)
    <3>1. PICK x \in sl[j], y \in sl[j] : x.user # y.user
      BY <2>3, <2>4
    <3>2. x \in G /\ y \in G /\ Together({x, y}, D7)
      BY <2>2 DEF Together
    <3> QED
      BY <3>1, <3>2
  <2>5. ASSUME NEW x \in G, NEW y \in G, x.user # y.user, Together({x, y}, D7)
        PROVE  Colluding(sl)
    <3>1. PICK j \in DOMAIN sl : x \in sl[j] /\ y \in sl[j]
      BY <2>2, <2>5
    <3> QED
      BY <2>3, <2>5, <3>1 DEF Colluding
  <2> QED
    BY <2>4, <2>5 DEF G, sl, Colluding
<1>2. CollusionPlates(E) =
        {p \in Plates(E) : Colluding(Pass(t, Signed(E, p), D7))}
  <2>1. ASSUME NEW p \in CollusionPlates(E)
        PROVE  p \in Plates(E) /\ Colluding(Pass(t, Signed(E, p), D7))
    <3>1. PICK x \in E : /\ x.plate = p /\ x.plate # Blank /\ x.user # Blank
                         /\ \E y \in E : y.plate = x.plate /\ y.user \notin {x.user, Blank}
                                         /\ Together({x, y}, D7)
      BY DEF CollusionPlates
    <3>2. \E a, b \in Signed(E, p) : a.user # b.user /\ Together({a, b}, D7)
      BY <3>1 DEF Signed
    <3> QED
      BY <1>1, <3>1, <3>2 DEF Plates
  <2>2. ASSUME NEW p \in Plates(E), Colluding(Pass(t, Signed(E, p), D7))
        PROVE  p \in CollusionPlates(E)
    <3>1. PICK x \in Signed(E, p), y \in Signed(E, p) : x.user # y.user /\ Together({x, y}, D7)
      BY <1>1, <2>2
    <3> QED
      BY <3>1 DEF Signed, Plates, CollusionPlates
  <2> QED
    BY <2>1, <2>2
<1> QED
  BY <1>0, <1>2 DEF detectSharedEntityCollusion

-----------------------------------------------------------------------------
(* How severe the signals are. *)

LEMMA ClampIs ==
    ASSUME NEW x \in Int
    PROVE  Clamp(x) = IF x < 0 THEN 0 ELSE IF x > 100 THEN 100 ELSE x
<1>1. Min({100, x}) = IF x > 100 THEN 100 ELSE x
  BY DEF Min
<1>2. \A y \in Int : Max({0, y}) = IF y < 0 THEN 0 ELSE y
  BY DEF Max
<1> QED
  BY <1>1, <1>2 DEF Clamp

LEMMA ClampGrows ==
    ASSUME NEW x \in Int, NEW y \in Int, x <= y
    PROVE  Clamp(x) \in Int /\ Clamp(y) \in Int /\ Clamp(x) <= Clamp(y)
BY ClampIs

LEMMA SeverityGrows ==
    ASSUME NEW m \in Nat, NEW n \in Nat, NEW h \in Nat, m <= n
    PROVE  /\ severityFromCount(m, h) \in Int /\ severityFromCount(n, h) \in Int
           /\ severityFromCount(m, h) <= severityFromCount(n, h)
<1>1. 40 + 15 * (m - h + 1) \in Int /\ 40 + 15 * (n - h + 1) \in Int
      /\ 40 + 15 * (m - h + 1) <= 40 + 15 * (n - h + 1)
  OBVIOUS
<1>2. Clamp(40 + 15 * (m - h + 1)) <= Clamp(40 + 15 * (n - h + 1))
  BY <1>1, ClampGrows
<1>3. /\ Clamp(40 + 15 * (m - h + 1)) \in Int /\ Clamp(40 + 15 * (n - h + 1)) \in Int
      /\ 0 <= Clamp(40 + 15 * (n - h + 1))
  BY <1>1, ClampIs
<1>4. m < h => severityFromCount(m, h) = 0
  BY DEF severityFromCount
<1>5. m >= h => severityFromCount(m, h) = Clamp(40 + 15 * (m - h + 1))
  BY DEF severityFromCount
<1>6. n < h => severityFromCount(n, h) = 0
  BY DEF severityFromCount
<1>7. n >= h => severityFromCount(n, h) = Clamp(40 + 15 * (n - h + 1))
  BY DEF severityFromCount
<1> QED
  BY <1>2, <1>3, <1>4, <1>5, <1>6, <1>7

\* More records in a group never make its best window shorter.
LEMMA BestGrows ==
    ASSUME NEW E, NEW t, Lot(E), Ascending(t, E), NEW F, NEW u, Lot(F), Ascending(u, F),
           NEW G \in SUBSET E, G # {}, NEW H \in SUBSET F, G \subseteq H, NEW w \in Nat
    PROVE  /\ Cardinality(Best(Pass(t, G, w))) \in Nat
           /\ Cardinality(Best(Pass(u, H, w))) \in Nat
           /\ Cardinality(Best(Pass(t, G, w))) <= Cardinality(Best(Pass(u, H, w)))
<1>1. Best(Pass(t, G, w)) \in SUBSET G /\ Together(Best(Pass(t, G, w)), w)
  BY BestIsLargest
<1>2. H # {}
  OBVIOUS
<1>3. /\ Best(Pass(u, H, w)) \in SUBSET H
      /\ \A g \in SUBSET H : Together(g, w) =>
             Cardinality(g) <= Cardinality(Best(Pass(u, H, w)))
  BY <1>2, BestIsLargest
<1>4. IsFiniteSet(Best(Pass(t, G, w))) /\ IsFiniteSet(Best(Pass(u, H, w)))
  BY <1>1, <1>3, FS_Subset DEF Lot
<1> QED
  BY <1>1, <1>3, <1>4, FS_CardinalityType

LEMMA RepeatSeverity ==
    ASSUME NEW E, NEW t, Lot(E), Ascending(t, E), NEW F, NEW u, Lot(F), Ascending(u, F),
           E \subseteq F, NEW k \in RepeatKeys(E), NEW g, NEW h
    PROVE  /\ k \in RepeatKeys(F)
           /\ RepeatSignal(t, g, k).severity \in Int /\ RepeatSignal(u, h, k).severity \in Int
           /\ RepeatSignal(t, g, k).severity <= RepeatSignal(u, h, k).severity
<1>0. D7 \in Nat /\ Repeats \in Nat /\ Entries(t) = E /\ Entries(u) = F
  BY FraudAssumption, EntriesOfList
<1>1. OfType(E, k) \in SUBSET E /\ OfType(F, k) \in SUBSET F /\ OfType(E, k) \subseteq OfType(F, k)
  BY DEF OfType
<1>2. OfType(E, k) # {}
  BY DEF OfType, RepeatKeys
<1>3. RepeatBest(t, k) = Best(Pass(t, OfType(E, k), D7))
      /\ RepeatBest(u, k) = Best(Pass(u, OfType(F, k), D7))
  BY <1>0 DEF RepeatBest
<1>4. /\ Cardinality(RepeatBest(t, k)) \in Nat /\ Cardinality(RepeatBest(u, k)) \in Nat
      /\ Cardinality(RepeatBest(t, k)) <= Cardinality(RepeatBest(u, k))
  BY <1>0, <1>1, <1>2, <1>3, BestGrows
<1>5. RepeatSignal(t, g, k).severity = severityFromCount(Cardinality(RepeatBest(t, k)), Repeats)
  BY DEF RepeatSignal, Signal
<1>6. RepeatSignal(u, h, k).severity = severityFromCount(Cardinality(RepeatBest(u, k)), Repeats)
  BY DEF RepeatSignal, Signal
<1>7. k \in RepeatKeys(F)
  <2>1. PICK x \in E : /\ k = <<x.plate, x.type>> /\ x.plate # Blank
                       /\ \E c \in SUBSET OfType(E, <<x.plate, x.type>>) :
                              Together(c, D7) /\ Cardinality(c) >= Repeats
    BY DEF RepeatKeys
  <2> QED
    BY <1>1, <2>1 DEF RepeatKeys
<1> QED
  BY <1>0, <1>4, <1>5, <1>6, <1>7, SeverityGrows

LEMMA SpikeSeverity ==
    ASSUME NEW E, NEW t, Lot(E), Ascending(t, E), NEW F, NEW u, Lot(F), Ascending(u, F),
           E \subseteq F, NEW n \in SpikeEntities(E), NEW g, NEW h
    PROVE  /\ n \in SpikeEntities(F)
           /\ SpikeSignal(t, g, n).severity \in Int /\ SpikeSignal(u, h, n).severity \in Int
           /\ SpikeSignal(t, g, n).severity <= SpikeSignal(u, h, n).severity
<1>0. H24 \in Nat /\ Burst \in Nat /\ Entries(t) = E /\ Entries(u) = F
  BY FraudAssumption, EntriesOfList
<1>1. /\ OfEntity(E, n) \in SUBSET E /\ OfEntity(F, n) \in SUBSET F
      /\ OfEntity(E, n) \subseteq OfEntity(F, n)
  BY DEF OfEntity
<1>2. n \in Entities(E) /\ n \in Entities(F)
  BY DEF SpikeEntities, Entities, Plates, Users
<1>3. OfEntity(E, n) # {}
  BY <1>2 DEF OfEntity, Entities, Plates, Users
<1>4. SpikeBest(t, n) = Best(Pass(t, OfEntity(E, n), H24))
      /\ SpikeBest(u, n) = Best(Pass(u, OfEntity(F, n), H24))
  BY <1>0 DEF SpikeBest
<1>5. /\ Cardinality(SpikeBest(t, n)) \in Nat /\ Cardinality(SpikeBest(u, n)) \in Nat
      /\ Cardinality(SpikeBest(t, n)) <= Cardinality(SpikeBest(u, n))
  BY <1>0, <1>1, <1>3, <1>4, BestGrows
<1>6. SpikeSignal(t, g, n).severity = severityFromCount(Cardinality(SpikeBest(t, n)), Burst)
  BY DEF SpikeSignal, Signal
<1>7. SpikeSignal(u, h, n).severity = severityFromCount(Cardinality(SpikeBest(u, n)), Burst)
  BY DEF SpikeSignal, Signal
<1>8. n \in SpikeEntities(F)
  <2>1. PICK c \in SUBSET OfEntity(E, n) : Together(c, H24) /\ Cardinality(c) >= Burst
    BY DEF SpikeEntities
  <2> QED
    BY <1>1, <1>2, <2>1 DEF SpikeEntities
<1> QED
  BY <1>0, <1>5, <1>6, <1>7, <1>8, SeverityGrows

LEMMA CollusionSeverity ==
    ASSUME NEW E, NEW t, Lot(E), Ascending(t, E), NEW F, NEW u, Lot(F), Ascending(u, F),
           E \subseteq F, NEW p \in CollusionPlates(E), NEW g, NEW h
    PROVE  /\ p \in CollusionPlates(F)
           /\ CollusionSignal(t, g, p).severity \in Int /\ CollusionSignal(u, h, p).severity \in Int
           /\ CollusionSignal(t, g, p).severity <= CollusionSignal(u, h, p).severity
<1>0. Entries(t) = E /\ Entries(u) = F
  BY EntriesOfList
<1> DEFINE m == Cardinality(Users(Signed(E, p)))
           n == Cardinality(Users(Signed(F, p)))
<1>1. IsFiniteSet(Users(Signed(E, p))) /\ IsFiniteSet(Users(Signed(F, p)))
  <2>1. Signed(E, p) \in SUBSET E /\ Signed(F, p) \in SUBSET F
    BY DEF Signed
  <2>2. IsFiniteSet(Signed(E, p)) /\ IsFiniteSet(Signed(F, p))
    BY <2>1, FS_Subset DEF Lot
  <2> QED
    BY <2>2, NamesAreFinite
<1>2. Users(Signed(E, p)) \in SUBSET Users(Signed(F, p))
  BY DEF Users, Signed
<1>3. m \in Nat /\ n \in Nat /\ m <= n
  BY <1>1, <1>2, FS_Subset, FS_CardinalityType
<1>4. CollusionSignal(t, g, p).severity = Clamp(45 + 18 * (m - 2))
  BY <1>0 DEF CollusionSignal, Signal
<1>5. CollusionSignal(u, h, p).severity = Clamp(45 + 18 * (n - 2))
  BY <1>0 DEF CollusionSignal, Signal
<1> HIDE DEF m, n
<1>6. /\ 45 + 18 * (m - 2) \in Int /\ 45 + 18 * (n - 2) \in Int
      /\ 45 + 18 * (m - 2) <= 45 + 18 * (n - 2)
  BY <1>3
<1>7. p \in CollusionPlates(F)
  BY DEF CollusionPlates
<1> QED
  BY <1>4, <1>5, <1>6, <1>7, ClampGrows

\* The window that ends the search for a chain has two jurisdictions, no more: all
\* its records but the last are in the window before it.
LEMMA ChainingSeverity ==
    ASSUME NEW E, NEW t, Lot(E), Ascending(t, E), NEW p \in ChainingPlates(E), NEW g
    PROVE  ChainingSignal(t, g, p).severity = 75
<1>0. D30 \in Nat /\ Entries(t) = E
  BY FraudAssumption, EntriesOfList
<1> DEFINE G  == OfPlate(E, p)
           sl == ChainingPass(t, p)
<1>1. G \in SUBSET E /\ sl = Pass(t, G, D30)
  BY <1>0 DEF ChainingPass, OfPlate
<1>2. Lot(G)
  BY <1>1, LotOf
<1> HIDE DEF G
<1>3. PICK v : Ascending(v, G) /\ sl = [i \in 1..Len(v) |-> WindowOf(G, v[i], D30)]
  BY <1>0, <1>1, PassIsWindows
<1>4. /\ Len(v) \in Nat
      /\ \A i \in 1..Len(v) : v[i] \in G
      /\ \A i, j \in 1..Len(v) : Before(v[i], v[j]) <=> i < j
      /\ \A i, j \in 1..Len(v) : v[i] = v[j] => i = j
      /\ \A i \in 1..Len(v) : v[i].at \in Int
      /\ \A i, j \in 1..Len(v) : i <= j => v[i].at <= v[j].at
  BY <1>2, <1>3, AscendingBasics, TimesAscend
<1>5. Crossings(sl) # {}
  BY ChainingExact
<1>6. DOMAIN sl = 1..Len(v) /\ \A i \in 1..Len(v) : sl[i] = WindowOf(G, v[i], D30)
  BY <1>3
<1> HIDE DEF sl
<1> DEFINE j == Min(Crossings(sl))
           first == sl[j]
<1>7. Crossings(sl) \in SUBSET (1..Len(v)) /\ Crossings(sl) \in SUBSET Nat
  BY <1>4, <1>6 DEF Crossings
<1>8. j \in Crossings(sl) /\ \A i \in Crossings(sl) : j <= i
  BY <1>5, <1>7, LeastOf
<1> HIDE DEF j
<1>9. j \in 1..Len(v) /\ Cardinality(Jurisdictions(first)) >= 2
  BY <1>7, <1>8 DEF Crossings
<1>10. \A i \in 1..Len(v) : IsFiniteSet(sl[i]) /\ IsFiniteSet(Jurisdictions(sl[i]))
  <2> SUFFICES ASSUME NEW i \in 1..Len(v)
               PROVE  IsFiniteSet(sl[i]) /\ IsFiniteSet(Jurisdictions(sl[i]))
    OBVIOUS
  <2>1. sl[i] \in SUBSET G
    BY <1>6 DEF WindowOf
  <2>2. IsFiniteSet(sl[i])
    BY <1>2, <2>1, FS_Subset DEF Lot
  <2> QED
    BY <2>2, NamesAreFinite
<1>11. Cardinality(Jurisdictions(first)) = 2
  <2>1. CASE j = 1
    <3>1. first \subseteq {v[1]}
      <4> SUFFICES ASSUME NEW y \in first PROVE y = v[1]
        OBVIOUS
      <4>1. y \in G /\ (y = v[1] \/ Before(y, v[1]))
        BY <1>6, <1>9, <2>1 DEF WindowOf
      <4>2. PICK i \in 1..Len(v) : v[i] = y
        BY <1>3, <4>1 DEF Ascending
      <4>3. ~Before(v[i], v[1])
        BY <1>4, <1>9, <2>1
      <4> QED
        BY <4>1, <4>2, <4>3
    <3>2. ~\E a, b \in Jurisdictions(first) : a # b
      BY <3>1 DEF Jurisdictions
    <3> QED
      BY <1>9, <1>10, <3>2, TwoOrMore
  <2>2. CASE j # 1
    <3> DEFINE before == sl[j - 1]
    <3>1. j - 1 \in 1..Len(v) /\ j - 1 \notin Crossings(sl)
      BY <1>4, <1>8, <1>9, <2>2
    <3>2. Cardinality(Jurisdictions(before)) \in Nat /\ Cardinality(Jurisdictions(before)) <= 1
      <4>1. Cardinality(Jurisdictions(before)) \in Nat
        BY <1>10, <3>1, FS_CardinalityType
      <4>2. ~(Cardinality(Jurisdictions(before)) >= 2)
        BY <1>6, <3>1 DEF Crossings
      <4> QED
        BY <4>1, <4>2
    <3>3. ASSUME NEW y \in first PROVE y = v[j] \/ y \in before
      <4>1. y \in G /\ (y = v[j] \/ Before(y, v[j])) /\ v[j].at - y.at <= D30
        BY <1>6, <1>9 DEF WindowOf
      <4>2. PICK i \in 1..Len(v) : v[i] = y
        BY <1>3, <4>1 DEF Ascending
      <4>3. CASE i < j
        <5>1. i = j - 1 \/ i < j - 1
          BY <1>9, <4>3
        <5>2. y = v[j - 1] \/ Before(y, v[j - 1])
          BY <1>4, <3>1, <4>2, <5>1
        <5>3. v[j - 1].at <= v[j].at /\ v[j].at \in Int /\ v[j - 1].at \in Int /\ y.at \in Int
          BY <1>4, <1>9, <3>1, <4>2
        <5>4. v[j - 1].at - y.at <= D30
          BY <1>0, <4>1, <5>3
        <5> QED
          BY <1>6, <3>1, <4>1, <5>2, <5>4 DEF WindowOf
      <4>4. CASE ~(i < j)
        BY <1>4, <1>9, <4>1, <4>2, <4>4
      <4> QED
        BY <4>3, <4>4
    <3> DEFINE J == Jurisdictions(before) \cup {v[j].jurisdiction}
    <3>4. Jurisdictions(first) \in SUBSET J
      BY <3>3 DEF Jurisdictions
    <3>5. IsFiniteSet(J) /\ Cardinality(J) <= 2 /\ Cardinality(J) \in Nat
      <4>1. IsFiniteSet(Jurisdictions(before))
        BY <1>10, <3>1
      <4>2. /\ IsFiniteSet(J)
            /\ \/ Cardinality(J) = Cardinality(Jurisdictions(before))
               \/ Cardinality(J) = Cardinality(Jurisdictions(before)) + 1
        BY <4>1, FS_AddElement
      <4> HIDE DEF J
      <4> QED
        BY <3>2, <4>2
    <3> HIDE DEF J
    <3>6. Cardinality(Jurisdictions(first)) <= Cardinality(J)
          /\ Cardinality(Jurisdictions(first)) \in Nat
      BY <3>4, <3>5, FS_Subset, FS_CardinalityType
    <3> QED
      BY <1>9, <3>5, <3>6
  <2> QED
    BY <2>1, <2>2
<1>12. ChainingSignal(t, g, p).severity = Clamp(35 + 20 * Cardinality(Jurisdictions(first)))
  BY DEF ChainingSignal, Signal, sl, j
<1>13. 35 + 20 * 2 = 75 /\ Clamp(75) = 75
  BY ClampIs
<1> QED
  BY <1>11, <1>12, <1>13

-----------------------------------------------------------------------------
(* The signals of a run, before and after they are merged. *)

Found(t) ==
    LET graph == buildFraudGraph(t)
    IN  detectHighFrequencyRepeats(t, graph)
        \cup detectCrossJurisdictionChaining(t, graph)
        \cup detectTemporalClusterSpikes(t, graph)
        \cup detectSharedEntityCollusion(t, graph)

IsSignal(x) ==
    /\ x = [type |-> x.type, key |-> x.key, severity |-> x.severity,
            confidence |-> x.confidence, evidence |-> x.evidence]
    /\ x.severity \in Int

\* The keys of the signals a lot warrants.
Keys(E) ==
    {<<"repeats", k>> : k \in RepeatKeys(E)}
    \cup {<<"chaining", <<p, Blank>>>> : p \in ChainingPlates(E)}
    \cup {<<"spikes", <<n, Blank>>>> : n \in SpikeEntities(E)}
    \cup {<<"collusion", <<p, Blank>>>> : p \in CollusionPlates(E)}

LEMMA WarrantedIsKeys == Warranted = Keys(Entries(batch))
<1> DEFINE E == Entries(batch)
<1>1. {<<"repeats", <<r.plate, r.type>>>> : r \in {x \in E : x.plate # Blank /\
             \E g \in {g \in SUBSET {y \in E : y.plate = x.plate /\ y.type = x.type} :
                          Together(g, D7)} : Cardinality(g) >= Repeats}}
      = {<<"repeats", k>> : k \in RepeatKeys(E)}
  <2>1. \A x \in E : {y \in E : y.plate = x.plate /\ y.type = x.type}
                       = OfType(E, <<x.plate, x.type>>)
    BY DEF OfType
  <2> HIDE DEF E
  <2> QED
    BY <2>1 DEF RepeatKeys
<1>2. {<<"chaining", <<r.plate, Blank>>>> : r \in {x \in E : x.plate # Blank /\
             \E y \in E : y.plate = x.plate /\ y.jurisdiction # x.jurisdiction
                            /\ Together({x, y}, D30)}}
      = {<<"chaining", <<p, Blank>>>> : p \in ChainingPlates(E)}
  BY DEF ChainingPlates
<1>3. {<<"spikes", <<n, Blank>>>> : n \in {m \in Entities(E) :
             \E g \in {g \in SUBSET OfEntity(E, m) : Together(g, H24)} : Cardinality(g) >= Burst}}
      = {<<"spikes", <<n, Blank>>>> : n \in SpikeEntities(E)}
  BY DEF SpikeEntities
<1>4. {<<"collusion", <<r.plate, Blank>>>> : r \in {x \in E : x.plate # Blank /\
             x.user # Blank /\ \E y \in E : y.plate = x.plate /\ y.user \notin {x.user, Blank}
                                             /\ Together({x, y}, D7)}}
      = {<<"collusion", <<p, Blank>>>> : p \in CollusionPlates(E)}
  BY DEF CollusionPlates
<1> QED
  BY <1>1, <1>2, <1>3, <1>4, Zenon DEF Warranted, Keys

\* The signals of a pass over a listed lot: which keys, and what they determine.
LEMMA FoundSignals ==
    ASSUME NEW E, NEW t, Lot(E), Ascending(t, E)
    PROVE  /\ {stableSignalKey(x) : x \in Found(t)} = Keys(E)
           /\ \A x \in Found(t) : IsSignal(x)
           /\ \A x, y \in Found(t) : stableSignalKey(x) = stableSignalKey(y) => x = y
<1> DEFINE g == buildFraudGraph(t)
           A == {RepeatSignal(t, g, k) : k \in RepeatKeys(E)}
           B == {ChainingSignal(t, g, p) : p \in ChainingPlates(E)}
           C == {SpikeSignal(t, g, n) : n \in SpikeEntities(E)}
           D == {CollusionSignal(t, g, p) : p \in CollusionPlates(E)}
<1> HIDE DEF g
<1>1. Found(t) = A \cup B \cup C \cup D
  BY RepeatsExact, ChainingExact, SpikesExact, CollusionExact DEF Found, g
<1>2. \A k \in RepeatKeys(E) :
          IsSignal(RepeatSignal(t, g, k))
          /\ stableSignalKey(RepeatSignal(t, g, k)) = <<"repeats", k>>
  BY RepeatSeverity DEF RepeatSignal, Signal, IsSignal, stableSignalKey
<1>3. \A p \in ChainingPlates(E) :
          IsSignal(ChainingSignal(t, g, p))
          /\ stableSignalKey(ChainingSignal(t, g, p)) = <<"chaining", <<p, Blank>>>>
  <2> SUFFICES ASSUME NEW p \in ChainingPlates(E)
               PROVE  IsSignal(ChainingSignal(t, g, p))
                      /\ stableSignalKey(ChainingSignal(t, g, p)) = <<"chaining", <<p, Blank>>>>
    OBVIOUS
  <2>1. ChainingSignal(t, g, p).severity \in Int
    BY ChainingSeverity
  <2> QED
    BY <2>1 DEF ChainingSignal, Signal, IsSignal, stableSignalKey
<1>4. \A n \in SpikeEntities(E) :
          IsSignal(SpikeSignal(t, g, n))
          /\ stableSignalKey(SpikeSignal(t, g, n)) = <<"spikes", <<n, Blank>>>>
  BY SpikeSeverity DEF SpikeSignal, Signal, IsSignal, stableSignalKey
<1>5. \A p \in CollusionPlates(E) :
          IsSignal(CollusionSignal(t, g, p))
          /\ stableSignalKey(CollusionSignal(t, g, p)) = <<"collusion", <<p, Blank>>>>
  BY CollusionSeverity DEF CollusionSignal, Signal, IsSignal, stableSignalKey
<1>6. \A x \in Found(t) : IsSignal(x)
  BY <1>1, <1>2, <1>3, <1>4, <1>5
<1>7. {stableSignalKey(x) : x \in Found(t)} = Keys(E)
  <2>1. \A x \in Found(t) : stableSignalKey(x) \in Keys(E)
    BY <1>1, <1>2, <1>3, <1>4, <1>5 DEF Keys
  <2>2. ASSUME NEW c \in Keys(E) PROVE \E x \in Found(t) : stableSignalKey(x) = c
    <3>1. CASE \E k \in RepeatKeys(E) : c = <<"repeats", k>>
      BY <1>1, <1>2, <3>1
    <3>2. CASE \E p \in ChainingPlates(E) : c = <<"chaining", <<p, Blank>>>>
      BY <1>1, <1>3, <3>2
    <3>3. CASE \E n \in SpikeEntities(E) : c = <<"spikes", <<n, Blank>>>>
      BY <1>1, <1>4, <3>3
    <3>4. CASE \E p \in CollusionPlates(E) : c = <<"collusion", <<p, Blank>>>>
      BY <1>1, <1>5, <3>4
    <3> QED
      BY <3>1, <3>2, <3>3, <3>4 DEF Keys
  <2> QED
    BY <2>1, <2>2
<1>8. ASSUME NEW x \in Found(t), NEW y \in Found(t), stableSignalKey(x) = stableSignalKey(y)
      PROVE  x = y
  <2>1. CASE x \in A
    BY <1>1, <1>2, <1>3, <1>4, <1>5, <1>8, <2>1
  <2>2. CASE x \in B
    BY <1>1, <1>2, <1>3, <1>4, <1>5, <1>8, <2>2
  <2>3. CASE x \in C
    BY <1>1, <1>2, <1>3, <1>4, <1>5, <1>8, <2>3
  <2>4. CASE x \in D
    BY <1>1, <1>2, <1>3, <1>4, <1>5, <1>8, <2>4
  <2> QED
    BY <1>1, <2>1, <2>2, <2>3, <2>4
<1> QED
  BY <1>6, <1>7, <1>8

\* Merging a signal that is alone under its key changes neither key nor severity.
LEMMA MergedAlone ==
    ASSUME NEW x, IsSignal(x)
    PROVE  /\ stableSignalKey(Merge({x})) = stableSignalKey(x)
           /\ Merge({x}).severity = x.severity
<1>1. (CHOOSE y \in {x} : TRUE) = x
  OBVIOUS
<1>2. {y.severity : y \in {x}} = {x.severity}
  OBVIOUS
<1>3. Max({x.severity}) = x.severity
  BY DEF Max, IsSignal
<1> DEFINE c == Max({y.confidence : y \in {x}})
           e == UNION {y.evidence : y \in {x}}
           z == [x EXCEPT !.severity = x.severity, !.confidence = c, !.evidence = e]
<1>4. Merge({x}) = z
  BY <1>1, <1>2, <1>3 DEF Merge
<1> HIDE DEF c, e
<1>5. z.type = x.type /\ z.key = x.key /\ z.severity = x.severity
  BY DEF IsSignal
<1> QED
  BY <1>4, <1>5 DEF stableSignalKey

\* What the report holds: a signal for each that was found, as severe.
Reports(signals, S) ==
    /\ \A z \in signals : \E x \in S :
           stableSignalKey(z) = stableSignalKey(x) /\ z.severity = x.severity
    /\ \A x \in S : \E z \in signals :
           stableSignalKey(z) = stableSignalKey(x) /\ z.severity = x.severity

LEMMA RunReports ==
    ASSUME NEW E, NEW t, Lot(E), Ascending(t, E)
    PROVE  /\ {stableSignalKey(z) : z \in aggregateFraudSignals(Found(t)).signals} = Keys(E)
           /\ Reports(aggregateFraudSignals(Found(t)).signals, Found(t))
<1> DEFINE S    == Found(t)
           sigs == aggregateFraudSignals(S).signals
           class(k) == {x \in S : stableSignalKey(x) = k}
<1>1. /\ {stableSignalKey(x) : x \in S} = Keys(E)
      /\ \A x \in S : IsSignal(x)
      /\ \A x, y \in S : stableSignalKey(x) = stableSignalKey(y) => x = y
  BY FoundSignals
<1> HIDE DEF S
<1>2. sigs = {Merge(class(k)) : k \in {stableSignalKey(x) : x \in S}}
  BY DEF aggregateFraudSignals
<1>3. \A x \in S : class(stableSignalKey(x)) = {x}
  BY <1>1
<1> HIDE DEF sigs, class
<1>4. \A x \in S : Merge({x}) \in sigs
  BY <1>2, <1>3
<1>5. ASSUME NEW z \in sigs PROVE \E x \in S : z = Merge({x})
  <2>1. PICK k \in {stableSignalKey(x) : x \in S} : z = Merge(class(k))
    BY <1>2
  <2>2. PICK x \in S : k = stableSignalKey(x)
    OBVIOUS
  <2> QED
    BY <1>3, <2>1, <2>2
<1>6. \A x \in S : /\ stableSignalKey(Merge({x})) = stableSignalKey(x)
                   /\ Merge({x}).severity = x.severity
  BY <1>1, MergedAlone
<1>7. {stableSignalKey(z) : z \in sigs} = {stableSignalKey(x) : x \in S}
  <2>1. ASSUME NEW z \in sigs
        PROVE  stableSignalKey(z) \in {stableSignalKey(x) : x \in S}
    <3>1. PICK x \in S : z = Merge({x})
      BY <1>5
    <3> QED
      BY <1>6, <3>1
  <2>2. ASSUME NEW x \in S
        PROVE  stableSignalKey(x) \in {stableSignalKey(z) : z \in sigs}
    <3>1. Merge({x}) \in sigs /\ stableSignalKey(Merge({x})) = stableSignalKey(x)
      BY <1>4, <1>6
    <3> QED
      BY <3>1
  <2> QED
    BY <2>1, <2>2
<1>8. Reports(sigs, S)
  BY <1>4, <1>5, <1>6 DEF Reports
<1> QED
  BY <1>1, <1>7, <1>8 DEF sigs, S

\* More fines: each signal found is found again, no less severe.
LEMMA FoundGrows ==
    ASSUME NEW E, NEW t, Lot(E), Ascending(t, E), NEW F, NEW u, Lot(F), Ascending(u, F),
           E \subseteq F, NEW x \in Found(t)
    PROVE  \E y \in Found(u) : stableSignalKey(y) = stableSignalKey(x) /\ y.severity >= x.severity
<1> DEFINE g == buildFraudGraph(t)
           h == buildFraudGraph(u)
<1> HIDE DEF g, h
<1>1. Found(t) = {RepeatSignal(t, g, k) : k \in RepeatKeys(E)}
                 \cup {ChainingSignal(t, g, p) : p \in ChainingPlates(E)}
                 \cup {SpikeSignal(t, g, n) : n \in SpikeEntities(E)}
                 \cup {CollusionSignal(t, g, p) : p \in CollusionPlates(E)}
  BY RepeatsExact, ChainingExact, SpikesExact, CollusionExact DEF Found, g
<1>2. Found(u) = {RepeatSignal(u, h, k) : k \in RepeatKeys(F)}
                 \cup {ChainingSignal(u, h, p) : p \in ChainingPlates(F)}
                 \cup {SpikeSignal(u, h, n) : n \in SpikeEntities(F)}
                 \cup {CollusionSignal(u, h, p) : p \in CollusionPlates(F)}
  BY RepeatsExact, ChainingExact, SpikesExact, CollusionExact DEF Found, h
<1>3. ASSUME NEW k \in RepeatKeys(E), x = RepeatSignal(t, g, k)
      PROVE  \E y \in Found(u) : stableSignalKey(y) = stableSignalKey(x) /\ y.severity >= x.severity
  <2>1. /\ k \in RepeatKeys(F)
        /\ x.severity \in Int /\ RepeatSignal(u, h, k).severity \in Int
        /\ x.severity <= RepeatSignal(u, h, k).severity
    BY <1>3, RepeatSeverity
  <2>2. stableSignalKey(RepeatSignal(u, h, k)) = stableSignalKey(x)
    BY <1>3 DEF RepeatSignal, Signal, stableSignalKey
  <2> QED
    BY <1>2, <2>1, <2>2
<1>4. ASSUME NEW p \in ChainingPlates(E), x = ChainingSignal(t, g, p)
      PROVE  \E y \in Found(u) : stableSignalKey(y) = stableSignalKey(x) /\ y.severity >= x.severity
  <2>1. p \in ChainingPlates(F)
    BY DEF ChainingPlates
  <2>2. x.severity = 75 /\ ChainingSignal(u, h, p).severity = 75
    BY <1>4, <2>1, ChainingSeverity
  <2>3. stableSignalKey(ChainingSignal(u, h, p)) = stableSignalKey(x)
    BY <1>4 DEF ChainingSignal, Signal, stableSignalKey
  <2> QED
    BY <1>2, <2>1, <2>2, <2>3
<1>5. ASSUME NEW n \in SpikeEntities(E), x = SpikeSignal(t, g, n)
      PROVE  \E y \in Found(u) : stableSignalKey(y) = stableSignalKey(x) /\ y.severity >= x.severity
  <2>1. /\ n \in SpikeEntities(F)
        /\ x.severity \in Int /\ SpikeSignal(u, h, n).severity \in Int
        /\ x.severity <= SpikeSignal(u, h, n).severity
    BY <1>5, SpikeSeverity
  <2>2. stableSignalKey(SpikeSignal(u, h, n)) = stableSignalKey(x)
    BY <1>5 DEF SpikeSignal, Signal, stableSignalKey
  <2> QED
    BY <1>2, <2>1, <2>2
<1>6. ASSUME NEW p \in CollusionPlates(E), x = CollusionSignal(t, g, p)
      PROVE  \E y \in Found(u) : stableSignalKey(y) = stableSignalKey(x) /\ y.severity >= x.severity
  <2>1. /\ p \in CollusionPlates(F)
        /\ x.severity \in Int /\ CollusionSignal(u, h, p).severity \in Int
        /\ x.severity <= CollusionSignal(u, h, p).severity
    BY <1>6, CollusionSeverity
  <2>2. stableSignalKey(CollusionSignal(u, h, p)) = stableSignalKey(x)
    BY <1>6 DEF CollusionSignal, Signal, stableSignalKey
  <2> QED
    BY <1>2, <2>1, <2>2
<1> QED
  BY <1>1, <1>3, <1>4, <1>5, <1>6

-----------------------------------------------------------------------------
(* The behaviours. *)

\* The lot is the first records of the pool, with dates of their own, and the
\* report is that of the lot.
FraudInv ==
    /\ pool \in Pools
    /\ batch \in Seq(Record)
    /\ Len(batch) <= Len(pool)
    /\ \A i \in 1..Len(batch) : batch[i].id = pool[i].id
    /\ report = runFraudSignalGraphEngine(batch)

LEMMA PoolType ==
    ASSUME NEW p \in Pools
    PROVE  /\ p \in Seq(Record)
           /\ \A i, j \in 1..Len(p) : p[i].id = p[j].id => i = j
<1>1. p \in Seq(Record) /\ \A i, j \in DOMAIN p : p[i].id = p[j].id => i = j
  BY FraudAssumption
<1> QED
  BY <1>1

LEMMA BatchIsLot ==
    ASSUME FraudInv
    PROVE  /\ Lot(Entries(batch))
           /\ Ascending(sortRecordsByTime(batch), Entries(batch))
<1>1. \A i, j \in 1..Len(batch) : batch[i].id = batch[j].id => i = j
  <2>1. batch \in Seq(Record) /\ pool \in Seq(Record)
    BY PoolType DEF FraudInv
  <2>2. \A i \in 1..Len(batch) : i \in 1..Len(pool) /\ batch[i].id = pool[i].id
    BY <2>1 DEF FraudInv
  <2> QED
    BY <2>2, PoolType DEF FraudInv
<1> QED
  BY <1>1, SortedAscends DEF FraudInv

LEMMA FraudFirst == FraudInit => FraudInv
BY DEF FraudInit, FraudInv

LEMMA FraudStep == FraudInv /\ [Ingest]_fraudVars => FraudInv'
<1> SUFFICES ASSUME FraudInv, [Ingest]_fraudVars PROVE FraudInv'
  OBVIOUS
<1>1. CASE Ingest
  <2> DEFINE n == Len(batch)
  <2>1. PICK at \in Times : batch' = Append(batch, [pool[n + 1] EXCEPT !.at = at])
    BY <1>1 DEF Ingest
  <2>2. batch \in Seq(Record) /\ pool \in Seq(Record) /\ n \in Nat /\ n + 1 \in 1..Len(pool)
    BY <1>1, PoolType DEF FraudInv, Ingest
  <2> DEFINE r == [pool[n + 1] EXCEPT !.at = at]
  <2>3. r \in Record /\ r.id = pool[n + 1].id
    <3>1. pool[n + 1] \in Record /\ at \in Int
      BY <2>2, FraudAssumption
    <3> QED
      BY <3>1 DEF Record
  <2> HIDE DEF r, n
  <2>4. /\ batch' \in Seq(Record) /\ Len(batch') = n + 1
        /\ \A i \in 1..n : batch'[i] = batch[i]
        /\ batch'[n + 1] = r
    BY <2>1, <2>2, <2>3 DEF r, n
  <2>5. \A i \in 1..(n + 1) : i \in 1..n \/ i = n + 1
    BY <2>2
  <2>6. \A i \in 1..Len(batch') : batch'[i].id = pool[i].id
    BY <2>3, <2>4, <2>5 DEF FraudInv, n
  <2>7. pool' = pool /\ report' = runFraudSignalGraphEngine(batch')
    BY <1>1 DEF Ingest
  <2>8. Len(batch') <= Len(pool)
    BY <2>2, <2>4
  <2> QED
    BY <2>4, <2>6, <2>7, <2>8 DEF FraudInv
<1>2. CASE UNCHANGED fraudVars
  BY <1>2 DEF FraudInv, fraudVars
<1> QED
  BY <1>1, <1>2

LEMMA FraudHolds == FraudSpec => []FraudInv
BY FraudFirst, FraudStep, PTL DEF FraudSpec

LEMMA RunIsOfFound ==
    ASSUME NEW s
    PROVE  runFraudSignalGraphEngine(s) = aggregateFraudSignals(Found(sortRecordsByTime(s)))
BY DEF runFraudSignalGraphEngine, Found

\* SignalsAreWarranted: for any windows and thresholds and any lot of records with
\* ids of their own, the sliding passes of the engine accuse exactly where the lot
\* holds fines that warrant it.
LEMMA ReportIsWarranted == FraudInv => SignalsAreWarranted
<1> SUFFICES ASSUME FraudInv PROVE SignalsAreWarranted
  OBVIOUS
<1>1. report = aggregateFraudSignals(Found(sortRecordsByTime(batch)))
  BY RunIsOfFound DEF FraudInv
<1> QED
  BY <1>1, BatchIsLot, RunReports, WarrantedIsKeys DEF SignalsAreWarranted

THEOREM SignalsAreExact == FraudSpec => []SignalsAreWarranted
BY FraudHolds, ReportIsWarranted, PTL

\* OrderIsIrrelevant: the report of a lot does not depend on the order its records
\* came in, because a lot has one list in time.
LEMMA ReportHasNoOrder == FraudInv => OrderIsIrrelevant
<1> SUFFICES ASSUME FraudInv PROVE OrderIsIrrelevant
  OBVIOUS
<1> DEFINE n == Len(batch)
           s == [i \in DOMAIN batch |-> batch[n + 1 - i]]
<1>1. batch \in Seq(Record) /\ n \in Nat /\ DOMAIN batch = 1..n
  BY DEF FraudInv
<1>2. \A i \in 1..n : n + 1 - i \in 1..n /\ n + 1 - (n + 1 - i) = i
  BY <1>1
<1>3. s \in Seq(Record) /\ Len(s) = n /\ DOMAIN s = 1..n
  <2>1. s \in [1..n -> Record]
    BY <1>1, <1>2
  <2>2. \A k \in Nat : \A q \in [1..k -> Record] : q \in Seq(Record) /\ Len(q) = k /\ DOMAIN q = 1..k
    OBVIOUS
  <2> HIDE DEF s, n
  <2> QED
    BY <1>1, <2>1, <2>2
<1>4. \A i \in 1..n : s[i] = batch[n + 1 - i]
  BY <1>1
<1> HIDE DEF s, n
<1>5. Entries(s) = Entries(batch)
  BY <1>1, <1>2, <1>3, <1>4 DEF Entries
<1>6. \A i, j \in 1..n : batch[i].id = batch[j].id => i = j
  <2>1. \A i \in 1..n : i \in 1..Len(pool) /\ batch[i].id = pool[i].id
    <3>1. Len(pool) \in Nat
      BY PoolType DEF FraudInv
    <3> QED
      BY <1>1, <3>1 DEF FraudInv, n
  <2> QED
    BY <2>1, PoolType DEF FraudInv
<1>7. ASSUME NEW i \in 1..n, NEW j \in 1..n, s[i].id = s[j].id PROVE i = j
  <2>1. n + 1 - i = n + 1 - j
    BY <1>2, <1>4, <1>6, <1>7
  <2> QED
    BY <1>1, <2>1
<1>8. Ascending(sortRecordsByTime(s), Entries(s))
  BY <1>3, <1>7, SortedAscends
<1>9. sortRecordsByTime(s) = sortRecordsByTime(batch)
  BY <1>5, <1>8, BatchIsLot, AscendingIsUnique
<1>10. runFraudSignalGraphEngine(s) = report
  BY <1>9, RunIsOfFound DEF FraudInv
<1> QED
  BY <1>10 DEF OrderIsIrrelevant, s, n

THEOREM OrderNeverShows == FraudSpec => []OrderIsIrrelevant
BY FraudHolds, ReportHasNoOrder, PTL

\* NeverCalmer: another fine, of any moment, takes no signal out of the report and
\* makes none less severe.
LEMMA IngestCalmsNothing ==
    ASSUME FraudInv, FraudInv', [Ingest]_fraudVars, NEW x \in report.signals
    PROVE  \E y \in report'.signals :
               stableSignalKey(y) = stableSignalKey(x) /\ y.severity >= x.severity
<1> DEFINE E == Entries(batch)
           F == Entries(batch')
           t == sortRecordsByTime(batch)
           u == sortRecordsByTime(batch')
<1>1. Lot(E) /\ Ascending(t, E) /\ Lot(F) /\ Ascending(u, F)
  <2>1. Lot(E) /\ Ascending(t, E)
    BY BatchIsLot
  <2>2. (Lot(Entries(batch)) /\ Ascending(sortRecordsByTime(batch), Entries(batch)))'
    BY BatchIsLot, PTL
  <2> QED
    BY <2>1, <2>2
<1>2. E \subseteq F
  <2>1. CASE Ingest
    <3>1. PICK r : batch' = Append(batch, r)
      BY <2>1 DEF Ingest
    <3>2. batch \in Seq(Record) /\ batch' \in Seq(Record)
      BY DEF FraudInv
    <3> QED
      BY <3>1, <3>2 DEF Entries
  <2>2. CASE UNCHANGED fraudVars
    BY <2>2 DEF fraudVars
  <2> QED
    BY <2>1, <2>2
<1>3. report = aggregateFraudSignals(Found(t)) /\ report' = aggregateFraudSignals(Found(u))
  BY RunIsOfFound DEF FraudInv
<1> HIDE DEF E, F, t, u
<1>4. PICK a \in Found(t) : stableSignalKey(x) = stableSignalKey(a) /\ x.severity = a.severity
  BY <1>1, <1>3, RunReports DEF Reports
<1>5. PICK b \in Found(u) : stableSignalKey(b) = stableSignalKey(a) /\ b.severity >= a.severity
  BY <1>1, <1>2, FoundGrows
<1>6. PICK y \in report'.signals : stableSignalKey(y) = stableSignalKey(b) /\ y.severity = b.severity
  BY <1>1, <1>3, RunReports DEF Reports
<1> QED
  BY <1>4, <1>5, <1>6

THEOREM AccusationsNeverCalm == FraudSpec => NeverCalmer
<1>1. FraudInv /\ FraudInv' /\ [Ingest]_fraudVars =>
        [\A x \in report.signals : \E y \in report'.signals :
            stableSignalKey(y) = stableSignalKey(x) /\ y.severity >= x.severity]_fraudVars
  BY IngestCalmsNothing
<1> QED
  BY <1>1, FraudHolds, PTL DEF FraudSpec, NeverCalmer

-----------------------------------------------------------------------------
(* What the engine and the product make of a body. *)

Answer ==
    [pais : Supported, riesgo : Riesgos, estado : Estados, recomendacion : Seq(Texts),
     decisionFlow : Lists, actionPlan : Lists, constraint : {"none", "manual_required", "malformed"}]

\* A body after sanitizeRequest.
Clean ==
    [sum : Nat, zone : {"estandar", "sensible"}, plate : {"regular", "irregular"},
     pais : Countries, role : Roles, intention : Profiles,
     notification : Notifications \cup {None}]

LEMMA SanitizedIsClean == ASSUME NEW r \in Request PROVE Sanitized(r) \in Clean
BY DEF Request, Clean, Sanitized, Roles, Countries, Profiles

LEMMA ListIsOne ==
    ASSUME NEW w \in Nat, NEW b \in Nat
    PROVE  List(w, b) \in Lists /\ List(w, b).written = w /\ List(w, b).blank = b
BY DEF List, Lists

\* A whole and coherent result.
Sound(x) ==
    /\ x \in RawResult /\ x.riesgo \in Riesgos /\ x.estado = estadoDesdeRiesgo(x.riesgo)
    /\ x.decisionFlow \in Lists /\ x.decisionFlow.written > 0
    /\ x.constraint \in {"none", "manual_required"}

LEMMA ArgentineRisk ==
    ASSUME NEW r \in Clean
    PROVE  determinarRiesgo(interpretarInfraccion(r)) \in Riesgos
<1>1. interpretarInfraccion(r).tipo \in
        {"velocidad_excesiva", "estacionamiento_indebido", "documentacion_faltante"}
  BY DEF interpretarInfraccion
<1> QED
  BY <1>1 DEF determinarRiesgo, Riesgos

LEMMA ArgentineRules ==
    ASSUME NEW r \in Clean
    PROVE  Sound(AR_Ruleset(r))
<1> DEFINE riesgo == determinarRiesgo(interpretarInfraccion(r))
           first  == IF r.notification \in {"notified_formal", "not_notified"}
                     THEN <<r.notification>> ELSE <<>>
<1>1. riesgo \in Riesgos
  BY ArgentineRisk
<1>2. first \in Seq(Texts) /\ Len(first) \in Nat
  <2>1. r.notification \in {"notified_formal", "not_notified"} => r.notification \in Texts
    BY DEF Texts, Notifications
  <2> QED
    BY <2>1
<1>3. <<riesgo>> \o first \in Seq(Texts)
  <2>1. <<riesgo>> \in Seq(Texts)
    BY <1>1 DEF Texts
  <2> HIDE DEF riesgo, first
  <2> QED
    BY <1>2, <2>1, ConcatProperties
<1>4. estadoDesdeRiesgo(riesgo) \in Estados /\ Constraint(r) \in {"none", "manual_required"}
  BY DEF estadoDesdeRiesgo, Estados, Constraint
<1>5. AR_Ruleset(r) =
        [pais |-> "AR", riesgo |-> riesgo, estado |-> estadoDesdeRiesgo(riesgo),
         recomendacion |-> <<riesgo>> \o first, decisionFlow |-> List(3, 0),
         actionPlan |-> List(3 + Len(first), 0), constraint |-> Constraint(r)]
  BY DEF AR_Ruleset
<1>6. /\ List(3, 0) \in Lists /\ List(3, 0).written = 3
      /\ List(3 + Len(first), 0) \in Lists
  BY <1>2, ListIsOne
<1> HIDE DEF riesgo, first
<1> QED
  BY <1>1, <1>3, <1>4, <1>5, <1>6 DEF Sound, RawResult, Countries

LEMMA OtherRules ==
    ASSUME NEW r \in Clean
    PROVE  Sound(GenericRules(r))
<1> DEFINE riesgo == riesgoDesdeScore((r.sum + 2 * Dash + CodeSum[r.pais]) % 10)
           said   == IF r.intention \in {"sanction_procedure_oriented",
                                         "traffic_violation_validation_oriented"}
                     THEN <<r.intention>> ELSE <<r.intention, riesgo>>
           heard  == IF r.notification = None THEN <<>> ELSE <<r.notification>>
           steps  == IF r.notification = None THEN 4 ELSE 5
<1>1. riesgo \in Riesgos
  BY DEF riesgoDesdeScore, Riesgos
<1>2. said \in Seq(Texts)
  <2>1. r.intention \in Texts /\ riesgo \in Texts
    BY <1>1 DEF Clean, Texts
  <2> HIDE DEF riesgo
  <2> QED
    BY <2>1
<1>3. heard \in Seq(Texts)
  <2>1. r.notification # None => r.notification \in Texts
    BY DEF Clean, Texts
  <2> QED
    BY <2>1
<1>4. Advice(riesgo, r) \in Seq(Texts)
  <2>1. Advice(riesgo, r) = said \o heard
    BY DEF Advice
  <2> HIDE DEF said, heard, riesgo
  <2> QED
    BY <1>2, <1>3, <2>1, ConcatProperties
<1>5. estadoDesdeRiesgo(riesgo) \in Estados /\ Constraint(r) \in {"none", "manual_required"}
  BY DEF estadoDesdeRiesgo, Estados, Constraint
<1>6. List(6, 0) \in Lists /\ List(6, 0).written = 6 /\ List(steps, 0) \in Lists
  BY ListIsOne
<1>7. GenericRules(r) =
        [pais |-> r.pais, riesgo |-> riesgo, estado |-> estadoDesdeRiesgo(riesgo),
         recomendacion |-> Advice(riesgo, r), decisionFlow |-> List(6, 0),
         actionPlan |-> List(steps, 0), constraint |-> Constraint(r)]
  BY DEF GenericRules
<1>8. r.pais \in Countries
  BY DEF Clean
<1> HIDE DEF riesgo, said, heard, steps
<1> QED
  BY <1>1, <1>4, <1>5, <1>6, <1>7, <1>8 DEF Sound, RawResult

\* What validateAnalysisResult leaves: whole, with the verdict of the result, and
\* with a step to take exactly if the result has or may be given one.
LEMMA ValidatedIsWhole ==
    ASSUME NEW x \in RawResult
    PROVE  LET v == validateAnalysisResult(x)
           IN  /\ v \in Answer /\ v.recomendacion # <<>>
               /\ [riesgo |-> v.riesgo, estado |-> v.estado] = Verdict(x)
               /\ v.constraint = x.constraint
               /\ Presentable(x) <=> v.decisionFlow.written > 0 /\ v.constraint # "malformed"
<1> DEFINE v    == validateAnalysisResult(x)
           flow == IF x.decisionFlow \in Lists
                      /\ (Verdict(x).estado = "critico" => ~IsEmpty(x.decisionFlow))
                   THEN x.decisionFlow ELSE buildSafeDecisionFlow
           plan == IF x.actionPlan \in Lists
                      /\ (Verdict(x).riesgo = "alto" => ~IsEmpty(x.actionPlan))
                   THEN x.actionPlan ELSE buildSafeActionPlan(Verdict(x).riesgo)
           said == IF x.recomendacion # <<>> THEN x.recomendacion ELSE <<"default">>
           pais == IF x.pais \in Supported THEN x.pais ELSE "AR"
<1>1. v = [pais |-> pais, riesgo |-> Verdict(x).riesgo, estado |-> Verdict(x).estado,
           recomendacion |-> said, decisionFlow |-> flow, actionPlan |-> plan,
           constraint |-> x.constraint]
  BY DEF validateAnalysisResult, Verdict
<1>2. Verdict(x) \in [riesgo : Riesgos, estado : Estados]
      /\ Verdict(x) = [riesgo |-> Verdict(x).riesgo, estado |-> Verdict(x).estado]
  BY DEF Verdict, Riesgos, Estados
<1>3. said \in Seq(Texts) /\ said # <<>>
  <2>1. <<"default">> \in Seq(Texts) /\ <<"default">> # <<>>
    BY DEF Texts
  <2>2. x.recomendacion \in Seq(Texts)
    BY DEF RawResult
  <2> QED
    BY <2>1, <2>2
<1>4. pais \in Supported
  BY DEF Supported
<1>5. plan \in Lists
  <2>1. buildSafeActionPlan(Verdict(x).riesgo) \in Lists
    BY ListIsOne DEF buildSafeActionPlan
  <2> QED
    BY <2>1
<1>6. buildSafeDecisionFlow \in Lists /\ buildSafeDecisionFlow.written = 3
  BY ListIsOne DEF buildSafeDecisionFlow
<1>7. flow \in Lists
  BY <1>6
<1>8. x.constraint \in {"none", "manual_required", "malformed"}
      /\ x.decisionFlow \in Lists \cup {None}
  BY DEF RawResult
<1>9. Verdict(x).estado = "critico" <=> x.estado = "critico"
  BY DEF Verdict, Estados
<1>10. (flow.written > 0) <=> \/ x.decisionFlow = None
                              \/ x.decisionFlow.written > 0
                              \/ IsEmpty(x.decisionFlow) /\ x.estado = "critico"
  <2>1. CASE x.decisionFlow \notin Lists
    BY <1>6, <1>8, <2>1
  <2>2. CASE x.decisionFlow \in Lists
    <3>1. x.decisionFlow # None /\ x.decisionFlow.written \in Nat /\ x.decisionFlow.blank \in Nat
      BY <2>2, ProductAssumption DEF Lists
    <3>2. CASE x.estado = "critico" /\ IsEmpty(x.decisionFlow)
      BY <1>6, <1>9, <3>2
    <3>3. CASE ~(x.estado = "critico" /\ IsEmpty(x.decisionFlow))
      BY <1>9, <2>2, <3>1, <3>3
    <3> QED
      BY <3>2, <3>3
  <2> QED
    BY <2>1, <2>2
<1>11. x # None
  BY ProductAssumption
<1> HIDE DEF v, flow, plan, said, pais
<1>12. Presentable(x) <=> v.decisionFlow.written > 0 /\ v.constraint # "malformed"
  BY <1>1, <1>10, <1>11 DEF Presentable
<1>13. v \in Answer /\ v.recomendacion # <<>> /\ v.constraint = x.constraint
       /\ [riesgo |-> v.riesgo, estado |-> v.estado] = Verdict(x)
  BY <1>1, <1>2, <1>3, <1>4, <1>5, <1>7, <1>8 DEF Answer
<1> QED
  BY <1>12, <1>13 DEF v

\* The engine of the code is whole and coherent for every body.
LEMMA EngineIsSound ==
    ASSUME NEW r \in Clean
    PROVE  LET x == generateResultadoAnalisis(r)
           IN  x \in RawResult /\ Presentable(x) /\ ~Incoherent(Verdict(x))
<1> DEFINE y == IF r.pais = "AR" THEN AR_Ruleset(r) ELSE GenericRules(r)
           x == validateAnalysisResult(y)
<1>1. Sound(y)
  BY ArgentineRules, OtherRules
<1>2. generateResultadoAnalisis(r) = x
  BY DEF generateResultadoAnalisis
<1> HIDE DEF y
<1>3. y \in RawResult /\ y # None /\ y.constraint # "malformed" /\ y.decisionFlow.written > 0
  BY <1>1, ProductAssumption DEF Sound
<1>4. Presentable(y)
  BY <1>3 DEF Presentable
<1>5. y.estado \in Estados /\ y.riesgo \in Riesgos /\ ~Incoherent(y)
  BY <1>1 DEF Sound, Incoherent, estadoDesdeRiesgo, Estados
<1>6. ~Incoherent(Verdict(y))
  BY <1>5 DEF Verdict, Incoherent
<1>7. /\ x \in Answer /\ [riesgo |-> x.riesgo, estado |-> x.estado] = Verdict(y)
      /\ x.decisionFlow.written > 0 /\ x.constraint # "malformed"
  BY <1>3, <1>4, ValidatedIsWhole
<1> HIDE DEF x
<1>8. x \in RawResult
  BY <1>7 DEF Answer, RawResult, Supported, Countries
<1>9. Presentable(x)
  BY <1>7, <1>8, ProductAssumption DEF Presentable
<1>10. Verdict(x) = Verdict(y)
  BY <1>7 DEF Verdict, Answer
<1> QED
  BY <1>2, <1>6, <1>8, <1>9, <1>10

LEMMA FallbackIsSound ==
    /\ buildSafeFallbackOutput \in Answer
    /\ Releasable(buildSafeFallbackOutput) /\ ~Incoherent(buildSafeFallbackOutput)
<1>1. <<"fallback">> \in Seq(Texts) /\ <<"fallback">> # <<>>
  BY DEF Texts
<1>2. /\ List(3, 0) \in Lists /\ List(3, 0).written = 3 /\ List(3, 0).blank = 0
      /\ List(1, 0) \in Lists /\ List(1, 0).written = 1
  BY ListIsOne
<1> QED
  BY <1>1, <1>2 DEF buildSafeFallbackOutput, Answer, Releasable, Incoherent,
     Supported, Riesgos, Estados, estadoDesdeRiesgo

\* An answer has the verdict of a presentable result, or is the fallback.
Faithful(a, x) ==
    IF Presentable(x) THEN [riesgo |-> a.riesgo, estado |-> a.estado] = Verdict(x)
    ELSE a = buildSafeFallbackOutput

LEMMA PipelineIsFaithful ==
    ASSUME NEW x \in RawResult, NEW role
    PROVE  LET a == releaseReadinessCheck(sanitizeProductOutput(validateAnalysisResult(x), role))
           IN  a \in Answer /\ Releasable(a) /\ Faithful(a, x)
<1> DEFINE v == validateAnalysisResult(x)
           n == IF role = "public" THEN 3 ELSE 10
           w == IF n < v.decisionFlow.written THEN n ELSE v.decisionFlow.written
           plan == IF v.actionPlan.written > 0 THEN v.actionPlan ELSE List(1, 0)
           s == sanitizeProductOutput(v, role)
<1>1. /\ v \in Answer /\ v.recomendacion # <<>>
      /\ [riesgo |-> v.riesgo, estado |-> v.estado] = Verdict(x)
      /\ Presentable(x) <=> v.decisionFlow.written > 0 /\ v.constraint # "malformed"
  BY ValidatedIsWhole
<1> HIDE DEF v
<1>2. /\ v.pais \in Supported /\ v.riesgo \in Riesgos /\ v.estado \in Estados
      /\ v.recomendacion \in Seq(Texts) /\ v.decisionFlow \in Lists /\ v.actionPlan \in Lists
      /\ v.constraint \in {"none", "manual_required", "malformed"}
  BY <1>1 DEF Answer
<1>3. v.decisionFlow.written \in Nat
  BY <1>2 DEF Lists
<1>4. w \in Nat /\ (v.decisionFlow.written > 0 <=> w \in 1..10)
  BY <1>3
<1>5. List(w, 0) \in Lists /\ List(w, 0).written = w /\ List(w, 0).blank = 0
  BY <1>4, ListIsOne
<1>6. plan \in Lists /\ plan.written > 0
  BY <1>2, ListIsOne
<1>7. s = [pais |-> v.pais, riesgo |-> v.riesgo, estado |-> v.estado,
           recomendacion |-> v.recomendacion, decisionFlow |-> List(w, 0),
           actionPlan |-> plan, constraint |-> v.constraint]
  BY <1>1, <1>2 DEF sanitizeProductOutput, FirstSteps, Supported, Countries
<1> HIDE DEF s, w, plan
<1>8. s \in Answer
  BY <1>2, <1>5, <1>6, <1>7 DEF Answer
<1>9. Releasable(s) <=> Presentable(x)
  BY <1>1, <1>2, <1>4, <1>5, <1>6, <1>7 DEF Releasable
<1>10. [riesgo |-> s.riesgo, estado |-> s.estado] = Verdict(x)
  BY <1>1, <1>7
<1>11. CASE Presentable(x)
  BY <1>8, <1>9, <1>10, <1>11 DEF releaseReadinessCheck, Faithful, s, v
<1>12. CASE ~Presentable(x)
  BY <1>9, <1>12, FallbackIsSound DEF releaseReadinessCheck, Faithful, s, v
<1> QED
  BY <1>11, <1>12

\* What the product lets out keeps the contract and is faithful to the engine.
LEMMA AnswerIsSound ==
    ASSUME NEW r \in Clean, NEW outcome \in Outcome, NEW x \in Raw(outcome, r)
    PROVE  LET a == Answered(outcome, x, r.role)
           IN  /\ a \in Answer /\ Releasable(a) /\ Faithful(a, x)
               /\ x \in RawResult \cup {None}
               /\ outcome = "result" => Presentable(x) /\ ~Incoherent(Verdict(x))
<1>1. CASE outcome \in {"throws", "nothing"}
  <2>1. x = None /\ ~Presentable(x)
    BY <1>1 DEF Raw, Presentable
  <2> QED
    BY <1>1, <2>1, FallbackIsSound DEF Answered, Faithful
<1>2. CASE outcome \in {"result", "broken"}
  <2>1. /\ x \in RawResult
        /\ outcome = "result" => Presentable(x) /\ ~Incoherent(Verdict(x))
    <3>1. CASE outcome = "broken"
      BY <3>1, ProductAssumption DEF Raw
    <3>2. CASE outcome = "result"
      <4>1. x = generateResultadoAnalisis(r)
        BY <3>2 DEF Raw
      <4> QED
        BY <4>1, EngineIsSound
    <3> QED
      BY <1>2, <3>1, <3>2
  <2>2. Answered(outcome, x, r.role) =
          releaseReadinessCheck(sanitizeProductOutput(validateAnalysisResult(x), r.role))
    BY <1>2 DEF Answered
  <2> QED
    BY <2>1, <2>2, PipelineIsFaithful
<1> QED
  BY <1>1, <1>2 DEF Outcome

-----------------------------------------------------------------------------
(***************************************************************************)
(* The answers: each keeps the contract, and is faithful to what the       *)
(* engine gave for it.                                                     *)
(***************************************************************************)

Given == [outcome : Outcome, raw : RawResult \cup {None}]

AnswerInv ==
    /\ request \in Request
    /\ results \in Seq(Answer) /\ given \in Seq(Given)
    /\ Len(given) = Len(results)
    /\ \A i \in 1..Len(results) :
          /\ Releasable(results[i]) /\ Faithful(results[i], given[i].raw)
          /\ given[i].outcome = "result" =>
                Presentable(given[i].raw) /\ ~Incoherent(Verdict(given[i].raw))

LEMMA AnswerInit == Init => AnswerInv
<1> SUFFICES ASSUME Init PROVE AnswerInv
  OBVIOUS
<1>1. Len(<<>>) = 0 /\ <<>> \in Seq(Answer) /\ <<>> \in Seq(Given)
  BY EmptySeq
<1>2. results = <<>> /\ given = <<>> /\ request \in Request
  BY ProductAssumption DEF Init
<1> QED
  BY <1>1, <1>2 DEF AnswerInv

LEMMA AnswerNext == AnswerInv /\ [Next]_vars => AnswerInv'
<1> SUFFICES ASSUME AnswerInv, [Next]_vars PROVE AnswerInv'
  OBVIOUS
<1>1. CASE UNCHANGED <<request, results, given>>
  BY <1>1 DEF AnswerInv
<1>2. ASSUME NEW c \in Callers, analyzeMultaV1(c) PROVE AnswerInv'
  <2> DEFINE r == Sanitized(request)
  <2>1. PICK outcome \in Outcome : \E x \in Raw(outcome, r) : RunMultaCheck(r, outcome, x)
    BY <1>2 DEF analyzeMultaV1
  <2>2. PICK x \in Raw(outcome, r) : RunMultaCheck(r, outcome, x)
    BY <2>1
  <2> DEFINE a == Answered(outcome, x, r.role)
             g == [outcome |-> outcome, raw |-> x]
  <2>3. r \in Clean
    BY SanitizedIsClean DEF AnswerInv
  <2>4. /\ a \in Answer /\ Releasable(a) /\ Faithful(a, x)
        /\ x \in RawResult \cup {None}
        /\ outcome = "result" => Presentable(x) /\ ~Incoherent(Verdict(x))
    BY <2>3, AnswerIsSound
  <2>5. /\ results' = Append(results, a) /\ given' = Append(given, g)
        /\ request' = request
    BY <1>2, <2>2 DEF RunMultaCheck, analyzeMultaV1
  <2>10. g \in Given /\ g.outcome = outcome /\ g.raw = x
    BY <2>4 DEF Given
  <2> HIDE DEF a, r, g
  <2> DEFINE n == Len(results) + 1
  <2>6. /\ results' \in Seq(Answer) /\ Len(results') = n /\ results'[n] = a
        /\ \A i \in 1..Len(results) : results'[i] = results[i]
    BY <2>4, <2>5, AppendProperties DEF AnswerInv
  <2>7. /\ given' \in Seq(Given) /\ Len(given') = n /\ given'[n] = g
        /\ \A i \in 1..Len(results) : given'[i] = given[i]
    BY <2>5, <2>10, AppendProperties DEF AnswerInv
  <2>8. Len(results) \in Nat
    BY LenProperties DEF AnswerInv
  <2>9. ASSUME NEW i \in 1..n
        PROVE  /\ Releasable(results'[i]) /\ Faithful(results'[i], given'[i].raw)
               /\ given'[i].outcome = "result" =>
                     Presentable(given'[i].raw) /\ ~Incoherent(Verdict(given'[i].raw))
    <3>1. CASE i = n
      BY <2>4, <2>6, <2>7, <2>10, <3>1
    <3>2. CASE i # n
      <4>1. i \in 1..Len(results)
        BY <2>8, <3>2
      <4>2. results'[i] = results[i] /\ given'[i] = given[i]
        BY <2>6, <2>7, <4>1
      <4> QED
        BY <4>1, <4>2 DEF AnswerInv
    <3> QED
      BY <3>1, <3>2
  <2> HIDE DEF n
  <2> QED
    BY <2>5, <2>6, <2>7, <2>9 DEF AnswerInv, Faithful, Presentable
<1>3. (\E c \in Callers : TurnAway(c)) \/ Tick \/ UNCHANGED vars
        => UNCHANGED <<request, results, given>>
  BY DEF TurnAway, Tick, vars
<1> QED
  BY <1>1, <1>2, <1>3 DEF Next

LEMMA AnswersHold == Spec => []AnswerInv
BY AnswerInit, AnswerNext, PTL DEF Spec

LEMMA AnswersAreSeen == AnswerInv => SimulationSeesFaults
<1> SUFFICES ASSUME AnswerInv PROVE SimulationSeesFaults
  OBVIOUS
<1>1. DOMAIN results = 1..Len(results) /\ DOMAIN given = 1..Len(results) /\ Len(results) \in Nat
  BY LenProperties DEF AnswerInv
<1>2. ASSUME NEW i \in 1..Len(results)
      PROVE  Incoherent(results[i]) <=> Presentable(given[i].raw) /\ Incoherent(Verdict(given[i].raw))
  <2>1. Faithful(results[i], given[i].raw)
    BY DEF AnswerInv
  <2>2. CASE Presentable(given[i].raw)
    <3>1. [riesgo |-> results[i].riesgo, estado |-> results[i].estado] = Verdict(given[i].raw)
      BY <2>1, <2>2 DEF Faithful
    <3>2. Verdict(given[i].raw).riesgo = results[i].riesgo /\ Verdict(given[i].raw).estado = results[i].estado
      BY <3>1
    <3> QED
      BY <2>2, <3>2 DEF Incoherent
  <2>3. CASE ~Presentable(given[i].raw)
    BY <2>1, <2>3, FallbackIsSound DEF Faithful
  <2> QED
    BY <2>2, <2>3
<1>3. {i \in DOMAIN results : Incoherent(results[i])} =
      {i \in DOMAIN given : Presentable(given[i].raw) /\ Incoherent(Verdict(given[i].raw))}
  BY <1>1, <1>2
<1>4. {i \in DOMAIN results : /\ results[i].recomendacion # <<>>
                              /\ ~IsEmpty(results[i].actionPlan)
                              /\ ~IsEmpty(results[i].decisionFlow)} = 1..Len(results)
  <2>1. ASSUME NEW i \in 1..Len(results)
        PROVE  /\ results[i].recomendacion # <<>> /\ ~IsEmpty(results[i].actionPlan)
               /\ ~IsEmpty(results[i].decisionFlow)
    <3>1. results[i] \in Answer /\ Releasable(results[i])
      BY ElementOfSeq DEF AnswerInv
    <3>2. /\ results[i].actionPlan \in Lists /\ results[i].decisionFlow \in Lists
          /\ results[i].actionPlan.written > 0 /\ results[i].decisionFlow.written \in 1..10
      BY <3>1 DEF Answer, Releasable
    <3>3. ASSUME NEW l \in Lists, l.written > 0 PROVE ~IsEmpty(l)
      BY <3>3 DEF IsEmpty, Lists
    <3> QED
      BY <3>1, <3>2, <3>3 DEF Releasable
  <2> QED
    BY <1>1, <2>1
<1>5. Cardinality(1..Len(results)) = Len(results)
  <2>1. ASSUME NEW n \in Nat PROVE Cardinality(1..n) = n
    <3>1. Cardinality(1..n) = IF 1 > n THEN 0 ELSE n - 1 + 1
      BY FS_Interval
    <3> QED
      BY <3>1
  <2> QED
    BY <1>1, <2>1
<1>6. \A i \in 1..Len(results) :
         /\ Faithful(results[i], given[i].raw)
         /\ given[i].outcome = "result" =>
               Presentable(given[i].raw) /\ ~Incoherent(Verdict(given[i].raw))
  BY DEF AnswerInv
<1>7. generateSimulationReport.fallosCoherencia =
         Cardinality({i \in DOMAIN given :
             Presentable(given[i].raw) /\ Incoherent(Verdict(given[i].raw))})
  BY <1>3 DEF generateSimulationReport
<1>8. generateSimulationReport.validos = generateSimulationReport.totalCasos
  BY <1>4, <1>5 DEF generateSimulationReport
<1> QED
  BY <1>1, <1>6, <1>7, <1>8 DEF SimulationSeesFaults, Faithful

\* However the engine breaks its contract, in any number of calls, an answer has
\* its verdict or is the whole fallback, and the simulator counts the incoherent
\* verdicts that could be presented, and no other.
THEOREM SimulationIsExact == Spec => []SimulationSeesFaults
BY AnswersHold, AnswersAreSeen, PTL

-----------------------------------------------------------------------------
(***************************************************************************)
(* The report of errors: the last Capacity faults, where logs are off.      *)
(***************************************************************************)

FirstKept(n)  == IF n > Capacity THEN n - Capacity + 1 ELSE 1
LastFaults(q) == SubSeq(q, FirstKept(Len(q)), Len(q))

ReportInv ==
    /\ buffer \in Seq(Severities) /\ Len(buffer) <= Capacity
    /\ reported \in Seq(Severities)
    /\ FaultsStayReported

LEMMA RegisteredFits ==
    ASSUME NEW b \in Seq(Severities), Len(b) <= Capacity, NEW severity \in Severities
    PROVE  /\ registerAnalysisError(b, severity) \in Seq(Severities)
           /\ Len(registerAnalysisError(b, severity)) <= Capacity
<1>1. Capacity \in Nat \ {0} /\ Len(b) \in Nat
  BY ProductAssumption
<1>2. CASE Len(b) >= Capacity
  <2>1. b # <<>>
    BY <1>1, <1>2
  <2>2. Tail(b) \in Seq(Severities) /\ Len(Tail(b)) = Len(b) - 1
    BY <2>1, HeadTailProperties
  <2> QED
    BY <1>1, <1>2, <2>2, AppendProperties DEF registerAnalysisError
<1>3. CASE ~(Len(b) >= Capacity)
  BY <1>1, <1>3, AppendProperties DEF registerAnalysisError
<1> QED
  BY <1>2, <1>3

\* Registering a fault keeps the last faults, now with this one.
LEMMA LastFaultsMove ==
    ASSUME NEW q \in Seq(Severities), NEW severity \in Severities
    PROVE  registerAnalysisError(LastFaults(q), severity) = LastFaults(Append(q, severity))
<1> DEFINE n == Len(q)
           m == FirstKept(n)
           l == SubSeq(q, m, n)
           p == Append(q, severity)
<1>1. Capacity \in Nat \ {0} /\ n \in Nat
  BY ProductAssumption
<1>2. \A i \in 1..n : q[i] \in Severities
  BY ElementOfSeq
<1>3. /\ p \in Seq(Severities) /\ Len(p) = n + 1 /\ p[n + 1] = severity
      /\ \A i \in 1..n : p[i] = q[i]
  BY AppendProperties
<1> HIDE DEF n
<1>4. m \in 1..(n + 1)
  BY <1>1 DEF FirstKept
<1>5. /\ l \in Seq(Severities) /\ Len(l) = n - m + 1
      /\ \A i \in 1..(n - m + 1) : l[i] = q[m + i - 1]
  <2>1. \A i \in m..n : q[i] \in Severities
    BY <1>1, <1>2, <1>4
  <2> HIDE DEF m
  <2> QED
    BY <1>1, <1>4, <2>1, SubSeqProperties
<1>6. LastFaults(q) = l
  BY DEF LastFaults, n
<1> HIDE DEF l, p
<1>7. CASE n >= Capacity
  <2>1. m = n - Capacity + 1 /\ Len(l) = Capacity
    BY <1>1, <1>5, <1>7 DEF FirstKept
  <2>2. l # <<>>
    BY <1>1, <1>5, <2>1
  <2>3. /\ Tail(l) \in Seq(Severities) /\ Len(Tail(l)) = Capacity - 1
        /\ \A i \in 1..(Capacity - 1) : Tail(l)[i] = l[i + 1]
    BY <1>5, <2>1, <2>2, HeadTailProperties
  <2> DEFINE new == Append(Tail(l), severity)
             old == SubSeq(p, m + 1, n + 1)
  <2>4. /\ new \in Seq(Severities) /\ Len(new) = Capacity /\ new[Capacity] = severity
        /\ \A i \in 1..(Capacity - 1) : new[i] = l[i + 1]
    BY <1>1, <2>3, AppendProperties
  <2>5. /\ old \in Seq(Severities) /\ Len(old) = Capacity
        /\ \A i \in 1..Capacity : old[i] = p[m + i]
    <3>1. \A i \in (m + 1)..(n + 1) : p[i] \in Severities
      BY <1>1, <1>3, <1>4, ElementOfSeq
    <3>2. m + 1 \in Int /\ n + 1 \in Int /\ m + 1 <= n + 1 /\ (n + 1) - (m + 1) + 1 = Capacity
      BY <1>1, <1>4, <2>1
    <3> HIDE DEF m
    <3>3. /\ old \in Seq(Severities) /\ Len(old) = (n + 1) - (m + 1) + 1
          /\ \A i \in 1..((n + 1) - (m + 1) + 1) : old[i] = p[(m + 1) + i - 1]
      BY <3>1, <3>2, SubSeqProperties
    <3>4. \A i \in 1..Capacity : (m + 1) + i - 1 = m + i
      BY <1>1, <1>4
    <3> QED
      BY <3>2, <3>3, <3>4
  <2> HIDE DEF new, old
  <2>6. \A i \in 1..Capacity : new[i] = old[i]
    <3> TAKE i \in 1..Capacity
    <3>1. CASE i = Capacity
      BY <1>1, <1>3, <2>1, <2>4, <2>5, <3>1
    <3>2. CASE i # Capacity
      <4>1. i \in 1..(Capacity - 1) /\ i + 1 \in 1..(n - m + 1) /\ m + (i + 1) - 1 = m + i
            /\ m + i \in 1..n
        BY <1>1, <1>4, <1>7, <2>1, <3>2
      <4> HIDE DEF m
      <4> QED
        BY <1>3, <1>5, <2>4, <2>5, <4>1
    <3> QED
      BY <3>1, <3>2
  <2>7. new = old
    BY <2>4, <2>5, <2>6, SeqEqual
  <2>8. LastFaults(p) = old
    <3>1. FirstKept(n + 1) = m + 1
      BY <1>1, <1>7, <2>1 DEF FirstKept
    <3> QED
      BY <1>3, <3>1 DEF LastFaults, old
  <2> QED
    BY <1>1, <1>6, <2>1, <2>7, <2>8 DEF registerAnalysisError, new, p
<1>8. CASE ~(n >= Capacity)
  <2>1. m = 1
    BY <1>1, <1>8 DEF FirstKept
  <2>2. l = q
    BY <2>1, SubSeqFull DEF l, n
  <2>3. LastFaults(p) = p
    <3>1. FirstKept(n + 1) = 1
      BY <1>1, <1>8 DEF FirstKept
    <3>2. SubSeq(p, 1, Len(p)) = p
      BY <1>3, SubSeqFull
    <3> QED
      BY <1>3, <3>1, <3>2 DEF LastFaults
  <2> QED
    BY <1>6, <1>8, <2>2, <2>3 DEF registerAnalysisError, p, n
<1> QED
  BY <1>7, <1>8 DEF p

LEMMA ReportInit == Init => ReportInv
<1> SUFFICES ASSUME Init PROVE ReportInv
  OBVIOUS
<1>1. <<>> \in Seq(Severities) /\ Len(<<>>) = 0
  BY EmptySeq
<1>2. SubSeq(<<>>, 1, 0) = <<>>
  BY SubSeqEmpty
<1> QED
  BY <1>1, <1>2, ProductAssumption DEF Init, ReportInv, FaultsStayReported

LEMMA ReportNext == ReportInv /\ [Next]_vars => ReportInv'
<1> SUFFICES ASSUME ReportInv, [Next]_vars PROVE ReportInv'
  OBVIOUS
<1>1. CASE UNCHANGED <<env, buffer, reported>>
  BY <1>1 DEF ReportInv, FaultsStayReported, enableObservabilityLogs
<1>2. ASSUME NEW c \in Callers, analyzeMultaV1(c) PROVE ReportInv'
  <2> DEFINE r == Sanitized(request)
  <2>1. PICK outcome \in Outcome : \E x \in Raw(outcome, r) : RunMultaCheck(r, outcome, x)
    BY <1>2 DEF analyzeMultaV1
  <2>2. PICK x \in Raw(outcome, r) : RunMultaCheck(r, outcome, x)
    BY <2>1
  <2> DEFINE severity == Severity(outcome, x)
             logged   == IF severity = None THEN buffer
                         ELSE registerAnalysisError(buffer, severity)
  <2>3. severity = None \/ severity \in Severities
    BY DEF Severity, Severities
  <2>4. /\ env' = env
        /\ buffer' = QualityWarning(logged)
        /\ reported' = IF severity = None THEN reported ELSE Append(reported, severity)
    BY <1>2, <2>2 DEF RunMultaCheck, analyzeMultaV1
  <2> HIDE DEF severity, r
  <2>5. logged \in Seq(Severities) /\ Len(logged) <= Capacity
    BY <2>3, RegisteredFits DEF ReportInv
  <2>6. reported' \in Seq(Severities)
    BY <2>3, <2>4, AppendProperties DEF ReportInv
  <2>7. ASSUME ~enableObservabilityLogs PROVE logged = LastFaults(reported')
    <3>1. buffer = LastFaults(reported)
      BY <2>7 DEF ReportInv, FaultsStayReported, LastFaults, FirstKept
    <3> QED
      BY <2>3, <2>4, <3>1, LastFaultsMove DEF ReportInv
  <2> HIDE DEF logged
  <2>8. buffer' \in Seq(Severities) /\ Len(buffer') <= Capacity
    BY <2>4, <2>5, RegisteredFits DEF QualityWarning, Severities
  <2>9. ~enableObservabilityLogs => buffer' = logged
    BY <2>4 DEF QualityWarning
  <2>10. /\ enableObservabilityLogs' <=> enableObservabilityLogs
         /\ env'.mode = "production" => ~enableObservabilityLogs
    BY <2>4 DEF enableObservabilityLogs
  <2> QED
    BY <2>6, <2>7, <2>8, <2>9, <2>10 DEF ReportInv, FaultsStayReported, LastFaults, FirstKept
<1>3. (\E c \in Callers : TurnAway(c)) \/ Tick \/ UNCHANGED vars
        => UNCHANGED <<env, buffer, reported>>
  BY DEF TurnAway, Tick, vars
<1> QED
  BY <1>1, <1>2, <1>3 DEF Next

LEMMA ReportHolds == Spec => []ReportInv
BY ReportInit, ReportNext, PTL DEF Spec

\* In production, and wherever the observability logs are off, the report is the
\* last Capacity faults of engines, for any capacity and any order of faults: no
\* warning takes the place of one.
THEOREM FaultsAreNotPushedOut == Spec => []FaultsStayReported
BY ReportHolds, PTL DEF ReportInv

-----------------------------------------------------------------------------
(***************************************************************************)
(* The rate limit: while a block lasts, every call it remembers expires    *)
(* before the block does, and no call came after the refusal.              *)
(***************************************************************************)

LimitInv ==
    /\ now \in 0..MaxTime
    /\ limiter \in [Identifiers -> [times : SUBSET [at : Nat, call : Nat], blockedUntil : Nat]]
    /\ comeBack \in [Identifiers -> Nat]
    /\ \A k \in Identifiers :
          /\ IsFiniteSet(limiter[k].times) /\ Cardinality(limiter[k].times) <= MaxRequests
          /\ \A served \in limiter[k].times :
                /\ served.at <= now
                /\ limiter[k].blockedUntil > now => served.at + Window <= limiter[k].blockedUntil
                /\ comeBack[k] # 0 => served.at + Window <= comeBack[k]
          /\ comeBack[k] # 0 => limiter[k].blockedUntil <= comeBack[k]

\* LimitInv for one identifier, after a step.
Kept(entry, back, time) ==
    /\ entry \in [times : SUBSET [at : Nat, call : Nat], blockedUntil : Nat]
    /\ back \in Nat
    /\ IsFiniteSet(entry.times) /\ Cardinality(entry.times) <= MaxRequests
    /\ \A served \in entry.times :
          /\ served.at <= time
          /\ entry.blockedUntil > time => served.at + Window <= entry.blockedUntil
          /\ back # 0 => served.at + Window <= back
    /\ back # 0 => entry.blockedUntil <= back

LEMMA RecentIsSmall ==
    ASSUME LimitInv, NEW k \in Identifiers
    PROVE  /\ Recent(k) \subseteq limiter[k].times /\ IsFiniteSet(Recent(k))
           /\ Cardinality(Recent(k)) \in Nat /\ Cardinality(Recent(k)) <= MaxRequests
<1>1. Recent(k) \subseteq limiter[k].times /\ IsFiniteSet(limiter[k].times)
      /\ Cardinality(limiter[k].times) <= MaxRequests
  BY DEF Recent, LimitInv
<1>2. /\ IsFiniteSet(Recent(k)) /\ Cardinality(Recent(k)) <= Cardinality(limiter[k].times)
      /\ Cardinality(Recent(k)) \in Nat /\ Cardinality(limiter[k].times) \in Nat
  BY <1>1, FS_Subset, FS_CardinalityType
<1> QED
  BY <1>1, <1>2, ProductAssumption

LEMMA LimitInit == Init => LimitInv
<1> SUFFICES ASSUME Init PROVE LimitInv
  OBVIOUS
<1>1. IsFiniteSet({}) /\ Cardinality({}) = 0
  BY FS_EmptySet
<1>2. \A k \in Identifiers : limiter[k].times = {} /\ limiter[k].blockedUntil = 0
                             /\ comeBack[k] = 0
  BY DEF Init
<1>3. 0 <= MaxRequests
  BY ProductAssumption
<1>4. /\ now \in 0..MaxTime /\ comeBack \in [Identifiers -> Nat]
      /\ limiter \in [Identifiers -> [times : SUBSET [at : Nat, call : Nat], blockedUntil : Nat]]
  BY ProductAssumption DEF Init
<1> QED
  BY <1>1, <1>2, <1>3, <1>4 DEF LimitInv

\* A step that changes the entry of one identifier, at one moment.
LEMMA OneEntry ==
    ASSUME LimitInv, NEW k \in Identifiers, UNCHANGED now,
           NEW entry, NEW back, Kept(entry, back, now),
           limiter' = [limiter EXCEPT ![k] = entry], comeBack' = [comeBack EXCEPT ![k] = back]
    PROVE  LimitInv'
<1>1. \A i \in Identifiers : IF i = k THEN limiter'[i] = entry /\ comeBack'[i] = back
                             ELSE limiter'[i] = limiter[i] /\ comeBack'[i] = comeBack[i]
  BY DEF LimitInv
<1>2. \A i \in Identifiers : Kept(limiter[i], comeBack[i], now)
  BY DEF LimitInv, Kept
<1>3. \A i \in Identifiers : Kept(limiter'[i], comeBack'[i], now')
  BY <1>1, <1>2
<1>4. /\ comeBack' \in [Identifiers -> Nat]
      /\ limiter' \in [Identifiers -> [times : SUBSET [at : Nat, call : Nat], blockedUntil : Nat]]
  BY DEF LimitInv, Kept
<1> QED
  BY <1>3, <1>4 DEF LimitInv, Kept

LEMMA ChangedEntry ==
    ASSUME NEW S, NEW T, NEW e \in [times : S, blockedUntil : T], NEW t, NEW b
    PROVE  [e EXCEPT !.times = t, !.blockedUntil = b] = [times |-> t, blockedUntil |-> b]
<1> DEFINE f == [e EXCEPT !.times = t, !.blockedUntil = b]
<1>1. DOMAIN e = {"times", "blockedUntil"} /\ "times" # "blockedUntil"
  OBVIOUS
<1>2. f = [i \in {"times", "blockedUntil"} |-> f[i]]
  BY <1>1
<1>3. f["times"] = t /\ f["blockedUntil"] = b
  BY <1>1
<1> HIDE DEF f
<1>4. f = [times |-> t, blockedUntil |-> b]
  BY <1>2, <1>3
<1> QED
  BY <1>4 DEF f

LEMMA RefusalIsKept ==
    ASSUME LimitInv, NEW k \in Identifiers, Refuse(k), UNCHANGED now
    PROVE  LimitInv'
<1> DEFINE entry == limiter[k]
<1>1. /\ entry \in [times : SUBSET [at : Nat, call : Nat], blockedUntil : Nat]
      /\ now \in Nat /\ Window \in Nat \ {0} /\ Block \in Nat /\ Block >= Window
  BY ProductAssumption DEF LimitInv
<1>2. /\ Recent(k) \subseteq entry.times /\ IsFiniteSet(Recent(k))
      /\ Cardinality(Recent(k)) <= MaxRequests
  BY RecentIsSmall
<1>3. \A served \in entry.times :
         /\ served.at \in Nat /\ served.at <= now
         /\ entry.blockedUntil > now => served.at + Window <= entry.blockedUntil
  BY <1>1 DEF LimitInv
<1>4. CASE Blocked(k) /\ limiter' = [limiter EXCEPT ![k].times = Recent(k)]
           /\ comeBack' = [comeBack EXCEPT ![k] = limiter[k].blockedUntil]
  <2> DEFINE new == [entry EXCEPT !.times = Recent(k)]
  <2>1. new.times = Recent(k) /\ new.blockedUntil = entry.blockedUntil
        /\ new \in [times : SUBSET [at : Nat, call : Nat], blockedUntil : Nat]
    BY <1>1, <1>2
  <2>2. limiter' = [limiter EXCEPT ![k] = new]
    BY <1>4
  <2>3. entry.blockedUntil > now
    BY <1>4 DEF Blocked
  <2> HIDE DEF new
  <2>4. Kept(new, entry.blockedUntil, now)
    BY <1>1, <1>2, <1>3, <2>1, <2>3 DEF Kept
  <2> QED
    BY <1>4, <2>2, <2>4, OneEntry
<1>5. CASE limiter' = [limiter EXCEPT ![k].times = Recent(k), ![k].blockedUntil = now + Block]
           /\ comeBack' = [comeBack EXCEPT ![k] = now + Block]
  <2> DEFINE new == [entry EXCEPT !.times = Recent(k), !.blockedUntil = now + Block]
  <2>1. new.times = Recent(k) /\ new.blockedUntil = now + Block
        /\ new \in [times : SUBSET [at : Nat, call : Nat], blockedUntil : Nat]
    <3>1. entry.times \in SUBSET [at : Nat, call : Nat] /\ now + Block \in Nat
      BY <1>1
    <3>2. new = [times |-> Recent(k), blockedUntil |-> now + Block]
      BY <1>1, ChangedEntry
    <3> HIDE DEF new
    <3> QED
      BY <1>2, <3>1, <3>2
  <2>2. limiter' = [limiter EXCEPT ![k] = new]
    BY <1>5
  <2> HIDE DEF new
  <2>3. \A served \in Recent(k) : served.at <= now /\ served.at + Window <= now + Block
    BY <1>1, <1>2, <1>3
  <2>4. Kept(new, now + Block, now)
    BY <1>1, <1>2, <2>1, <2>3 DEF Kept
  <2> QED
    BY <1>5, <2>2, <2>4, OneEntry
<1> QED
  BY <1>4, <1>5 DEF Refuse

LEMMA AdmissionIsKept ==
    ASSUME LimitInv, NEW k \in Identifiers, Admit(k), UNCHANGED now, Len(results) \in Nat
    PROVE  LimitInv'
<1> DEFINE entry == limiter[k]
           call  == [at |-> now, call |-> Len(results)]
           times == Recent(k) \cup {call}
           new   == [entry EXCEPT !.times = times]
<1>1. /\ entry \in [times : SUBSET [at : Nat, call : Nat], blockedUntil : Nat]
      /\ now \in Nat /\ MaxRequests \in Nat
  BY ProductAssumption DEF LimitInv
<1>2. call \in [at : Nat, call : Nat] /\ call.at = now
  BY <1>1
<1>3. /\ Recent(k) \subseteq entry.times /\ IsFiniteSet(Recent(k))
      /\ Cardinality(Recent(k)) \in Nat
  BY RecentIsSmall
<1>4. Cardinality(Recent(k)) < MaxRequests /\ ~(entry.blockedUntil > now)
  BY <1>1, <1>3 DEF Admit, Full, Blocked
<1> HIDE DEF call
<1>5. IsFiniteSet(times) /\ Cardinality(times) <= MaxRequests
  <2>1. IsFiniteSet(times)
        /\ Cardinality(times) \in {Cardinality(Recent(k)), Cardinality(Recent(k)) + 1}
    BY <1>3, FS_AddElement
  <2> QED
    BY <1>1, <1>3, <1>4, <2>1
<1>6. \A served \in times : served.at <= now
  BY <1>1, <1>2, <1>3 DEF LimitInv
<1>7. new.times = times /\ new.blockedUntil = entry.blockedUntil
      /\ new \in [times : SUBSET [at : Nat, call : Nat], blockedUntil : Nat]
  BY <1>1, <1>2, <1>3
<1>8. limiter' = [limiter EXCEPT ![k] = new] /\ comeBack' = [comeBack EXCEPT ![k] = 0]
  BY DEF Admit, call
<1> HIDE DEF new, times
<1>9. Kept(new, 0, now)
  BY <1>4, <1>5, <1>6, <1>7 DEF Kept
<1> QED
  BY <1>8, <1>9, OneEntry

LEMMA LimitNext == LimitInv /\ AnswerInv /\ [Next]_vars => LimitInv'
<1> SUFFICES ASSUME LimitInv, AnswerInv, [Next]_vars PROVE LimitInv'
  OBVIOUS
<1>1. \A c \in Callers : buildRateLimitIdentifier(c) \in Identifiers
  BY DEF Identifiers
<1>2. ASSUME NEW c \in Callers, TurnAway(c) PROVE LimitInv'
  BY <1>1, <1>2, RefusalIsKept DEF TurnAway
<1>3. ASSUME NEW c \in Callers, analyzeMultaV1(c) PROVE LimitInv'
  <2>1. Len(results) \in Nat
    BY LenProperties DEF AnswerInv
  <2> QED
    BY <1>1, <1>3, <2>1, AdmissionIsKept DEF analyzeMultaV1
<1>4. CASE Tick
  <2>1. now \in Nat /\ now' = now + 1 /\ now' \in 0..MaxTime
        /\ UNCHANGED <<limiter, comeBack>>
    BY <1>4, ProductAssumption DEF Tick, LimitInv
  <2>2. \A k \in Identifiers : \A served \in limiter[k].times :
           limiter[k].blockedUntil \in Nat /\ served.at \in Nat
    BY DEF LimitInv
  <2> QED
    BY <2>1, <2>2 DEF LimitInv
<1>5. CASE UNCHANGED vars
  BY <1>5 DEF vars, LimitInv
<1> QED
  BY <1>2, <1>3, <1>4, <1>5 DEF Next

LEMMA LimitHolds == Spec => []LimitInv
BY AnswersHold, LimitInit, LimitNext, PTL DEF Spec

LEMMA WaitingSuffices == LimitInv => WaitingIsEnough
<1> SUFFICES ASSUME LimitInv, NEW k \in Identifiers, comeBack[k] # 0, now >= comeBack[k]
             PROVE  ~Blocked(k) /\ ~Full(k)
  BY DEF WaitingIsEnough
<1>1. /\ now \in Nat /\ comeBack[k] \in Nat /\ limiter[k].blockedUntil \in Nat
      /\ Window \in Nat \ {0} /\ MaxRequests \in Nat \ {0}
  BY ProductAssumption DEF LimitInv
<1>2. ~Blocked(k)
  BY <1>1 DEF LimitInv, Blocked
<1>3. Recent(k) = {}
  <2>1. ASSUME NEW served \in limiter[k].times PROVE ~(now - served.at < Window)
    <3>1. served.at \in Nat /\ served.at + Window <= comeBack[k]
      BY DEF LimitInv
    <3> QED
      BY <1>1, <3>1
  <2> QED
    BY <2>1 DEF Recent
<1> QED
  BY <1>1, <1>2, <1>3, FS_EmptySet DEF Full

\* Whoever was refused and waits as long as he was told is served, unless others
\* of his identifier were served meanwhile: for any limits with a block no
\* shorter than the window.
THEOREM WaitingSufficesAlways == Spec => []WaitingIsEnough
BY LimitHolds, WaitingSuffices, PTL

-----------------------------------------------------------------------------
\* The limit is never passed, the report never outgrows its capacity, and every
\* answer keeps the contract of the API.
THEOREM ProductTypeCorrect == Spec => []TypeOK
<1>1. AnswerInv /\ ReportInv /\ LimitInv => TypeOK
  <2>1. AnswerInv => DOMAIN results = 1..Len(results)
    BY LenProperties DEF AnswerInv
  <2> QED
    BY <2>1 DEF AnswerInv, ReportInv, LimitInv, TypeOK
<1> QED
  BY <1>1, AnswersHold, ReportHolds, LimitHolds, PTL
=============================================================================
