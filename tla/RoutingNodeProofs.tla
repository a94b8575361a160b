-------------------------- MODULE RoutingNodeProofs --------------------------
(***************************************************************************)
(* One node's routing table, for every set of neighbours, caps, thresholds *)
(* and scenarios: whatever the neighbours say, the routes are sound, the   *)
(* silent are forgotten and every withdrawal is told.                      *)
(*                                                                         *)
(* The argument goes route by route: what one entry of a broadcast or a    *)
(* RIF does to a sound table, then the broadcast by induction over its     *)
(* entries.                                                                *)
(***************************************************************************)
EXTENDS RoutingNode, FiniteSetTheorems, FunctionTheorems, WellFoundedInduction, NaturalsInduction, TLAPS

-----------------------------------------------------------------------------
(***************************************************************************)
(* Induction, as facts about sets of numbers.                              *)
(***************************************************************************)
LEMMA LeastOf ==
  ASSUME NEW T \in SUBSET Nat, T # {}
  PROVE  \E m \in T : \A k \in T : m <= k
<1> DEFINE R == {ss \in Nat \X Nat : ss[1] < ss[2]}
<1>1. IsWellFoundedOn(R, Nat)
  BY NatLessThanWellFounded DEF OpToRel
<1>2. PICK m \in T : \A y \in T : ~(<<y, m>> \in R)
  <2> HIDE DEF R
  <2> QED BY <1>1, WFMin
<1>3. ASSUME NEW k \in T PROVE m <= k
  <2>1. k \in Nat /\ m \in Nat
    OBVIOUS
  <2>2. k < m => <<k, m>> \in R
    BY <2>1
  <2>3. ~(k < m)
    BY <1>2, <2>2
  <2> QED BY <2>1, <2>3
<1> QED BY <1>3

LEMMA NatSetInduction ==
  ASSUME NEW A, 0 \in A, \A n \in Nat : n \in A => n + 1 \in A
  PROVE  Nat \subseteq A
<1> SUFFICES ASSUME Nat \ A # {} PROVE FALSE
  OBVIOUS
<1>1. PICK m \in Nat \ A : \A k \in Nat \ A : m <= k
  BY LeastOf
<1>2. m # 0 /\ m - 1 \in Nat /\ m - 1 < m
  BY <1>1
<1>3. m - 1 \in A
  BY <1>1, <1>2
<1>4. (m - 1) + 1 \in A
  BY <1>2, <1>3
<1>5. (m - 1) + 1 = m
  BY <1>1
<1> QED BY <1>1, <1>4, <1>5

\* A finite set with a strict order has a member that none comes before.
LEMMA SomeFirst ==
  ASSUME NEW S, IsFiniteSet(S), S # {}, NEW R,
         \A x \in S : <<x, x>> \notin R,
         \A x, y, z \in S : <<x, y>> \in R /\ <<y, z>> \in R => <<x, z>> \in R
  PROVE  \E x \in S : \A y \in S : <<y, x>> \notin R
<1> DEFINE Ahead(x) == {y \in S : <<y, x>> \in R}
           rank == [x \in S |-> Cardinality(Ahead(x))]
           N == {rank[x] : x \in S}
<1>1. \A x \in S : IsFiniteSet(Ahead(x)) /\ Cardinality(Ahead(x)) \in Nat
  BY FS_Subset, FS_CardinalityType
<1>2. rank \in [S -> Nat]
  BY <1>1
<1>3. PICK x \in S : \A y \in S : rank[x] <= rank[y]
  <2> HIDE DEF rank
  <2>1. N \in SUBSET Nat /\ N # {}
    BY <1>2
  <2>2. PICK m \in N : \A k \in N : m <= k
    BY <2>1, LeastOf
  <2> QED BY <2>2
<1>4. ASSUME NEW y \in S, <<y, x>> \in R PROVE FALSE
  <2>1. Ahead(y) \in SUBSET Ahead(x) /\ Ahead(y) # Ahead(x)
    BY <1>4
  <2>2. Cardinality(Ahead(y)) <= Cardinality(Ahead(x)) /\ Cardinality(Ahead(y)) # Cardinality(Ahead(x))
    <3> HIDE DEF Ahead
    <3> QED BY <1>1, <2>1, FS_Subset
  <2>3. Cardinality(Ahead(x)) <= Cardinality(Ahead(y))
    BY <1>3
  <2>4. Cardinality(Ahead(x)) \in Nat /\ Cardinality(Ahead(y)) \in Nat
    BY <1>1
  <2> HIDE DEF Ahead
  <2> QED BY <2>2, <2>3, <2>4
<1> QED BY <1>4

\* A finite set of numbers can be listed in ascending order.
Ascends(s) == \A i, j \in DOMAIN s : i < j => s[i] < s[j]

LEMMA AscendingIs ==
  ASSUME NEW S \in SUBSET Nat, IsFiniteSet(S)
  PROVE  /\ Cardinality(S) \in Nat
         /\ Ascending(S) \in [1..Cardinality(S) -> S]
         /\ Ascending(S) \in Seq(S) /\ Len(Ascending(S)) = Cardinality(S)
<1> DEFINE Lists(X, s) == s \in [1..Cardinality(X) -> X] /\ Ascends(s)
           Below(n) == {X \in SUBSET Nat : \A x \in X : x < n}
           A == {n \in Nat : \A X \in Below(n) : IsFiniteSet(X) => \E s : Lists(X, s)}
<1>1. 0 \in A
  <2> SUFFICES ASSUME NEW X \in Below(0) PROVE \E s : Lists(X, s)
    OBVIOUS
  <2>1. X = {}
    OBVIOUS
  <2>2. Cardinality(X) = 0
    BY <2>1, FS_EmptySet
  <2>3. Lists(X, [i \in 1..0 |-> 0])
    BY <2>1, <2>2 DEF Ascends
  <2> QED BY <2>3
<1>2. ASSUME NEW n \in Nat, n \in A PROVE n + 1 \in A
  <2> SUFFICES ASSUME NEW X \in Below(n + 1), IsFiniteSet(X) PROVE \E s : Lists(X, s)
    OBVIOUS
  <2>1. CASE n \notin X
    <3>1. X \in Below(n)
      BY <2>1
    <3> QED BY <1>2, <3>1
  <2>2. CASE n \in X
    <3> DEFINE Y == X \ {n}
               c == Cardinality(Y)
    <3>1. IsFiniteSet(Y) /\ c \in Nat /\ Cardinality(X) = c + 1
      <4>1. IsFiniteSet(Y) /\ Cardinality(Y) = Cardinality(X) - 1
        BY <2>2, FS_RemoveElement
      <4>2. Cardinality(X) \in Nat /\ Cardinality(Y) \in Nat
        BY <4>1, FS_CardinalityType
      <4> QED BY <4>1, <4>2
    <3>2. Y \in Below(n)
      OBVIOUS
    <3>3. PICK s : Lists(Y, s)
      BY <1>2, <3>1, <3>2
    <3> HIDE DEF c
    <3>4. s \in [1..c -> Y] /\ Ascends(s)
      BY <3>3 DEF c
    <3> DEFINE u == [i \in 1..(c + 1) |-> IF i = c + 1 THEN n ELSE s[i]]
    <3>5. u \in [1..(c + 1) -> X]
      BY <2>2, <3>1, <3>4
    <3>6. ASSUME NEW i \in 1..(c + 1), NEW j \in 1..(c + 1), i < j PROVE u[i] < u[j]
      <4>1. i \in 1..c /\ u[i] = s[i] /\ s[i] \in Y
        BY <3>1, <3>4, <3>6
      <4>2. CASE j = c + 1
        BY <3>1, <3>2, <4>1, <4>2
      <4>3. CASE j # c + 1
        BY <3>1, <3>4, <3>6, <4>1, <4>3 DEF Ascends
      <4> QED BY <4>2, <4>3
    <3>7. Ascends(u)
      BY <3>6 DEF Ascends
    <3>8. Lists(X, u)
      BY <3>1, <3>5, <3>7
    <3> QED BY <3>8
  <2> QED BY <2>1, <2>2
<1>3. \E n \in Nat : S \in Below(n)
  <2>1. CASE S = {}
    BY <2>1
  <2>2. CASE S # {}
    <3> DEFINE R == {p \in S \X S : p[2] < p[1]}
    <3>1. PICK x \in S : \A y \in S : <<y, x>> \notin R
      <4>1. \A y \in S : y \in Nat
        OBVIOUS
      <4>2. \A y \in S : <<y, y>> \notin R
        BY <4>1
      <4>3. \A x, y, z \in S : <<x, y>> \in R /\ <<y, z>> \in R => <<x, z>> \in R
        BY <4>1
      <4> HIDE DEF R
      <4> QED BY <2>2, <4>2, <4>3, SomeFirst
    <3>2. ASSUME NEW y \in S PROVE y <= x
      <4>1. y \in Nat /\ x \in Nat
        OBVIOUS
      <4>2. x < y => <<y, x>> \in R
        OBVIOUS
      <4> QED BY <3>1, <4>1, <4>2
    <3>3. \A y \in S : y < x + 1
      BY <3>2
    <3>4. S \in Below(x + 1) /\ x + 1 \in Nat
      BY <3>3
    <3> QED BY <3>4
  <2> QED BY <2>1, <2>2
<1>4. Nat \subseteq A
  <2> HIDE DEF A
  <2> QED BY <1>1, <1>2, NatSetInduction
<1>5. \E s : Lists(S, s)
  BY <1>3, <1>4
<1>6. Lists(S, Ascending(S))
  BY <1>5 DEF Ascending, Ascends
<1>7. Cardinality(S) \in Nat
  BY FS_CardinalityType
<1> QED BY <1>6, <1>7

-----------------------------------------------------------------------------
(***************************************************************************)
(* Sound tables.                                                           *)
(***************************************************************************)
Metrics == {NoTime} \cup ((0..(HORIZON_MS - 1)) \X (1..HopLimit))
Routes == [dest : Nat, via : Neighbours, quality : 0..255, obs : 1..ObsInit, inp3 : Metrics]
Tables == [routes : SUBSET Routes, nbrs : SUBSET Neighbours, gone : SUBSET Nat]

\* The neighbours the routes to d go by.
Hops(t, d) == {r.via : r \in RoutesTo(t, d)}

Distinct(S) == \A r, s \in S : r.dest = s.dest /\ r.via = s.via => r = s

Worthy(r) == r.dest # Me /\ (Usable(r.quality) \/ r.inp3 # NoTime)

Shaped(t) ==
  /\ t \in Tables /\ IsFiniteSet(t.routes) /\ IsFiniteSet(t.nbrs)
  /\ Distinct(t.routes) /\ \A r \in t.routes : Worthy(r)

Capped(t) ==
  /\ \A d \in Nat : Cardinality(Hops(t, d)) <= MaxRoutes
  /\ Cardinality(Destinations(t)) <= MaxDests
  /\ Cardinality(t.nbrs) <= MaxNbrs

SoundTable(t) == Shaped(t) /\ Capped(t)

LEMMA Bounds ==
  /\ MaxDests \in Nat \ {0} /\ MaxRoutes \in Nat \ {0} /\ MaxNbrs \in Nat \ {0}
  /\ ObsInit \in Nat \ {0} /\ HopLimit \in Nat \ {0}
  /\ ObsMin \in 0..255 /\ MinQuality \in 0..255 /\ DefaultQuality \in 0..255
  /\ Me \in Nat /\ Neighbours \subseteq Nat \ {Me}
  /\ MaxSaved \in Nat /\ FrameEntries \in Nat
BY TableAssumption, NodeAssumption

LEMMA RoutesToIs ==
  ASSUME NEW t, Shaped(t), NEW d
  PROVE  /\ RoutesTo(t, d) \in SUBSET Routes /\ IsFiniteSet(RoutesTo(t, d))
         /\ Distinct(RoutesTo(t, d)) /\ \A r \in RoutesTo(t, d) : r.dest = d
         /\ Cardinality(RoutesTo(t, d)) \in Nat
<1>1. t.routes \in SUBSET Routes /\ RoutesTo(t, d) \in SUBSET t.routes
  BY DEF Shaped, Tables, RoutesTo
<1>2. IsFiniteSet(RoutesTo(t, d))
  BY <1>1, FS_Subset DEF Shaped
<1>3. Cardinality(RoutesTo(t, d)) \in Nat
  BY <1>2, FS_CardinalityType
<1> QED BY <1>1, <1>2, <1>3 DEF Shaped, Distinct, RoutesTo

\* As many routes to d as neighbours they go by.
LEMMA HopsCount ==
  ASSUME NEW t, Shaped(t), NEW d
  PROVE  /\ IsFiniteSet(Hops(t, d)) /\ Cardinality(Hops(t, d)) = Cardinality(RoutesTo(t, d))
         /\ IsFiniteSet(Destinations(t)) /\ Cardinality(Destinations(t)) \in Nat
<1> DEFINE S == RoutesTo(t, d)
           T == Hops(t, d)
           f == [r \in S |-> r.via]
           g == [r \in t.routes |-> r.dest]
<1>1. f \in Surjection(S, T)
  BY DEF Surjection, Hops
<1>2. \A r, s \in S : f[r] = f[s] => r = s
  BY RoutesToIs DEF Distinct
<1>3. f \in Injection(S, T)
  <2>1. f \in [S -> T]
    BY DEF Hops
  <2> HIDE DEF f
  <2> QED BY <1>2, <2>1, Fun_IsInj
<1>4. IsFiniteSet(S)
  BY RoutesToIs
<1>5. IsFiniteSet(T) /\ Cardinality(T) = Cardinality(S)
  <2> HIDE DEF S, T, f
  <2> QED BY <1>1, <1>3, <1>4, FS_Surjection
<1>6. g \in Surjection(t.routes, Destinations(t))
  BY DEF Surjection, Destinations
<1>7. IsFiniteSet(Destinations(t))
  <2> HIDE DEF g
  <2> QED BY <1>6, FS_Surjection DEF Shaped
<1>8. Cardinality(Destinations(t)) \in Nat
  BY <1>7, FS_CardinalityType
<1> QED BY <1>5, <1>7, <1>8

\* A table whose routes go where those of a sound one go keeps the caps.
LEMMA NarrowerIsCapped ==
  ASSUME NEW t, SoundTable(t), NEW u, Shaped(u), Cardinality(u.nbrs) <= MaxNbrs,
         \A r \in u.routes : \E s \in t.routes : s.dest = r.dest /\ s.via = r.via
  PROVE  Capped(u)
<1>1. ASSUME NEW d \in Nat PROVE Cardinality(Hops(u, d)) <= MaxRoutes
  <2>1. Hops(u, d) \in SUBSET Hops(t, d)
    BY DEF Hops, RoutesTo
  <2>2. IsFiniteSet(Hops(t, d)) /\ Cardinality(Hops(t, d)) <= MaxRoutes
    BY HopsCount DEF SoundTable, Capped
  <2>3. Cardinality(Hops(u, d)) <= Cardinality(Hops(t, d))
    BY <2>1, <2>2, FS_Subset
  <2>4. Cardinality(Hops(u, d)) \in Nat /\ Cardinality(Hops(t, d)) \in Nat
    BY HopsCount, RoutesToIs DEF SoundTable
  <2> QED BY <2>2, <2>3, <2>4, Bounds
<1>2. Cardinality(Destinations(u)) <= MaxDests
  <2>1. Destinations(u) \in SUBSET Destinations(t)
    BY DEF Destinations
  <2>2. IsFiniteSet(Destinations(t)) /\ Cardinality(Destinations(t)) <= MaxDests
    BY HopsCount DEF SoundTable, Capped
  <2>3. Cardinality(Destinations(u)) <= Cardinality(Destinations(t))
    BY <2>1, <2>2, FS_Subset
  <2>4. Cardinality(Destinations(u)) \in Nat /\ Cardinality(Destinations(t)) \in Nat
    BY HopsCount DEF SoundTable
  <2> QED BY <2>2, <2>3, <2>4, Bounds
<1> QED BY <1>1, <1>2 DEF Capped

\* The best and the worst of some routes to a destination are among them.
LEMMA BetterOrders ==
  /\ \A r, s, x \in Routes : Better(r, s) /\ Better(s, x) => Better(r, x)
  /\ \A r \in Routes : ~Better(r, r)
  /\ \A r, s \in Routes : r.via # s.via => Better(r, s) \/ Better(s, r)
<1>1. \A r \in Routes : r.via \in Nat /\ r.quality \in Nat
  <2> SUFFICES ASSUME NEW r \in Routes PROVE r.via \in Nat /\ r.quality \in Nat
    OBVIOUS
  <2>1. r.via \in Neighbours /\ r.quality \in 0..255
    BY DEF Routes
  <2>2. r.via \in Nat
    BY <2>1, Bounds, Zenon
  <2> QED BY <2>1, <2>2
<1> QED BY <1>1 DEF Better

LEMMA BestIs ==
  ASSUME NEW S \in SUBSET Routes, IsFiniteSet(S), S # {},
         \A r, s \in S : r.via = s.via => r = s
  PROVE  Best(S) \in S /\ Worst(S) \in S
<1> DEFINE R == {p \in S \X S : Better(p[1], p[2])}
           Q == {p \in S \X S : Better(p[2], p[1])}
<1>1. \E r \in S : \A s \in S : <<s, r>> \notin R
  <2>1. \A r \in S : <<r, r>> \notin R
    BY BetterOrders
  <2>2. \A r, s, x \in S : <<r, s>> \in R /\ <<s, x>> \in R => <<r, x>> \in R
    BY BetterOrders
  <2> HIDE DEF R
  <2> QED BY <2>1, <2>2, SomeFirst
<1>2. \E r \in S : \A s \in S : <<s, r>> \notin Q
  <2>1. \A r \in S : <<r, r>> \notin Q
    BY BetterOrders
  <2>2. \A r, s, x \in S : <<r, s>> \in Q /\ <<s, x>> \in Q => <<r, x>> \in Q
    BY BetterOrders
  <2> HIDE DEF Q
  <2> QED BY <2>1, <2>2, SomeFirst
<1>3. \E r \in S : \A s \in S \ {r} : Better(r, s)
  BY <1>1, BetterOrders
<1>4. \E r \in S : \A s \in S \ {r} : Better(s, r)
  BY <1>2, BetterOrders
<1>5. Best(S) \in S
  BY <1>3 DEF Best
<1>6. Worst(S) \in S
  BY <1>4 DEF Worst
<1> QED BY <1>5, <1>6

-----------------------------------------------------------------------------
(***************************************************************************)
(* One entry.                                                              *)
(***************************************************************************)
\* t with the routes S.
With(t, S) == [t EXCEPT !.routes = S]

LEMMA WithIs ==
  ASSUME NEW t \in Tables, NEW S \in SUBSET Routes
  PROVE  /\ With(t, S) \in Tables /\ With(t, S).routes = S
         /\ With(t, S).nbrs = t.nbrs /\ With(t, S).gone = t.gone
BY DEF With, Tables

\* Routes may go.
LEMMA RemovedIsSound ==
  ASSUME NEW t, SoundTable(t), NEW S \in SUBSET t.routes
  PROVE  SoundTable(With(t, S))
<1> DEFINE u == With(t, S)
<1>1. /\ t \in Tables /\ S \in SUBSET Routes /\ IsFiniteSet(t.routes)
      /\ IsFiniteSet(t.nbrs) /\ Cardinality(t.nbrs) <= MaxNbrs
  BY DEF SoundTable, Shaped, Tables, Capped
<1>2. u \in Tables /\ u.routes = S /\ u.nbrs = t.nbrs
  BY <1>1, WithIs
<1>3. IsFiniteSet(S)
  BY <1>1, FS_Subset
<1> HIDE DEF u
<1>4. Shaped(u)
  BY <1>1, <1>2, <1>3 DEF SoundTable, Shaped, Distinct
<1>5. \A r \in u.routes : \E s \in t.routes : s.dest = r.dest /\ s.via = r.via
  BY <1>2
<1>6. Capped(u)
  BY <1>1, <1>2, <1>4, <1>5, NarrowerIsCapped
<1> QED BY <1>4, <1>6 DEF SoundTable, u

\* A route that is new: its neighbour has no other to its destination.
Fresh(S, new) == \A r \in S : ~(r.dest = new.dest /\ r.via = new.via)

LEMMA AddedIsShaped ==
  ASSUME NEW t, Shaped(t), NEW S \in SUBSET t.routes, NEW new \in Routes, Worthy(new),
         Fresh(S, new)
  PROVE  Shaped(With(t, S \cup {new}))
<1> DEFINE u == With(t, S \cup {new})
<1>1. /\ t \in Tables /\ S \in SUBSET Routes /\ IsFiniteSet(t.routes) /\ IsFiniteSet(t.nbrs)
      /\ Distinct(S) /\ \A r \in S : Worthy(r)
  BY DEF Shaped, Tables, Distinct
<1>2. u \in Tables /\ u.routes = S \cup {new} /\ u.nbrs = t.nbrs
  BY <1>1, WithIs
<1>3. IsFiniteSet(S \cup {new})
  BY <1>1, FS_Subset, FS_AddElement
<1>4. Distinct(S \cup {new})
  BY <1>1 DEF Distinct, Fresh
<1> QED BY <1>1, <1>2, <1>3, <1>4 DEF Shaped

LEMMA OneMore ==
  ASSUME NEW S, IsFiniteSet(S), NEW x
  PROVE  /\ IsFiniteSet(S \cup {x}) /\ Cardinality(S) \in Nat /\ Cardinality(S \cup {x}) \in Nat
         /\ Cardinality(S \cup {x}) <= Cardinality(S) + 1
<1>1. /\ IsFiniteSet(S \cup {x})
      /\ Cardinality(S \cup {x}) = IF x \in S THEN Cardinality(S) ELSE Cardinality(S) + 1
  BY FS_AddElement
<1>2. Cardinality(S) \in Nat /\ Cardinality(S \cup {x}) \in Nat
  BY <1>1, FS_CardinalityType
<1> QED BY <1>1, <1>2

\* The cap on the routes to one destination.
CapsRoutes(t) == \A d \in Nat : Cardinality(Hops(t, d)) <= MaxRoutes

LEMMA CapsAre ==
  ASSUME NEW t
  PROVE  Capped(t) <=> /\ CapsRoutes(t) /\ Cardinality(Destinations(t)) <= MaxDests
                       /\ Cardinality(t.nbrs) <= MaxNbrs
BY DEF Capped, CapsRoutes

LEMMA AddedIsCapped ==
  ASSUME NEW t, SoundTable(t), NEW new \in Routes, Worthy(new), Fresh(t.routes, new),
         HasRoom(t, new.dest)
  PROVE  Capped(With(t, t.routes \cup {new}))
<1> DEFINE u == With(t, t.routes \cup {new})
           d == new.dest
<1>1. /\ t \in Tables /\ t.routes \in SUBSET Routes /\ d \in Nat
      /\ Shaped(t) /\ Cardinality(t.nbrs) <= MaxNbrs
      /\ Cardinality(Destinations(t)) <= MaxDests /\ CapsRoutes(t)
  BY CapsAre DEF SoundTable, Shaped, Tables, Routes
<1>2. u.routes = t.routes \cup {new} /\ u.nbrs = t.nbrs
  BY <1>1, WithIs
<1> HIDE DEF u
<1>3. \A e : Hops(u, e) = IF e = d THEN Hops(t, e) \cup {new.via} ELSE Hops(t, e)
  BY <1>2 DEF Hops, RoutesTo
<1>4. Destinations(u) = Destinations(t) \cup {d}
  BY <1>2 DEF Destinations
<1>5. IsFiniteSet(Hops(t, d)) /\ Cardinality(Hops(t, d)) = Cardinality(RoutesTo(t, d))
      /\ IsFiniteSet(Destinations(t)) /\ Cardinality(Destinations(t)) \in Nat
      /\ Cardinality(RoutesTo(t, d)) \in Nat
  BY <1>1, HopsCount, RoutesToIs
<1>6. Cardinality(Hops(t, d) \cup {new.via}) <= Cardinality(RoutesTo(t, d)) + 1
  BY <1>5, OneMore
<1>7. MaxRoutes \in Nat \ {0} /\ MaxDests \in Nat \ {0}
  BY Bounds
<1>8. RoutesTo(t, d) = {} => Cardinality(RoutesTo(t, d)) = 0
  BY FS_EmptySet
<1>9. Cardinality(Hops(u, d)) <= MaxRoutes
  <2>1. IsFiniteSet(Hops(t, d) \cup {new.via}) /\ Cardinality(Hops(t, d) \cup {new.via}) \in Nat
    BY <1>5, FS_AddElement, FS_CardinalityType
  <2>2. Cardinality(RoutesTo(t, d)) + 1 <= MaxRoutes
    BY <1>5, <1>7, <1>8 DEF HasRoom
  <2> QED BY <1>3, <1>5, <1>6, <1>7, <2>1, <2>2
<1>10. CapsRoutes(u)
  BY <1>1, <1>3, <1>9 DEF CapsRoutes
<1>11. Cardinality(Destinations(u)) <= MaxDests
  <2>1. CASE RoutesTo(t, d) = {} /\ Cardinality(Destinations(t)) < MaxDests
    <3>1. /\ Cardinality(Destinations(t) \cup {d}) \in Nat
          /\ Cardinality(Destinations(t) \cup {d}) <= Cardinality(Destinations(t)) + 1
      BY <1>5, OneMore
    <3> QED BY <1>4, <1>5, <1>7, <2>1, <3>1
  <2>2. CASE Cardinality(RoutesTo(t, d)) \in 1..(MaxRoutes - 1)
    <3>1. RoutesTo(t, d) # {}
      BY <1>8, <2>2
    <3>2. d \in Destinations(t)
      BY <3>1 DEF RoutesTo, Destinations
    <3>3. Destinations(u) = Destinations(t)
      BY <1>4, <3>2
    <3> QED BY <1>1, <3>3
  <2> QED BY <2>1, <2>2 DEF HasRoom
<1>12. Capped(u)
  BY <1>1, <1>2, <1>10, <1>11, CapsAre
<1> QED BY <1>12 DEF u

\* A route to the same destination goes for the new one.
LEMMA SwappedIsCapped ==
  ASSUME NEW t, SoundTable(t), NEW old \in t.routes, NEW new \in Routes, Worthy(new),
         old.dest = new.dest, Fresh(t.routes \ {old}, new)
  PROVE  Capped(With(t, (t.routes \ {old}) \cup {new}))
<1> DEFINE u == With(t, (t.routes \ {old}) \cup {new})
           d == new.dest
<1>1. /\ t \in Tables /\ t.routes \in SUBSET Routes /\ d \in Nat
      /\ Shaped(t) /\ Cardinality(t.nbrs) <= MaxNbrs
      /\ Cardinality(Destinations(t)) <= MaxDests /\ CapsRoutes(t)
      /\ Distinct(t.routes)
  BY CapsAre DEF SoundTable, Shaped, Tables, Routes
<1>2. u.routes = (t.routes \ {old}) \cup {new} /\ u.nbrs = t.nbrs
  BY <1>1, WithIs
<1> HIDE DEF u
<1>3. \A e : e # d => Hops(u, e) = Hops(t, e)
  BY <1>2 DEF Hops, RoutesTo
<1>4. Hops(u, d) = (Hops(t, d) \ {old.via}) \cup {new.via} /\ old.via \in Hops(t, d)
  BY <1>1, <1>2 DEF Hops, RoutesTo, Distinct
<1>5. Destinations(u) = Destinations(t)
  BY <1>2 DEF Destinations
<1>6. IsFiniteSet(Hops(t, d)) /\ Cardinality(Hops(t, d)) \in Nat
  BY <1>1, HopsCount, RoutesToIs
<1>7. Cardinality(Hops(u, d)) <= Cardinality(Hops(t, d))
  <2> DEFINE H == Hops(t, d) \ {old.via}
  <2>1. IsFiniteSet(H) /\ Cardinality(H) = Cardinality(Hops(t, d)) - 1
    BY <1>4, <1>6, FS_RemoveElement
  <2>2. Cardinality(H \cup {new.via}) = IF new.via \in H THEN Cardinality(H) ELSE Cardinality(H) + 1
    <3> HIDE DEF H
    <3> QED BY <2>1, FS_AddElement
  <2> HIDE DEF H
  <2>3. Hops(u, d) = H \cup {new.via}
    BY <1>4 DEF H
  <2> QED BY <1>6, <2>1, <2>2, <2>3
<1>8. IsFiniteSet(Hops(u, d)) /\ Cardinality(Hops(u, d)) \in Nat
  <2>1. IsFiniteSet(Hops(t, d) \ {old.via})
    BY <1>6, FS_RemoveElement
  <2> QED BY <1>4, <2>1, OneMore
<1>9. CapsRoutes(u)
  BY <1>1, <1>3, <1>6, <1>7, <1>8, Bounds DEF CapsRoutes
<1>10. Capped(u)
  BY <1>1, <1>2, <1>5, <1>9, CapsAre
<1> QED BY <1>10 DEF u

\* The route placed is new or goes where it was, and a route it displaces went to
\* the same destination.
Placed(t, u, new) ==
  /\ SoundTable(u) /\ u.gone = t.gone /\ u.nbrs = t.nbrs
  /\ u.routes \subseteq t.routes \cup {new}
  /\ \A r \in t.routes : r \in u.routes \/ (r.dest = new.dest /\ new \in u.routes)

LEMMA PlaceIs ==
  ASSUME NEW t, SoundTable(t), NEW new \in Routes, Worthy(new)
  PROVE  Placed(t, Place(t, new), new)
<1> DEFINE same == RouteVia(t, new.dest, new.via)
           worst == Worst(RoutesTo(t, new.dest))
<1>1. /\ t \in Tables /\ t.routes \in SUBSET Routes /\ new.dest \in Nat
      /\ Shaped(t) /\ Distinct(t.routes)
  BY DEF SoundTable, Shaped, Tables, Routes
<1>2. ASSUME NEW old \in t.routes, old.dest = new.dest, Fresh(t.routes \ {old}, new)
      PROVE  Placed(t, With(t, (t.routes \ {old}) \cup {new}), new)
  <2> DEFINE u == With(t, (t.routes \ {old}) \cup {new})
  <2>1. Shaped(u) /\ Capped(u)
    BY <1>1, <1>2, AddedIsShaped, SwappedIsCapped
  <2>2. u.routes = (t.routes \ {old}) \cup {new} /\ u.gone = t.gone /\ u.nbrs = t.nbrs
    BY <1>1, WithIs
  <2> HIDE DEF u
  <2>3. Placed(t, u, new)
    BY <1>2, <2>1, <2>2 DEF Placed, SoundTable
  <2> QED BY <2>3 DEF u
<1>3. CASE same # {}
  <2>1. PICK old \in t.routes : old.dest = new.dest /\ old.via = new.via
    BY <1>3 DEF RouteVia, RoutesTo
  <2>2. same = {old} /\ Fresh(t.routes \ {old}, new)
    BY <1>1, <2>1 DEF RouteVia, RoutesTo, Distinct, Fresh
  <2>3. Place(t, new) = With(t, (t.routes \ {old}) \cup {new})
    BY <1>3, <2>2 DEF Place, With
  <2> QED BY <1>2, <2>1, <2>2, <2>3
<1>4. CASE same = {}
  <2>1. Fresh(t.routes, new)
    BY <1>4 DEF RouteVia, RoutesTo, Fresh
  <2>2. CASE HasRoom(t, new.dest)
    <3>1. ~BeatsWorst(t, new)
      <4>1. RoutesTo(t, new.dest) = {} => Cardinality(RoutesTo(t, new.dest)) = 0
        BY FS_EmptySet
      <4>2. Cardinality(RoutesTo(t, new.dest)) \in Nat /\ MaxRoutes \in Nat \ {0}
        BY <1>1, RoutesToIs, Bounds
      <4> QED BY <2>2, <4>1, <4>2 DEF HasRoom, BeatsWorst
    <3>2. Place(t, new) = With(t, t.routes \cup {new})
      <4>1. Place(t, new) = With(t, (t.routes \ {}) \cup {new})
        BY <1>4, <2>2, <3>1 DEF Place, With
      <4> QED BY <4>1
    <3> DEFINE u == With(t, t.routes \cup {new})
    <3>3. Shaped(u) /\ Capped(u)
      BY <1>1, <2>1, <2>2, AddedIsShaped, AddedIsCapped
    <3>4. u.routes = t.routes \cup {new} /\ u.gone = t.gone /\ u.nbrs = t.nbrs
      BY <1>1, WithIs
    <3> HIDE DEF u
    <3>5. Placed(t, u, new)
      BY <3>3, <3>4 DEF Placed, SoundTable
    <3> QED BY <3>2, <3>5 DEF u
  <2>3. CASE ~HasRoom(t, new.dest) /\ BeatsWorst(t, new)
    <3>1. RoutesTo(t, new.dest) # {}
      <4>1. RoutesTo(t, new.dest) = {} => Cardinality(RoutesTo(t, new.dest)) = 0
        BY FS_EmptySet
      <4>2. MaxRoutes \in Nat \ {0}
        BY Bounds
      <4> QED BY <2>3, <4>1, <4>2 DEF BeatsWorst
    <3>2. worst \in RoutesTo(t, new.dest)
      BY <1>1, <3>1, RoutesToIs, BestIs DEF Distinct
    <3>3. worst \in t.routes /\ worst.dest = new.dest /\ Fresh(t.routes \ {worst}, new)
      BY <2>1, <3>2 DEF RoutesTo, Fresh
    <3>4. Place(t, new) = With(t, (t.routes \ {worst}) \cup {new})
      BY <1>4, <2>3 DEF Place, With
    <3> QED BY <1>2, <3>3, <3>4
  <2>4. CASE ~HasRoom(t, new.dest) /\ ~BeatsWorst(t, new)
    <3>1. Place(t, new) = t
      BY <1>4, <2>4 DEF Place
    <3> QED BY <3>1 DEF Placed
  <2> QED BY <2>2, <2>3, <2>4
<1> QED BY <1>3, <1>4

\* Neighbour n changes routes of its own only, but for those it displaces, and
\* what is recorded as withdrawn stays recorded.
Heeds(t, u, n) ==
  /\ SoundTable(u) /\ t.gone \subseteq u.gone
  /\ \A r \in u.routes : r \in t.routes \/ r.via = n

\* The destinations a neighbour was rightly told of, or is about to be told of.
Covered(t) == Timed(t) \cup t.gone

HeedsTimes(t, u, n) == Heeds(t, u, n) /\ Covered(t) \subseteq Covered(u)

LEMMA HeedsOn ==
  ASSUME NEW t, NEW n, SoundTable(t), NEW u, Heeds(t, u, n), NEW v
  PROVE  /\ Heeds(u, v, n) => Heeds(t, v, n)
         /\ HeedsTimes(t, u, n) /\ HeedsTimes(u, v, n) => HeedsTimes(t, v, n)
BY DEF Heeds, HeedsTimes

LEMMA HeedsNothing ==
  ASSUME NEW t, SoundTable(t), NEW n
  PROVE  Heeds(t, t, n) /\ HeedsTimes(t, t, n)
BY DEF Heeds, HeedsTimes

LEMMA RouteViaIs ==
  ASSUME NEW t, SoundTable(t), NEW d, NEW n
  PROVE  /\ RouteVia(t, d, n) \in SUBSET t.routes
         /\ \A r \in RouteVia(t, d, n) : r.dest = d /\ r.via = n
         /\ RouteVia(t, d, n) # {} =>
              Best(RouteVia(t, d, n)) \in t.routes /\ Best(RouteVia(t, d, n)) \in Routes
<1>1. /\ t.routes \in SUBSET Routes /\ Shaped(t)
  BY DEF SoundTable, Shaped, Tables
<1>2. /\ RouteVia(t, d, n) \in SUBSET RoutesTo(t, d) /\ RoutesTo(t, d) \in SUBSET t.routes
      /\ \A r \in RouteVia(t, d, n) : r.dest = d /\ r.via = n
  BY DEF RouteVia, RoutesTo
<1>3. IsFiniteSet(RouteVia(t, d, n))
  BY <1>1, <1>2, RoutesToIs, FS_Subset
<1>4. \A r, s \in RouteVia(t, d, n) : r.via = s.via => r = s
  BY <1>1, <1>2 DEF Shaped, Distinct
<1>5. RouteVia(t, d, n) # {} => Best(RouteVia(t, d, n)) \in RouteVia(t, d, n)
  BY <1>1, <1>2, <1>3, <1>4, BestIs
<1> QED BY <1>1, <1>2, <1>5

LEMMA UpsertRouteIs ==
  ASSUME NEW t, SoundTable(t), NEW d \in Nat \ {Me}, NEW n \in Neighbours, NEW q \in 0..255
  PROVE  Heeds(t, UpsertRoute(t, d, n, q), n)
<1> DEFINE old == RouteVia(t, d, n)
           time == IF old = {} THEN NoTime ELSE Best(old).inp3
           new == [dest |-> d, via |-> n, quality |-> q, obs |-> ObsInit, inp3 |-> time]
<1>1. CASE ~Usable(q)
  <2>1. UpsertRoute(t, d, n, q) = With(t, t.routes \ old)
    BY <1>1 DEF UpsertRoute, With
  <2>2. /\ SoundTable(With(t, t.routes \ old)) /\ With(t, t.routes \ old).routes = t.routes \ old
        /\ With(t, t.routes \ old).gone = t.gone
    BY RemovedIsSound, WithIs DEF SoundTable, Shaped, Tables
  <2> QED BY <2>1, <2>2 DEF Heeds
<1>2. CASE Usable(q)
  <2>1. time \in Metrics
    <3>1. old # {} => Best(old) \in Routes
      BY RouteViaIs
    <3> QED BY <3>1 DEF Routes, Metrics
  <2>2. new \in Routes /\ Worthy(new) /\ new.via = n
    <3>1. ObsInit \in 1..ObsInit
      BY Bounds
    <3> HIDE DEF time
    <3> QED BY <1>2, <2>1, <3>1 DEF Routes, Worthy
  <2>3. UpsertRoute(t, d, n, q) = Place(t, new)
    BY <1>2 DEF UpsertRoute
  <2> HIDE DEF new
  <2>4. Placed(t, Place(t, new), new)
    BY <2>2, PlaceIs
  <2> QED BY <2>2, <2>3, <2>4 DEF Placed, Heeds
<1> QED BY <1>1, <1>2

LEMMA UpsertInp3RouteIs ==
  ASSUME NEW t, SoundTable(t), NEW d \in Nat \ {Me}, NEW n \in Neighbours,
         NEW metric \in Metrics \ {NoTime}
  PROVE  HeedsTimes(t, UpsertInp3Route(t, d, n, metric), n)
<1> DEFINE old == RouteVia(t, d, n)
           q == IF old = {} THEN 0 ELSE Best(old).quality
           new == [dest |-> d, via |-> n, quality |-> q, obs |-> ObsInit, inp3 |-> metric]
           u == Place(t, new)
<1>1. q \in 0..255
  <2>1. old # {} => Best(old) \in Routes
    BY RouteViaIs
  <2> QED BY <2>1 DEF Routes
<1>2. new \in Routes /\ Worthy(new) /\ new.via = n /\ new.dest = d /\ new.inp3 # NoTime
  <2>1. ObsInit \in 1..ObsInit
    BY Bounds
  <2> HIDE DEF q
  <2> QED BY <1>1, <2>1 DEF Routes, Worthy
<1>3. UpsertInp3Route(t, d, n, metric) = u
  BY DEF UpsertInp3Route
<1> HIDE DEF new
<1>4. Placed(t, u, new)
  BY <1>2, PlaceIs
<1> HIDE DEF u
<1>5. Timed(t) \subseteq Timed(u)
  BY <1>2, <1>4 DEF Placed, Timed
<1> QED BY <1>2, <1>3, <1>4, <1>5 DEF Placed, Heeds, HeedsTimes, Covered

LEMMA WithdrawInp3Is ==
  ASSUME NEW t, SoundTable(t), NEW d, NEW n \in Neighbours
  PROVE  HeedsTimes(t, WithdrawInp3(t, d, n), n)
<1> DEFINE timed == {r \in RouteVia(t, d, n) : r.inp3 # NoTime}
           kept == {s \in timed : Usable(s.quality)}
           left == {[r EXCEPT !.inp3 = NoTime] : r \in kept}
           S == (t.routes \ timed) \cup left
           cleared == With(t, S)
           lost == {r.dest : r \in timed} \ Timed(cleared)
           u == [cleared EXCEPT !.gone = @ \cup lost]
<1>1. WithdrawInp3(t, d, n) = u
  BY DEF WithdrawInp3, With
<1>2. /\ t \in Tables /\ t.routes \in SUBSET Routes /\ Shaped(t) /\ Distinct(t.routes)
      /\ IsFiniteSet(t.routes) /\ IsFiniteSet(t.nbrs) /\ Cardinality(t.nbrs) <= MaxNbrs
  BY DEF SoundTable, Shaped, Tables, Capped
<1>3. timed \in SUBSET t.routes /\ \A r \in timed : r.dest = d /\ r.via = n
  BY RouteViaIs
<1>4. ASSUME NEW x \in left
      PROVE  \E r \in kept : /\ x.dest = r.dest /\ x.via = r.via /\ x.quality = r.quality
                             /\ x.inp3 = NoTime /\ x \in Routes
  <2>1. PICK r \in kept : x = [r EXCEPT !.inp3 = NoTime]
    OBVIOUS
  <2>2. r \in Routes
    BY <1>2, <1>3
  <2>3. NoTime \in Metrics
    BY DEF Metrics
  <2>4. /\ x.dest = r.dest /\ x.via = r.via /\ x.quality = r.quality
        /\ x.inp3 = NoTime /\ x \in Routes
    BY <2>1, <2>2, <2>3 DEF Routes
  <2> QED BY <2>4
<1>5. S \in SUBSET Routes
  BY <1>2, <1>4
<1>6. \A x \in left : x.dest = d /\ x.via = n
  BY <1>3, <1>4
<1>7. \A x, y \in left : x = y
  <2>1. \A r, s \in kept : r = s
    BY <1>2, <1>3 DEF Distinct
  <2> QED BY <2>1
<1>8. Distinct(S)
  <2>1. \A r \in t.routes \ timed : ~(r.dest = d /\ r.via = n) \/ left = {}
    <3> SUFFICES ASSUME NEW r \in t.routes \ timed, r.dest = d, r.via = n, left # {} PROVE FALSE
      OBVIOUS
    <3>1. PICK s \in kept : TRUE
      OBVIOUS
    <3>2. s \in t.routes /\ s \in timed /\ s.dest = d /\ s.via = n
      BY <1>3
    <3> QED BY <1>2, <3>2 DEF Distinct
  <2> HIDE DEF left, timed
  <2> QED BY <1>2, <1>6, <1>7, <2>1 DEF Distinct
<1>9. \A x \in S : Worthy(x)
  <2>1. \A r \in t.routes : Worthy(r)
    BY <1>2 DEF Shaped
  <2>2. ASSUME NEW x \in left PROVE Worthy(x)
    BY <1>3, <1>4, <2>1 DEF Worthy
  <2> QED BY <2>1, <2>2
<1>10. IsFiniteSet(S)
  <2>1. IsFiniteSet(t.routes \ timed)
    BY <1>2, FS_Subset
  <2>2. left = {} \/ \E x : left = {x}
    <3> HIDE DEF left
    <3> QED BY <1>7
  <2> HIDE DEF left, timed
  <2>3. CASE left = {}
    BY <2>1, <2>3
  <2>4. CASE \E x : left = {x}
    BY <2>1, <2>4, FS_AddElement
  <2> QED BY <2>2, <2>3, <2>4
<1>11. /\ cleared \in Tables /\ cleared.routes = S /\ cleared.nbrs = t.nbrs /\ cleared.gone = t.gone
  <2> HIDE DEF S
  <2> QED BY <1>2, <1>5, WithIs
<1>12. lost \in SUBSET Nat
  <2>1. \A r \in timed : r.dest \in Nat
    BY <1>2, <1>3 DEF Routes
  <2> QED BY <2>1
<1>13. u \in Tables /\ u.routes = S /\ u.nbrs = t.nbrs /\ u.gone = t.gone \cup lost
  <2> HIDE DEF cleared, lost, S
  <2> QED BY <1>11, <1>12 DEF Tables
<1>14. \A x \in S : \E s \in t.routes : s.dest = x.dest /\ s.via = x.via
  BY <1>3, <1>4
<1>15. \A x \in S : x \in t.routes \/ x.via = n
  BY <1>6
<1>16. Timed(t) \subseteq Timed(u) \cup u.gone
  <2> SUFFICES ASSUME NEW r \in t.routes, r.inp3 # NoTime
               PROVE  r.dest \in Timed(u) \cup u.gone
    BY DEF Timed
  <2>1. CASE r \in timed
    <3>1. r.dest \in lost \/ r.dest \in Timed(cleared)
      BY <2>1
    <3>2. Timed(cleared) = Timed(u)
      BY <1>11, <1>13 DEF Timed
    <3> QED BY <1>13, <3>1, <3>2
  <2>2. CASE r \notin timed
    <3>1. r \in u.routes
      BY <1>13, <2>2
    <3> QED BY <3>1 DEF Timed
  <2> QED BY <2>1, <2>2
<1> HIDE DEF u, S, left, timed, cleared, lost
<1>17. Shaped(u)
  BY <1>2, <1>8, <1>9, <1>10, <1>13 DEF Shaped
<1>18. Capped(u)
  BY <1>2, <1>13, <1>14, <1>17, NarrowerIsCapped
<1> QED BY <1>1, <1>13, <1>15, <1>16, <1>17, <1>18 DEF Heeds, HeedsTimes, Covered, SoundTable

\* A quality is at most the one it was derived from and the path's (combine).
LEMMA CombineIs ==
  ASSUME NEW q \in 0..255, NEW p \in 0..255
  PROVE  Combine(q, p) \in 0..255 /\ Combine(q, p) <= q /\ Combine(q, p) <= p
<1>1. PICK x \in Nat : x = q * p
  OBVIOUS
<1>2. x <= 255 * q /\ x <= 255 * p
  <2>1. q * (255 - p) >= 0 /\ p * (255 - q) >= 0
    OBVIOUS
  <2>2. q * (255 - p) = 255 * q - q * p /\ p * (255 - q) = 255 * p - q * p
    OBVIOUS
  <2> QED BY <1>1, <2>1, <2>2
<1>3. PICK k \in Nat : k = (x + 128) \div 256
  BY <1>1
<1>4. 256 * k <= x + 128
  BY <1>1, <1>3
<1>5. k <= q /\ k <= p
  BY <1>2, <1>4
<1> QED BY <1>1, <1>3, <1>5 DEF Combine

LEMMA MeetIs ==
  ASSUME NEW t, SoundTable(t), NEW n \in Neighbours
  PROVE  Heeds(t, Meet(t, n), n)
<1> DEFINE grown == IF Cardinality(t.nbrs) < MaxNbrs THEN t.nbrs \cup {n} ELSE t.nbrs
           heard == [t EXCEPT !.nbrs = grown]
<1>1. /\ t \in Tables /\ t.nbrs \in SUBSET Neighbours /\ IsFiniteSet(t.nbrs)
      /\ Cardinality(t.nbrs) <= MaxNbrs
  BY DEF SoundTable, Shaped, Capped, Tables
<1>2. IsFiniteSet(grown) /\ Cardinality(grown) <= MaxNbrs /\ grown \in SUBSET Neighbours
  <2>1. CASE Cardinality(t.nbrs) < MaxNbrs
    <3>1. /\ IsFiniteSet(t.nbrs \cup {n}) /\ Cardinality(t.nbrs) \in Nat
          /\ Cardinality(t.nbrs \cup {n}) \in Nat
          /\ Cardinality(t.nbrs \cup {n}) <= Cardinality(t.nbrs) + 1
      BY <1>1, OneMore
    <3> QED BY <1>1, <2>1, <3>1, Bounds
  <2>2. CASE ~(Cardinality(t.nbrs) < MaxNbrs)
    BY <1>1, <2>2
  <2> QED BY <2>1, <2>2
<1>3. heard \in Tables /\ heard.routes = t.routes /\ heard.nbrs = grown /\ heard.gone = t.gone
  <2> HIDE DEF grown
  <2> QED BY <1>1, <1>2 DEF Tables
<1> HIDE DEF grown
<1>4. SoundTable(heard)
  <2> HIDE DEF heard
  <2>1. Shaped(heard)
    BY <1>2, <1>3 DEF SoundTable, Shaped
  <2>2. \A r \in heard.routes : \E s \in t.routes : s.dest = r.dest /\ s.via = r.via
    BY <1>3
  <2> QED BY <1>2, <1>3, <2>1, <2>2, NarrowerIsCapped DEF SoundTable
<1>5. DefaultQuality \in 0..255 /\ n \in Nat \ {Me}
  <2>1. DefaultQuality \in 0..255
    BY Bounds
  <2>2. Neighbours \subseteq Nat \ {Me}
    BY Bounds, Zenon
  <2> QED BY <2>1, <2>2
<1>6. Meet(t, n) = UpsertRoute(heard, n, n, DefaultQuality)
  BY DEF Meet, grown
<1> HIDE DEF heard
<1>7. Heeds(heard, Meet(t, n), n)
  BY <1>4, <1>5, <1>6, UpsertRouteIs
<1> QED BY <1>3, <1>7 DEF Heeds

LEMMA LearnIs ==
  ASSUME NEW t, SoundTable(t), NEW n \in Neighbours, NEW e \in NodesEntries
  PROVE  Heeds(t, Learn(t, Me, n, e), n)
<1>1. e.dest \in Nat /\ e.quality \in 0..255
  BY DEF NodesEntries
<1>2. LearnedQuality(Me, e) \in 0..255
  <2>1. DefaultQuality \in 0..255
    BY Bounds
  <2>2. Combine(e.quality, DefaultQuality) \in 0..255
    <3>1. PICK q \in 0..255 : q = e.quality
      BY <1>1
    <3>2. PICK p \in 0..255 : p = DefaultQuality
      BY <2>1
    <3>3. Combine(q, p) \in 0..255
      BY CombineIs
    <3> QED BY <3>1, <3>2, <3>3
  <2>3. LearnedQuality(Me, e) = 0 \/ LearnedQuality(Me, e) = Combine(e.quality, DefaultQuality)
    BY DEF LearnedQuality
  <2> QED BY <2>2, <2>3
<1>3. CASE e.dest = Me
  <2>1. Learn(t, Me, n, e) = t
    BY <1>3 DEF Learn
  <2> QED BY <2>1, HeedsNothing
<1>4. CASE e.dest # Me
  BY <1>1, <1>2, <1>4, UpsertRouteIs DEF Learn
<1> QED BY <1>3, <1>4

LEMMA LearnRipIs ==
  ASSUME NEW t, SoundTable(t), NEW n \in Neighbours, NEW sntt \in Nat, NEW p \in Rips
  PROVE  HeedsTimes(t, LearnRip(t, Me, n, sntt, p), n)
<1> DEFINE measured == sntt # Unmeasured
           arrival == p.time + sntt + PER_HOP_INCREMENT_MS
           withdrawn == \/ p.time >= HORIZON_MS
                        \/ measured /\ arrival >= HORIZON_MS
<1>1. p.dest \in Nat /\ p.hops \in Nat /\ p.time \in Nat
  BY DEF Rips
<1>2. CASE withdrawn
  <2>1. LearnRip(t, Me, n, sntt, p) = WithdrawInp3(t, p.dest, n)
    BY <1>2 DEF LearnRip
  <2> QED BY <2>1, WithdrawInp3Is
<1>3. CASE ~withdrawn /\ measured /\ p.hops + 1 <= HopLimit /\ p.dest # Me
  <2>1. arrival \in 0..(HORIZON_MS - 1) /\ p.hops + 1 \in 1..HopLimit
    <3>1. arrival \in Nat /\ ~(arrival >= HORIZON_MS)
      BY <1>1, <1>3 DEF PER_HOP_INCREMENT_MS
    <3>2. HORIZON_MS \in Nat /\ HopLimit \in Nat
      BY Bounds DEF HORIZON_MS
    <3> HIDE DEF arrival
    <3> QED BY <1>1, <1>3, <3>1, <3>2
  <2>2. <<arrival, p.hops + 1>> \in Metrics \ {NoTime}
    BY <2>1 DEF Metrics, NoTime
  <2>3. LearnRip(t, Me, n, sntt, p) = UpsertInp3Route(t, p.dest, n, <<arrival, p.hops + 1>>)
    BY <1>3 DEF LearnRip
  <2> HIDE DEF arrival
  <2> QED BY <1>1, <1>3, <2>2, <2>3, UpsertInp3RouteIs
<1>4. CASE ~withdrawn /\ ~(measured /\ p.hops + 1 <= HopLimit /\ p.dest # Me)
  <2>1. LearnRip(t, Me, n, sntt, p) = t
    BY <1>4 DEF LearnRip
  <2> QED BY <2>1, HeedsNothing
<1> QED BY <1>2, <1>3, <1>4

-----------------------------------------------------------------------------
(***************************************************************************)
(* A whole broadcast, a whole RIF, and the replay of the flash record: the *)
(* fold exists, and what holds of a step holds of all.                     *)
(***************************************************************************)
StepsIn(step, T, L) == step \in [T \X (1..L) -> T]

Folded(h, step, T, first, L) ==
  h \in [0..L -> T] /\ h[0] = first /\ \A k \in 1..L : h[k] = step[<<h[k - 1], k>>]

StaysIn(f, T, L) == f[0] \in T /\ \A k \in 1..L : f[k - 1] \in T => f[k] \in T

LEMMA FoldExists ==
  ASSUME NEW T, NEW first \in T, NEW L \in Nat, NEW step, StepsIn(step, T, L)
  PROVE  \E h : Folded(h, step, T, first, L)
<1> DEFINE Upto(m, h) == Folded(h, step, T, first, m)
           A == {m \in Nat : m <= L => \E h : Upto(m, h)}
<1>1. 0 \in A
  <2>1. Upto(0, [k \in 0..0 |-> first])
    BY DEF Folded
  <2> QED BY <2>1
<1>2. ASSUME NEW m \in Nat, m \in A PROVE m + 1 \in A
  <2> SUFFICES ASSUME m + 1 <= L PROVE \E h : Upto(m + 1, h)
    OBVIOUS
  <2>1. PICK h : Upto(m, h)
    BY <1>2
  <2> DEFINE g == [k \in 0..(m + 1) |-> IF k = m + 1 THEN step[<<h[m], m + 1>>] ELSE h[k]]
  <2>2. g \in [0..(m + 1) -> T]
    <3>1. h[m] \in T /\ m + 1 \in 1..L
      BY <2>1 DEF Folded
    <3>2. step[<<h[m], m + 1>>] \in T
      BY <3>1 DEF StepsIn
    <3> QED BY <2>1, <3>2 DEF Folded
  <2>3. g[0] = first
    BY <2>1 DEF Folded
  <2>4. ASSUME NEW k \in 1..(m + 1) PROVE g[k] = step[<<g[k - 1], k>>]
    <3>1. CASE k = m + 1
      <4>1. k - 1 = m /\ k - 1 \in 0..(m + 1) /\ k - 1 # m + 1 /\ k \in 0..(m + 1)
        BY <3>1
      <4>2. g[k - 1] = h[m] /\ g[k] = step[<<h[m], m + 1>>]
        BY <3>1, <4>1
      <4> HIDE DEF g
      <4> QED BY <3>1, <4>2
    <3>2. CASE k # m + 1
      <4>1. k \in 1..m /\ k - 1 \in 0..(m + 1) /\ k - 1 # m + 1 /\ k \in 0..(m + 1)
        BY <3>2
      <4>2. g[k - 1] = h[k - 1] /\ g[k] = h[k]
        BY <3>2, <4>1
      <4> HIDE DEF g
      <4> QED BY <2>1, <4>1, <4>2 DEF Folded
    <3> QED BY <3>1, <3>2
  <2> HIDE DEF g
  <2>5. Upto(m + 1, g)
    BY <2>2, <2>3, <2>4 DEF Folded
  <2> HIDE DEF Upto
  <2> QED BY <2>5
<1>3. Nat \subseteq A
  <2> HIDE DEF A
  <2> QED BY <1>1, <1>2, NatSetInduction
<1>4. \E h : Upto(L, h)
  <2> HIDE DEF Upto
  <2> QED BY <1>3
<1> QED BY <1>4

LEMMA FoldStays ==
  ASSUME NEW T, NEW L \in Nat, NEW f, StaysIn(f, T, L)
  PROVE  f[L] \in T
<1> DEFINE A == {m \in Nat : m <= L => f[m] \in T}
<1>1. 0 \in A
  BY DEF StaysIn
<1>2. ASSUME NEW m \in Nat, m \in A PROVE m + 1 \in A
  <2> SUFFICES ASSUME m + 1 <= L PROVE f[m + 1] \in T
    OBVIOUS
  <2>1. m + 1 \in 1..L /\ (m + 1) - 1 = m /\ f[m] \in T
    BY <1>2
  <2> QED BY <2>1 DEF StaysIn
<1>3. Nat \subseteq A
  <2> HIDE DEF A
  <2> QED BY <1>1, <1>2, NatSetInduction
<1> QED BY <1>3

LEMMA IngestIs ==
  ASSUME NEW t, SoundTable(t), NEW n \in Neighbours, NEW entries \in Seq(NodesEntries)
  PROVE  Heeds(t, Ingest(t, Me, n, entries), n)
<1> DEFINE L == Len(entries)
           Folds(f) == f = [k \in 0..L |-> IF k = 0 THEN Meet(t, n)
                                           ELSE Learn(f[k - 1], Me, n, entries[k])]
           after == CHOOSE f : Folds(f)
<1>0. PICK T : T = {u \in Tables : Heeds(t, u, n)}
  OBVIOUS
<1>1. L \in Nat /\ \A k \in 1..L : entries[k] \in NodesEntries
  OBVIOUS
<1>2. \A u : Heeds(t, u, n) => u \in T
  BY <1>0 DEF Heeds, SoundTable, Shaped
<1>3. Meet(t, n) \in T
  BY <1>2, MeetIs
<1>4. ASSUME NEW u \in T, NEW k \in 1..L PROVE Learn(u, Me, n, entries[k]) \in T
  <2>1. SoundTable(u) /\ Heeds(t, u, n) /\ entries[k] \in NodesEntries
    BY <1>0, <1>1 DEF Heeds
  <2>2. Heeds(u, Learn(u, Me, n, entries[k]), n)
    BY <2>1, LearnIs
  <2>3. Heeds(t, Learn(u, Me, n, entries[k]), n)
    BY <2>1, <2>2, HeedsOn
  <2> QED BY <1>2, <2>3
<1>5. PICK step : step = [p \in T \X (1..L) |-> Learn(p[1], Me, n, entries[p[2]])]
  OBVIOUS
<1>6. \E f : Folds(f)
  <2>1. StepsIn(step, T, L)
    <3>1. ASSUME NEW p \in T \X (1..L) PROVE Learn(p[1], Me, n, entries[p[2]]) \in T
      <4>1. p[1] \in T /\ p[2] \in 1..L
        OBVIOUS
      <4> QED BY <1>4, <4>1
    <3> HIDE DEF L
    <3> QED BY <1>5, <3>1 DEF StepsIn
  <2>2. PICK h : Folded(h, step, T, Meet(t, n), L)
    <3> HIDE DEF L
    <3> QED BY <1>1, <1>3, <2>1, FoldExists
  <2>3. ASSUME NEW k \in 1..L PROVE h[k] = Learn(h[k - 1], Me, n, entries[k])
    <3> HIDE DEF L
    <3>1. h[k - 1] \in T /\ h[k] = step[<<h[k - 1], k>>]
      <4>1. k - 1 \in 0..L
        BY <1>1
      <4> QED BY <2>2, <4>1 DEF Folded
    <3>2. PICK u \in T : u = h[k - 1]
      BY <3>1
    <3>3. <<u, k>> \in T \X (1..L) /\ <<u, k>>[1] = u /\ <<u, k>>[2] = k
      OBVIOUS
    <3>4. step[<<u, k>>] = Learn(u, Me, n, entries[k])
      BY <1>5, <3>3
    <3> QED BY <3>1, <3>2, <3>4
  <2>4. Folds(h)
    BY <1>1, <2>2, <2>3 DEF Folded
  <2> QED BY <2>4
<1>7. Ingest(t, Me, n, entries) = after[L]
  BY DEF Ingest
<1>8. Folds(after)
  <2> HIDE DEF Folds
  <2> QED BY <1>6
<1> HIDE DEF after
<1>9. after[0] = Meet(t, n) /\ \A k \in 1..L : after[k] = Learn(after[k - 1], Me, n, entries[k])
  BY <1>1, <1>8
<1>10. after[L] \in T
  <2> HIDE DEF L, Folds
  <2>1. StaysIn(after, T, L)
    BY <1>3, <1>4, <1>9 DEF StaysIn
  <2> QED BY <1>1, <2>1, FoldStays
<1> QED BY <1>0, <1>7, <1>10

LEMMA IngestRifIs ==
  ASSUME NEW t, SoundTable(t), NEW n \in Neighbours, NEW sntt \in Nat, NEW rips \in Seq(Rips)
  PROVE  HeedsTimes(t, IngestRif(t, Me, n, sntt, rips), n)
<1> DEFINE L == Len(rips)
           Folds(f) == f = [k \in 0..L |-> IF k = 0 THEN t
                                           ELSE LearnRip(f[k - 1], Me, n, sntt, rips[k])]
           after == CHOOSE f : Folds(f)
<1>0. PICK T : T = {u \in Tables : HeedsTimes(t, u, n)}
  OBVIOUS
<1>1. L \in Nat /\ \A k \in 1..L : rips[k] \in Rips
  OBVIOUS
<1>2. \A u : HeedsTimes(t, u, n) => u \in T
  BY <1>0 DEF HeedsTimes, Heeds, SoundTable, Shaped
<1>3. t \in T
  BY <1>2, HeedsNothing
<1>4. ASSUME NEW u \in T, NEW k \in 1..L PROVE LearnRip(u, Me, n, sntt, rips[k]) \in T
  <2>1. SoundTable(u) /\ Heeds(t, u, n) /\ HeedsTimes(t, u, n) /\ rips[k] \in Rips
    BY <1>0, <1>1 DEF HeedsTimes, Heeds
  <2>2. HeedsTimes(u, LearnRip(u, Me, n, sntt, rips[k]), n)
    BY <2>1, LearnRipIs
  <2>3. HeedsTimes(t, LearnRip(u, Me, n, sntt, rips[k]), n)
    BY <2>1, <2>2, HeedsOn
  <2> QED BY <1>2, <2>3
<1>5. PICK step : step = [p \in T \X (1..L) |-> LearnRip(p[1], Me, n, sntt, rips[p[2]])]
  OBVIOUS
<1>6. \E f : Folds(f)
  <2>1. StepsIn(step, T, L)
    <3>1. ASSUME NEW p \in T \X (1..L) PROVE LearnRip(p[1], Me, n, sntt, rips[p[2]]) \in T
      <4>1. p[1] \in T /\ p[2] \in 1..L
        OBVIOUS
      <4> QED BY <1>4, <4>1
    <3> HIDE DEF L
    <3> QED BY <1>5, <3>1 DEF StepsIn
  <2>2. PICK h : Folded(h, step, T, t, L)
    <3> HIDE DEF L
    <3> QED BY <1>1, <1>3, <2>1, FoldExists
  <2>3. ASSUME NEW k \in 1..L PROVE h[k] = LearnRip(h[k - 1], Me, n, sntt, rips[k])
    <3> HIDE DEF L
    <3>1. h[k - 1] \in T /\ h[k] = step[<<h[k - 1], k>>]
      <4>1. k - 1 \in 0..L
        BY <1>1
      <4> QED BY <2>2, <4>1 DEF Folded
    <3>2. PICK u \in T : u = h[k - 1]
      BY <3>1
    <3>3. <<u, k>> \in T \X (1..L) /\ <<u, k>>[1] = u /\ <<u, k>>[2] = k
      OBVIOUS
    <3>4. step[<<u, k>>] = LearnRip(u, Me, n, sntt, rips[k])
      BY <1>5, <3>3
    <3> QED BY <3>1, <3>2, <3>4
  <2>4. Folds(h)
    BY <1>1, <2>2, <2>3 DEF Folded
  <2> QED BY <2>4
<1>7. IngestRif(t, Me, n, sntt, rips) = after[L]
  BY DEF IngestRif
<1>8. Folds(after)
  <2> HIDE DEF Folds
  <2> QED BY <1>6
<1> HIDE DEF after
<1>9. after[0] = t /\ \A k \in 1..L : after[k] = LearnRip(after[k - 1], Me, n, sntt, rips[k])
  BY <1>1, <1>8
<1>10. after[L] \in T
  <2> HIDE DEF L, Folds
  <2>1. StaysIn(after, T, L)
    BY <1>3, <1>4, <1>9 DEF StaysIn
  <2> QED BY <1>1, <2>1, FoldStays
<1> QED BY <1>0, <1>7, <1>10

\* What sweep and mark_neighbour_down share.
LEMMA ShrinkIs ==
  ASSUME NEW t, SoundTable(t), NEW left \in SUBSET Routes, IsFiniteSet(left), Distinct(left),
         \A r \in left : Worthy(r) /\ \E s \in t.routes : s.dest = r.dest /\ s.via = r.via
  PROVE  /\ SoundTable(Shrink(t, left)) /\ Shrink(t, left).routes = left
         /\ Covered(t) \subseteq Covered(Shrink(t, left))
<1> DEFINE after == With(t, left)
           lost == Timed(t) \ Timed(after)
           still == t.nbrs \cap {r.via : r \in left}
           u == Shrink(t, left)
<1>1. /\ t \in Tables /\ t.routes \in SUBSET Routes /\ IsFiniteSet(t.nbrs)
      /\ t.nbrs \in SUBSET Neighbours /\ Cardinality(t.nbrs) <= MaxNbrs /\ t.gone \in SUBSET Nat
  BY DEF SoundTable, Shaped, Capped, Tables
<1>2. /\ after \in Tables /\ after.routes = left /\ after.nbrs = t.nbrs /\ after.gone = t.gone
  BY <1>1, WithIs
<1>3. lost \in SUBSET Nat
  BY <1>1 DEF Timed, Routes
<1>4. /\ u \in Tables /\ u.routes = left /\ u.nbrs = still /\ u.gone = t.gone \cup lost
  <2>1. u = [[after EXCEPT !.gone = @ \cup lost] EXCEPT !.nbrs =
                @ \cap {r.via : r \in [after EXCEPT !.gone = @ \cup lost].routes}]
    BY DEF Shrink, Prune, With
  <2> HIDE DEF after, lost, u
  <2> DEFINE v == [after EXCEPT !.gone = @ \cup lost]
  <2>2. v \in Tables /\ v.routes = left /\ v.nbrs = t.nbrs /\ v.gone = t.gone \cup lost
    BY <1>1, <1>2, <1>3 DEF Tables
  <2>3. u = [v EXCEPT !.nbrs = @ \cap {r.via : r \in v.routes}]
    BY <2>1
  <2> HIDE DEF v
  <2> QED BY <2>2, <2>3 DEF Tables
<1>5. IsFiniteSet(still) /\ Cardinality(still) <= MaxNbrs
  <2>1. IsFiniteSet(still) /\ Cardinality(still) <= Cardinality(t.nbrs)
    BY <1>1, FS_Subset
  <2>2. Cardinality(still) \in Nat /\ Cardinality(t.nbrs) \in Nat /\ MaxNbrs \in Nat
    BY <1>1, <2>1, FS_CardinalityType, Bounds
  <2> QED BY <1>1, <2>1, <2>2
<1>6. Timed(after) = Timed(u)
  BY <1>2, <1>4 DEF Timed
<1>7. Covered(t) \subseteq Covered(u)
  BY <1>4, <1>6 DEF Covered
<1> HIDE DEF u, still
<1>8. Shaped(u)
  BY <1>4, <1>5 DEF Shaped
<1>9. Capped(u)
  BY <1>4, <1>5, <1>8, NarrowerIsCapped
<1>10. SoundTable(u)
  BY <1>8, <1>9 DEF SoundTable
<1> QED BY <1>4, <1>7, <1>10 DEF u

LEMMA SweepIs ==
  ASSUME NEW t, SoundTable(t)
  PROVE  /\ SoundTable(Sweep(t)) /\ Covered(t) \subseteq Covered(Sweep(t))
         /\ \A r \in Sweep(t).routes : \E s \in t.routes : r.via = s.via /\ r.obs = s.obs - 1
<1> DEFINE live == {s \in t.routes : s.obs > 1}
           older(r) == [r EXCEPT !.obs = @ - 1]
           left == {older(r) : r \in live}
<1>1. /\ t.routes \in SUBSET Routes /\ IsFiniteSet(t.routes) /\ Distinct(t.routes)
      /\ \A r \in t.routes : Worthy(r)
  BY DEF SoundTable, Shaped, Tables
<1>2. ASSUME NEW r \in live
      PROVE  /\ older(r) \in Routes /\ older(r).dest = r.dest /\ older(r).via = r.via
             /\ older(r).obs = r.obs - 1 /\ Worthy(older(r))
  <2>1. r \in Routes /\ r.obs \in 1..ObsInit /\ r.obs > 1
    BY <1>1 DEF Routes
  <2>2. r.obs - 1 \in 1..ObsInit
    BY <2>1, Bounds
  <2>3. /\ older(r) \in Routes /\ older(r).dest = r.dest /\ older(r).via = r.via
        /\ older(r).quality = r.quality /\ older(r).inp3 = r.inp3 /\ older(r).obs = r.obs - 1
    BY <2>1, <2>2 DEF Routes
  <2> QED BY <1>1, <2>3 DEF Worthy
<1> HIDE DEF older
<1>3. left \in SUBSET Routes
  BY <1>2
<1>4. IsFiniteSet(left)
  <2> DEFINE f == [r \in live |-> older(r)]
  <2>1. f \in Surjection(live, left)
    BY DEF Surjection
  <2>2. IsFiniteSet(live)
    BY <1>1, FS_Subset
  <2> HIDE DEF f, live, left
  <2> QED BY <2>1, <2>2, FS_Surjection
<1>5. Distinct(left)
  BY <1>1, <1>2 DEF Distinct
<1>6. \A r \in left : Worthy(r) /\ \E s \in t.routes : s.dest = r.dest /\ s.via = r.via
  BY <1>2
<1>7. Sweep(t) = Shrink(t, left)
  BY DEF Sweep, older
<1>8. \A r \in left : \E s \in t.routes : r.via = s.via /\ r.obs = s.obs - 1
  BY <1>2
<1> HIDE DEF left
<1>9. /\ SoundTable(Shrink(t, left)) /\ Shrink(t, left).routes = left
      /\ Covered(t) \subseteq Covered(Shrink(t, left))
  BY <1>3, <1>4, <1>5, <1>6, ShrinkIs
<1> QED BY <1>7, <1>8, <1>9

LEMMA MarkNeighbourDownIs ==
  ASSUME NEW t, SoundTable(t), NEW n
  PROVE  /\ SoundTable(MarkNeighbourDown(t, n)) /\ Covered(t) \subseteq Covered(MarkNeighbourDown(t, n))
         /\ MarkNeighbourDown(t, n).routes \subseteq t.routes
<1> DEFINE left == {r \in t.routes : r.via # n}
           after == Shrink(t, left)
           u == MarkNeighbourDown(t, n)
<1>1. /\ left \in SUBSET Routes /\ left \subseteq t.routes /\ IsFiniteSet(t.routes) /\ Distinct(left)
      /\ \A r \in left : Worthy(r)
  BY DEF SoundTable, Shaped, Tables, Distinct
<1>2. IsFiniteSet(left)
  BY <1>1, FS_Subset
<1>3. u = [after EXCEPT !.nbrs = @ \ {n}]
  BY DEF MarkNeighbourDown
<1> HIDE DEF left
<1>4. SoundTable(after) /\ after.routes = left /\ Covered(t) \subseteq Covered(after)
  BY <1>1, <1>2, ShrinkIs
<1> HIDE DEF after, u
<1>5. /\ after \in Tables /\ IsFiniteSet(after.nbrs) /\ Cardinality(after.nbrs) <= MaxNbrs
      /\ Shaped(after)
  BY <1>4 DEF SoundTable, Shaped, Capped
<1>6. u \in Tables /\ u.routes = left /\ u.nbrs = after.nbrs \ {n} /\ u.gone = after.gone
  BY <1>3, <1>4, <1>5 DEF Tables
<1>7. IsFiniteSet(u.nbrs) /\ Cardinality(u.nbrs) <= MaxNbrs
  <2>1. IsFiniteSet(u.nbrs) /\ Cardinality(u.nbrs) <= Cardinality(after.nbrs)
    BY <1>5, <1>6, FS_Subset
  <2>2. Cardinality(u.nbrs) \in Nat /\ Cardinality(after.nbrs) \in Nat /\ MaxNbrs \in Nat
    BY <1>5, <2>1, FS_CardinalityType, Bounds
  <2> QED BY <1>5, <2>1, <2>2
<1>8. Shaped(u)
  BY <1>4, <1>5, <1>6, <1>7 DEF Shaped
<1>9. SoundTable(u)
  BY <1>4, <1>6, <1>7, <1>8, NarrowerIsCapped DEF SoundTable
<1>10. Covered(u) = Covered(after)
  BY <1>4, <1>6 DEF Covered, Timed
<1> QED BY <1>1, <1>4, <1>6, <1>9, <1>10 DEF u

LEMMA DrainIs ==
  ASSUME NEW t, SoundTable(t)
  PROVE  SoundTable(Drain(t)) /\ Drain(t).routes = t.routes /\ Timed(Drain(t)) = Timed(t)
<1> DEFINE u == Drain(t)
<1>1. t \in Tables /\ Shaped(t) /\ Capped(t)
  BY DEF SoundTable, Shaped
<1>2. u \in Tables /\ u.routes = t.routes /\ u.nbrs = t.nbrs
  BY <1>1 DEF Drain, Tables
<1> HIDE DEF u
<1>3. Shaped(u)
  BY <1>1, <1>2 DEF Shaped
<1>4. SoundTable(u)
  BY <1>1, <1>2, <1>3, NarrowerIsCapped DEF SoundTable, Capped
<1> QED BY <1>2, <1>4 DEF u, Timed

-----------------------------------------------------------------------------
(***************************************************************************)
(* The flash record.                                                       *)
(***************************************************************************)
Saved == [dest : Nat, via : Neighbours, quality : 0..255]

LEMMA AtMostIs ==
  ASSUME NEW n \in Nat, NEW bound \in Nat
  PROVE  AtMost(n, bound) \in Nat /\ AtMost(n, bound) <= n /\ AtMost(n, bound) <= bound
BY DEF AtMost

LEMMA SnapshotIs ==
  ASSUME NEW t, SoundTable(t)
  PROVE  Snapshot(t) \in Seq(Saved) /\ Len(Snapshot(t)) <= MaxSaved
<1> DEFINE D == Destinations(t)
           order == Ascending(D)
           best(i) == Best(RoutesTo(t, order[i]))
           m == AtMost(Len(order), MaxSaved)
           entry(i) == [dest |-> order[i], via |-> best(i).via, quality |-> best(i).quality]
<1>1. Shaped(t) /\ t.routes \in SUBSET Routes
  BY DEF SoundTable, Shaped, Tables
<1>2. D \in SUBSET Nat
  BY <1>1 DEF Destinations, Routes
<1>3. IsFiniteSet(D)
  BY <1>1, HopsCount
<1>4. order \in [1..Cardinality(D) -> D] /\ Len(order) = Cardinality(D) /\ Cardinality(D) \in Nat
  <2> HIDE DEF D
  <2> QED BY <1>2, <1>3, AscendingIs
<1>5. m \in Nat /\ m <= Cardinality(D) /\ m <= MaxSaved
  <2> HIDE DEF D, order
  <2> QED BY <1>4, AtMostIs, Bounds
<1>6. ASSUME NEW i \in 1..m PROVE entry(i) \in Saved
  <2>1. order[i] \in D
    <3> HIDE DEF D, order, m
    <3>1. i \in 1..Cardinality(D)
      BY <1>4, <1>5
    <3> QED BY <1>4, <3>1
  <2>2. PICK d \in D : d = order[i]
    BY <2>1
  <2>3. RoutesTo(t, d) # {}
    BY DEF Destinations, RoutesTo
  <2>4. Best(RoutesTo(t, d)) \in RoutesTo(t, d) /\ RoutesTo(t, d) \in SUBSET Routes
    BY <1>1, <2>3, RoutesToIs, BestIs DEF Distinct
  <2>5. Best(RoutesTo(t, d)).via \in Neighbours /\ Best(RoutesTo(t, d)).quality \in 0..255
    BY <2>4 DEF Routes
  <2> HIDE DEF order
  <2> QED BY <1>2, <2>2, <2>5 DEF Saved
<1>7. Snapshot(t) = [i \in 1..m |-> entry(i)]
  BY DEF Snapshot
<1> HIDE DEF m, entry
<1>8. [i \in 1..m |-> entry(i)] \in Seq(Saved) /\ Len([i \in 1..m |-> entry(i)]) = m
  BY <1>5, <1>6
<1> QED BY <1>5, <1>7, <1>8

LEMMA ReplayFrameIs ==
  ASSUME NEW record \in Seq(Saved), NEW n \in Neighbours
  PROVE  ReplayFrame(record, n) \in Seq(NodesEntries)
<1> DEFINE K == {k \in DOMAIN record : record[k].via = n}
           places == Ascending(K)
           m == AtMost(Len(places), FrameEntries)
           entry(i) == [dest |-> record[places[i]].dest, best |-> n,
                        quality |-> record[places[i]].quality]
<1>1. Len(record) \in Nat /\ DOMAIN record = 1..Len(record)
      /\ \A k \in 1..Len(record) : record[k] \in Saved
  OBVIOUS
<1>2. K \in SUBSET Nat /\ K \in SUBSET (1..Len(record))
  BY <1>1
<1>3. IsFiniteSet(K)
  <2>1. IsFiniteSet(1..Len(record))
    BY <1>1, FS_Interval
  <2> HIDE DEF K
  <2> QED BY <1>2, <2>1, FS_Subset
<1>4. places \in [1..Cardinality(K) -> K] /\ Len(places) = Cardinality(K) /\ Cardinality(K) \in Nat
  <2> HIDE DEF K
  <2> QED BY <1>2, <1>3, AscendingIs
<1> HIDE DEF K, places
<1>5. m \in Nat /\ m <= Cardinality(K)
  BY <1>4, AtMostIs, Bounds
<1>6. ASSUME NEW i \in 1..m PROVE entry(i) \in NodesEntries
  <2>1. i \in 1..Cardinality(K)
    <3> HIDE DEF m
    <3> QED BY <1>4, <1>5
  <2>2. places[i] \in 1..Len(record)
    BY <1>2, <1>4, <2>1
  <2>3. record[places[i]] \in Saved
    BY <1>1, <2>2
  <2>4. n \in Nat
    BY Bounds, Zenon
  <2> QED BY <2>3, <2>4 DEF Saved, NodesEntries
<1>7. ReplayFrame(record, n) = [i \in 1..m |-> entry(i)]
  BY DEF ReplayFrame, K, places
<1> HIDE DEF m, entry
<1> QED BY <1>5, <1>6, <1>7

LEMMA EmptyTableIsSound == SoundTable(EmptyTable)
<1> DEFINE t == EmptyTable
<1>1. t.routes = {} /\ t.nbrs = {} /\ t.gone = {} /\ t \in Tables
  BY DEF EmptyTable, Tables
<1>2. IsFiniteSet({}) /\ Cardinality({}) = 0
  BY FS_EmptySet
<1> HIDE DEF t
<1>3. Shaped(t)
  BY <1>1, <1>2 DEF Shaped, Distinct
<1>4. \A d : Hops(t, d) = {}
  BY <1>1 DEF Hops, RoutesTo
<1>5. Destinations(t) = {}
  BY <1>1 DEF Destinations
<1>6. Capped(t)
  BY <1>1, <1>2, <1>4, <1>5, Bounds DEF Capped
<1> QED BY <1>3, <1>6 DEF t, SoundTable

LEMMA ReplayHopIs ==
  ASSUME NEW t, SoundTable(t), NEW record \in Seq(Saved), NEW k \in 1..Len(record)
  PROVE  SoundTable(ReplayHop(t, record, k))
<1> DEFINE n == record[k].via
<1>1. n \in Neighbours
  <2>1. record[k] \in Saved
    OBVIOUS
  <2> QED BY <2>1 DEF Saved
<1>2. \/ ReplayHop(t, record, k) = t
      \/ ReplayHop(t, record, k) = Ingest(t, Me, n, ReplayFrame(record, n))
  BY DEF ReplayHop
<1> HIDE DEF n
<1>3. ReplayFrame(record, n) \in Seq(NodesEntries)
  BY <1>1, ReplayFrameIs
<1>4. Heeds(t, Ingest(t, Me, n, ReplayFrame(record, n)), n)
  BY <1>1, <1>3, IngestIs
<1> QED BY <1>2, <1>4 DEF Heeds

LEMMA ReplayIs ==
  ASSUME NEW record \in Seq(Saved)
  PROVE  SoundTable(Replay(record))
<1> DEFINE L == Len(record)
           Folds(f) == f = [k \in 0..L |-> IF k = 0 THEN EmptyTable
                                           ELSE ReplayHop(f[k - 1], record, k)]
           after == CHOOSE f : Folds(f)
<1>0. PICK T : T = {u \in Tables : SoundTable(u)}
  OBVIOUS
<1>1. L \in Nat
  OBVIOUS
<1>2. \A u : SoundTable(u) => u \in T
  BY <1>0 DEF SoundTable, Shaped
<1>3. EmptyTable \in T
  BY <1>2, EmptyTableIsSound
<1>4. ASSUME NEW u \in T, NEW k \in 1..L PROVE ReplayHop(u, record, k) \in T
  <2>1. SoundTable(u)
    BY <1>0
  <2> QED BY <1>2, <2>1, ReplayHopIs
<1>5. PICK step : step = [p \in T \X (1..L) |-> ReplayHop(p[1], record, p[2])]
  OBVIOUS
<1>6. \E f : Folds(f)
  <2>1. StepsIn(step, T, L)
    <3>1. ASSUME NEW p \in T \X (1..L) PROVE ReplayHop(p[1], record, p[2]) \in T
      <4>1. p[1] \in T /\ p[2] \in 1..L
        OBVIOUS
      <4> QED BY <1>4, <4>1
    <3> HIDE DEF L
    <3> QED BY <1>5, <3>1 DEF StepsIn
  <2>2. PICK h : Folded(h, step, T, EmptyTable, L)
    <3> HIDE DEF L
    <3> QED BY <1>1, <1>3, <2>1, FoldExists
  <2>3. ASSUME NEW k \in 1..L PROVE h[k] = ReplayHop(h[k - 1], record, k)
    <3> HIDE DEF L
    <3>1. h[k - 1] \in T /\ h[k] = step[<<h[k - 1], k>>]
      <4>1. k - 1 \in 0..L
        BY <1>1
      <4> QED BY <2>2, <4>1 DEF Folded
    <3>2. PICK u \in T : u = h[k - 1]
      BY <3>1
    <3>3. <<u, k>> \in T \X (1..L) /\ <<u, k>>[1] = u /\ <<u, k>>[2] = k
      OBVIOUS
    <3>4. step[<<u, k>>] = ReplayHop(u, record, k)
      BY <1>5, <3>3
    <3> QED BY <3>1, <3>2, <3>4
  <2>4. Folds(h)
    BY <1>1, <2>2, <2>3 DEF Folded
  <2> QED BY <2>4
<1>7. Replay(record) = after[L]
  BY DEF Replay
<1>8. Folds(after)
  <2> HIDE DEF Folds
  <2> QED BY <1>6
<1> HIDE DEF after
<1>9. after[0] = EmptyTable /\ \A k \in 1..L : after[k] = ReplayHop(after[k - 1], record, k)
  BY <1>1, <1>8
<1>10. after[L] \in T
  <2> HIDE DEF L, Folds
  <2>1. StaysIn(after, T, L)
    BY <1>3, <1>4, <1>9 DEF StaysIn
  <2> QED BY <1>1, <2>1, FoldStays
<1> QED BY <1>0, <1>7, <1>10

-----------------------------------------------------------------------------
(***************************************************************************)
(* The node.  The table is sound; a route has aged at least as long as its *)
(* neighbour has been silent; only neighbours a fan-out reaches are        *)
(* followed, and of ourselves nothing is recorded as told; and every       *)
(* withdrawal is told.                                                     *)
(***************************************************************************)
Typed ==
  /\ scenario \in Scenarios
  /\ SoundTable(tab)
  /\ flash \in Seq(Saved) /\ Len(flash) <= MaxSaved
  /\ up \subseteq Neighbours
  /\ silence \in [Neighbours -> 0..ObsInit]
  /\ told \in [Neighbours -> SUBSET Nat]

Aging == \A r \in tab.routes : r.obs + silence[r.via] <= ObsInit

Followed == \A n \in Neighbours : Me \notin told[n] /\ (n \notin up => told[n] = {})

Inv == Typed /\ Aging /\ Followed /\ WithdrawalsTold

LEMMA ScenarioIs ==
  ASSUME scenario \in Scenarios
  PROVE  /\ \A n \in Neighbours : \A b \in scenario.broadcasts[n] : b \in Seq(NodesEntries)
         /\ scenario.linkers \subseteq Neighbours
         /\ scenario.rifs \subseteq Seq(Rips) /\ scenario.costs \subseteq Nat
<1>1. /\ scenario.broadcasts \in [Neighbours -> SUBSET Seq(NodesEntries)]
      /\ scenario.linkers \subseteq Neighbours
      /\ scenario.rifs \subseteq Seq(Rips) /\ scenario.costs \subseteq Nat
  BY NodeAssumption
<1> QED BY <1>1

LEMMA RoutesAre ==
  ASSUME Typed
  PROVE  \A r \in tab.routes : /\ r \in Routes /\ r.dest \in Nat /\ r.via \in Neighbours
                               /\ r.quality \in 0..255 /\ r.obs \in 1..ObsInit
                               /\ r.inp3 \in Metrics /\ Worthy(r)
BY DEF Typed, SoundTable, Shaped, Tables, Routes

LEMMA TimedAre ==
  ASSUME NEW t, SoundTable(t)
  PROVE  Timed(t) \subseteq Nat
BY DEF SoundTable, Shaped, Tables, Timed, Routes

LEMMA Begins == Init => Inv
<1> SUFFICES ASSUME Init PROVE Inv
  OBVIOUS
<1>1. flash \in Seq(Saved) /\ Len(flash) <= MaxSaved
  BY Bounds DEF Init
<1>2. Typed
  BY <1>1, EmptyTableIsSound, Bounds DEF Init, Typed
<1>3. Aging
  BY DEF Init, Aging, EmptyTable
<1>4. Followed /\ WithdrawalsTold
  BY DEF Init, Followed, WithdrawalsTold
<1> QED BY <1>2, <1>3, <1>4 DEF Inv

\* What hearing a neighbour leaves to show: it is silent no longer.
LEMMA HeardAges ==
  ASSUME Typed, Aging, NEW n \in Neighbours, Heard(n), SoundTable(tab'), Heeds(tab, tab', n)
  PROVE  silence' \in [Neighbours -> 0..ObsInit] /\ Aging'
<1>1. silence' \in [Neighbours -> 0..ObsInit]
  BY Bounds DEF Typed, Heard
<1>2. ASSUME NEW r \in tab'.routes PROVE r.obs + silence'[r.via] <= ObsInit
  <2>1. r \in Routes
    BY DEF SoundTable, Shaped, Tables
  <2>2. PICK m \in Neighbours : m = r.via
    BY <2>1 DEF Routes
  <2>3. PICK o \in 1..ObsInit : o = r.obs
    BY <2>1 DEF Routes
  <2>4. CASE m = n
    <3>1. silence'[m] = 0
      BY <2>4 DEF Typed, Heard
    <3> QED BY <2>2, <2>3, <3>1, Bounds
  <2>5. CASE m # n
    <3>1. r \in tab.routes
      BY <2>2, <2>5 DEF Heeds
    <3>2. silence'[m] = silence[m]
      BY <2>5 DEF Typed, Heard
    <3> QED BY <2>2, <3>1, <3>2 DEF Aging
  <2> QED BY <2>4, <2>5
<1> QED BY <1>1, <1>2 DEF Aging

LEMMA HearNodesKeeps ==
  ASSUME Inv, NEW n \in Neighbours, NEW b \in scenario.broadcasts[n], HearNodes(n, b)
  PROVE  Inv'
<1>1. b \in Seq(NodesEntries)
  BY ScenarioIs DEF Inv, Typed
<1>2. Heeds(tab, tab', n) /\ SoundTable(tab')
  BY <1>1, IngestIs DEF HearNodes, Inv, Typed, Heeds
<1>3. silence' \in [Neighbours -> 0..ObsInit] /\ Aging'
  BY <1>2, HeardAges DEF Inv, HearNodes
<1>4. Typed'
  BY <1>2, <1>3 DEF Inv, Typed, HearNodes
<1>5. Followed'
  BY DEF Inv, Followed, HearNodes
<1>6. tab.gone \subseteq tab'.gone
  BY <1>2 DEF Heeds
<1>7. WithdrawalsTold'
  BY <1>6 DEF Inv, WithdrawalsTold, HearNodes, StillSlipped
<1> QED BY <1>3, <1>4, <1>5, <1>7 DEF Inv

LEMMA HearRifKeeps ==
  ASSUME Inv, NEW n \in Neighbours, NEW c \in scenario.costs, NEW f \in scenario.rifs,
         HearRif(n, c, f)
  PROVE  Inv'
<1>1. c \in Nat /\ f \in Seq(Rips)
  BY ScenarioIs DEF Inv, Typed
<1>2. HeedsTimes(tab, tab', n)
  BY <1>1, IngestRifIs DEF HearRif, Inv, Typed
<1>3. Heeds(tab, tab', n) /\ SoundTable(tab') /\ Covered(tab) \subseteq Covered(tab')
  BY <1>2 DEF HeedsTimes, Heeds
<1>4. silence' \in [Neighbours -> 0..ObsInit] /\ Aging'
  BY <1>3, HeardAges DEF Inv, HearRif
<1>5. Typed'
  BY <1>3, <1>4 DEF Inv, Typed, HearRif
<1>6. Followed'
  BY DEF Inv, Followed, HearRif
<1>7. WithdrawalsTold'
  BY <1>3 DEF Inv, WithdrawalsTold, HearRif, StillSlipped, Covered
<1> QED BY <1>4, <1>5, <1>6, <1>7 DEF Inv

LEMMA SweepKeeps ==
  ASSUME Inv, SweepTable
  PROVE  Inv'
<1>1. /\ SoundTable(tab') /\ Covered(tab) \subseteq Covered(tab')
      /\ \A r \in tab'.routes : \E s \in tab.routes : r.via = s.via /\ r.obs = s.obs - 1
  BY SweepIs DEF SweepTable, Inv, Typed
<1>2. silence' \in [Neighbours -> 0..ObsInit]
      /\ \A n \in Neighbours : silence'[n] <= silence[n] + 1
  <2>1. silence \in [Neighbours -> 0..ObsInit] /\ ObsInit \in Nat
    BY Bounds DEF Inv, Typed
  <2> QED BY <2>1 DEF SweepTable
<1>3. ASSUME NEW r \in tab'.routes PROVE r.obs + silence'[r.via] <= ObsInit
  <2>1. PICK s \in tab.routes : r.via = s.via /\ r.obs = s.obs - 1
    BY <1>1
  <2>2. s.via \in Neighbours /\ s.obs \in 1..ObsInit /\ s.obs + silence[s.via] <= ObsInit
    BY RoutesAre DEF Inv, Aging
  <2>3. PICK m \in Neighbours : m = s.via
    BY <2>2
  <2>4. PICK o \in 1..ObsInit : o = s.obs
    BY <2>2
  <2>5. silence[m] \in 0..ObsInit /\ silence'[m] \in 0..ObsInit /\ silence'[m] <= silence[m] + 1
    BY <1>2 DEF Inv, Typed
  <2>6. o + silence[m] <= ObsInit
    BY <2>2, <2>3, <2>4
  <2>7. (o - 1) + silence'[m] <= ObsInit
    BY <2>5, <2>6, Bounds
  <2> QED BY <2>1, <2>3, <2>4, <2>7
<1>4. Typed'
  BY <1>1, <1>2 DEF Inv, Typed, SweepTable
<1>5. Aging'
  BY <1>3 DEF Aging
<1>6. Followed'
  BY DEF Inv, Followed, SweepTable
<1>7. WithdrawalsTold'
  BY <1>1 DEF Inv, WithdrawalsTold, SweepTable, Covered
<1> QED BY <1>4, <1>5, <1>6, <1>7 DEF Inv

LEMMA NeighbourDownKeeps ==
  ASSUME Inv, NEW n \in Neighbours, NeighbourDown(n)
  PROVE  Inv'
<1>1. /\ SoundTable(tab') /\ Covered(tab) \subseteq Covered(tab') /\ tab'.routes \subseteq tab.routes
  BY MarkNeighbourDownIs DEF NeighbourDown, Inv, Typed
<1>2. Typed'
  BY <1>1 DEF Inv, Typed, NeighbourDown
<1>3. Aging'
  BY <1>1 DEF Inv, Aging, NeighbourDown
<1>4. Followed'
  BY DEF Inv, Followed, NeighbourDown
<1>5. WithdrawalsTold'
  BY <1>1 DEF Inv, WithdrawalsTold, NeighbourDown, Covered
<1> QED BY <1>2, <1>3, <1>4, <1>5 DEF Inv

\* The destinations one RIF tells a finite time of, and the horizon.
FiniteIn(rif) == {p.dest : p \in {q \in rif : q.time < HORIZON_MS}} \ {Me}
HorizonIn(rif) == {p.dest : p \in {q \in rif : q.time >= HORIZON_MS}}

\* A finite time is told of a kept time route only, and what was withdrawn and
\* is not held again is told the horizon.
LEMMA BuildRifIs ==
  ASSUME NEW t, NEW n, NEW withdrawn
  PROVE  /\ FiniteIn(BuildRif(t, Me, n, withdrawn)) \subseteq Timed(t) \ {Me}
         /\ withdrawn \ (Timed(t) \cup {Me}) \subseteq HorizonIn(BuildRif(t, Me, n, withdrawn))
<1> DEFINE rif == BuildRif(t, Me, n, withdrawn)
           held == Timed(t) \ {Me}
           late == {[dest |-> d, time |-> HORIZON_MS] : d \in withdrawn \ (held \cup {Me})}
<1>1. ASSUME NEW p \in rif PROVE p.dest = Me \/ p.dest \in Timed(t) \/ p.time = HORIZON_MS
  BY DEF BuildRif
<1>2. late \subseteq rif
  BY DEF BuildRif
<1> HIDE DEF rif
<1>3. ~(HORIZON_MS < HORIZON_MS) /\ HORIZON_MS >= HORIZON_MS
  BY DEF HORIZON_MS
<1>4. FiniteIn(rif) \subseteq Timed(t) \ {Me}
  BY <1>1, <1>3 DEF FiniteIn
<1>5. ASSUME NEW d \in withdrawn \ (Timed(t) \cup {Me}) PROVE d \in HorizonIn(rif)
  <2>1. [dest |-> d, time |-> HORIZON_MS] \in rif
    BY <1>2
  <2> QED BY <1>3, <2>1 DEF HorizonIn
<1> QED BY <1>4, <1>5 DEF rif

LEMMA FanOutKeeps ==
  ASSUME Inv, FanOut
  PROVE  Inv'
<1> DEFINE rif(n) == BuildRif(tab, Me, n, tab.gone)
<1>1. SoundTable(tab') /\ tab'.routes = tab.routes /\ Timed(tab') = Timed(tab)
  BY DrainIs DEF FanOut, Inv, Typed
<1>2. told' = [n \in Neighbours |-> IF n \in up
                   THEN (told[n] \cup FiniteIn(rif(n))) \ HorizonIn(rif(n)) ELSE told[n]]
  BY DEF FanOut, FiniteIn, HorizonIn
<1>3. ASSUME NEW n \in Neighbours
      PROVE  /\ FiniteIn(rif(n)) \subseteq Timed(tab) \ {Me}
             /\ tab.gone \ (Timed(tab) \cup {Me}) \subseteq HorizonIn(rif(n))
  BY BuildRifIs
<1> HIDE DEF rif
<1>4. \A n \in Neighbours : told[n] \in SUBSET Nat
  BY DEF Inv, Typed
<1>5. Timed(tab) \subseteq Nat
  BY TimedAre DEF Inv, Typed
<1>6. told' \in [Neighbours -> SUBSET Nat]
  BY <1>2, <1>3, <1>4, <1>5
<1>7. Typed'
  BY <1>1, <1>6 DEF Inv, Typed, FanOut
<1>8. Aging'
  BY <1>1 DEF Inv, Aging, FanOut
<1>9. up' = up /\ slipped' = slipped
  BY DEF FanOut
<1>10. Followed'
  BY <1>2, <1>3, <1>9 DEF Inv, Followed
<1>11. ASSUME NEW n \in up, NEW d \in told'[n] PROVE d \in Timed(tab) \cup slipped
  <2>1. n \in Neighbours
    BY DEF Inv, Typed
  <2>2. (d \in told[n] \/ d \in FiniteIn(rif(n))) /\ d \notin HorizonIn(rif(n))
    BY <1>2, <1>11, <2>1
  <2>3. CASE d \in FiniteIn(rif(n))
    BY <1>3, <2>1, <2>3
  <2>4. CASE d \in told[n]
    <3>1. d # Me /\ d \in Timed(tab) \cup tab.gone \cup slipped
      BY <2>1, <2>4 DEF Inv, Followed, WithdrawalsTold
    <3> QED BY <1>3, <2>1, <2>2, <3>1
  <2> QED BY <2>2, <2>3, <2>4
<1>12. WithdrawalsTold'
  BY <1>1, <1>9, <1>11 DEF WithdrawalsTold
<1> QED BY <1>7, <1>8, <1>10, <1>12 DEF Inv

LEMMA LinkUpKeeps ==
  ASSUME Inv, NEW n \in Neighbours, LinkUp(n)
  PROVE  Inv'
<1>1. up' = up \cup {n} /\ UNCHANGED <<scenario, tab, flash, reboots, silence, told, slipped>>
      /\ n \notin up
  BY DEF LinkUp
<1>2. Typed' /\ Aging'
  BY <1>1 DEF Inv, Typed, Aging
<1>3. Followed'
  BY <1>1 DEF Inv, Followed
<1>4. told[n] = {}
  BY <1>1 DEF Inv, Followed
<1>5. WithdrawalsTold'
  BY <1>1, <1>4 DEF Inv, WithdrawalsTold
<1> QED BY <1>2, <1>3, <1>5 DEF Inv

LEMMA LinkDownKeeps ==
  ASSUME Inv, NEW n \in Neighbours, LinkDown(n)
  PROVE  Inv'
<1>1. /\ up' = up \ {n} /\ told' = [told EXCEPT ![n] = {}]
      /\ UNCHANGED <<scenario, tab, flash, reboots, silence, slipped>>
  BY DEF LinkDown
<1>2. Typed' /\ Aging'
  BY <1>1 DEF Inv, Typed, Aging
<1>3. told'[n] = {} /\ \A m \in Neighbours \ {n} : told'[m] = told[m]
  BY <1>1 DEF Inv, Typed
<1>4. Followed'
  BY <1>1, <1>3 DEF Inv, Followed
<1>5. WithdrawalsTold'
  BY <1>1, <1>3 DEF Inv, Typed, WithdrawalsTold
<1> QED BY <1>2, <1>4, <1>5 DEF Inv

LEMMA SaveKeeps ==
  ASSUME Inv, Save
  PROVE  Inv'
<1>1. flash' \in Seq(Saved) /\ Len(flash') <= MaxSaved
  BY SnapshotIs DEF Save, Inv, Typed
<1>2. Typed' /\ Aging'
  BY <1>1 DEF Inv, Typed, Aging, Save
<1>3. Followed' /\ WithdrawalsTold'
  BY DEF Inv, Followed, WithdrawalsTold, Save
<1> QED BY <1>2, <1>3 DEF Inv

LEMMA RebootKeeps ==
  ASSUME Inv, Reboot
  PROVE  Inv'
<1>1. /\ SoundTable(tab')
  BY ReplayIs DEF Reboot, Inv, Typed
<1>2. /\ up' = {} /\ silence' = [n \in Neighbours |-> 0] /\ told' = [n \in Neighbours |-> {}]
      /\ UNCHANGED <<scenario, flash>>
  BY DEF Reboot
<1>3. Typed'
  BY <1>1, <1>2, Bounds DEF Inv, Typed
<1>4. Aging'
  <2>1. \A r \in tab'.routes : r.via \in Neighbours /\ r.obs \in 1..ObsInit
    BY <1>1 DEF SoundTable, Shaped, Tables, Routes
  <2> SUFFICES ASSUME NEW r \in tab'.routes PROVE r.obs + silence'[r.via] <= ObsInit
    BY DEF Aging
  <2>2. PICK o \in 1..ObsInit : o = r.obs
    BY <2>1
  <2>3. silence'[r.via] = 0
    BY <1>2, <2>1
  <2> QED BY <2>2, <2>3, Bounds
<1>5. Followed' /\ WithdrawalsTold'
  BY <1>2 DEF Followed, WithdrawalsTold
<1> QED BY <1>3, <1>4, <1>5 DEF Inv

LEMMA StutterKeeps ==
  ASSUME Inv, UNCHANGED vars
  PROVE  Inv'
BY DEF Inv, Typed, Aging, Followed, WithdrawalsTold, vars

LEMMA StepKeeps == Inv /\ [Next]_vars => Inv'
<1> SUFFICES ASSUME Inv, [Next]_vars PROVE Inv'
  OBVIOUS
<1>1. CASE \E n \in Neighbours : \E b \in scenario.broadcasts[n] : HearNodes(n, b)
  BY <1>1, HearNodesKeeps
<1>2. CASE \E n \in Neighbours, c \in scenario.costs, f \in scenario.rifs : HearRif(n, c, f)
  BY <1>2, HearRifKeeps
<1>3. CASE SweepTable
  BY <1>3, SweepKeeps
<1>4. CASE \E n \in Neighbours : NeighbourDown(n)
  BY <1>4, NeighbourDownKeeps
<1>5. CASE FanOut
  BY <1>5, FanOutKeeps
<1>6. CASE \E n \in Neighbours : LinkUp(n)
  BY <1>6, LinkUpKeeps
<1>7. CASE \E n \in Neighbours : LinkDown(n)
  BY <1>7, LinkDownKeeps
<1>8. CASE Save
  BY <1>8, SaveKeeps
<1>9. CASE Reboot
  BY <1>9, RebootKeeps
<1>10. CASE UNCHANGED vars
  BY <1>10, StutterKeeps
<1> QED BY <1>1, <1>2, <1>3, <1>4, <1>5, <1>6, <1>7, <1>8, <1>9, <1>10 DEF Next

\* The invariant of the node, in every reachable state.
THEOREM Invariant == Spec => []Inv
<1> QED BY Begins, StepKeeps, PTL DEF Spec

-----------------------------------------------------------------------------
\* The caps of the table hold whatever is heard, every pair of destination and
\* neighbour has one route, and every value is in range.
THEOREM TypeCorrect == Spec => []TypeOK
<1>1. ASSUME Inv PROVE TypeOK
  <2>1. /\ Shaped(tab) /\ Capped(tab) /\ Distinct(tab.routes) /\ tab.nbrs \subseteq Neighbours
    BY <1>1 DEF Inv, Typed, SoundTable, Shaped, Tables
  <2>2. ASSUME NEW r \in tab.routes
        PROVE  /\ r.dest \in Nat /\ r.via \in Neighbours
               /\ r.quality \in 0..255 /\ r.obs \in 1..ObsInit
               /\ r.inp3 = NoTime \/ (r.inp3[1] < HORIZON_MS /\ r.inp3[2] <= HopLimit)
               /\ RouteVia(tab, r.dest, r.via) = {r}
               /\ Cardinality(RoutesTo(tab, r.dest)) <= MaxRoutes
    <3>1. /\ r.dest \in Nat /\ r.via \in Neighbours /\ r.quality \in 0..255
          /\ r.obs \in 1..ObsInit /\ r.inp3 \in Metrics
      BY <1>1, RoutesAre DEF Inv
    <3>2. HORIZON_MS \in Nat /\ HopLimit \in Nat
      BY Bounds DEF HORIZON_MS
    <3>3. r.inp3 = NoTime \/ (r.inp3[1] < HORIZON_MS /\ r.inp3[2] <= HopLimit)
      BY <3>1, <3>2 DEF Metrics
    <3>4. RouteVia(tab, r.dest, r.via) = {r}
      BY <2>1 DEF RouteVia, RoutesTo, Distinct
    <3>5. Cardinality(RoutesTo(tab, r.dest)) <= MaxRoutes
      BY <2>1, <3>1, HopsCount DEF Capped
    <3> QED BY <3>1, <3>3, <3>4, <3>5
  <2> QED BY <1>1, <2>1, <2>2 DEF TypeOK, Capped, Inv, Typed
<1> QED BY <1>1, Invariant, PTL

\* No route leads to ourselves or without a usable quality or a time metric,
\* however broadcasts, route updates, sweeps and replays are mixed.
THEOREM RoutesAreSound == Spec => []RoutesSound
<1>1. ASSUME Inv PROVE RoutesSound
  BY <1>1, RoutesAre DEF Inv, RoutesSound, Worthy
<1> QED BY <1>1, Invariant, PTL

\* A neighbour unheard for OBSINIT sweeps carries no route.
THEOREM SilentAreForgotten == Spec => []SilentForgotten
<1>1. ASSUME Inv PROVE SilentForgotten
  <2> SUFFICES ASSUME NEW r \in tab.routes PROVE silence[r.via] < ObsInit
    BY DEF SilentForgotten
  <2>1. PICK o \in 1..ObsInit : o = r.obs
    BY <1>1, RoutesAre DEF Inv
  <2>2. PICK m \in Neighbours : m = r.via
    BY <1>1, RoutesAre DEF Inv
  <2>3. silence[m] \in 0..ObsInit /\ o + silence[m] <= ObsInit
    BY <1>1, <2>1, <2>2 DEF Inv, Typed, Aging
  <2> QED BY <2>1, <2>2, <2>3, Bounds
<1> QED BY <1>1, Invariant, PTL

\* A finite time told to a linked neighbour is held, about to be withdrawn, or
\* was lost to a NODES broadcast.
THEOREM WithdrawalsAreTold == Spec => []WithdrawalsTold
<1>1. ASSUME Inv PROVE WithdrawalsTold
  BY <1>1 DEF Inv
<1> QED BY <1>1, Invariant, PTL
=============================================================================
