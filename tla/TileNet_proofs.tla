--------------------------- MODULE TileNet_proofs ---------------------------
(***************************************************************************)
(* What holds of the replicas of a tile, for all placements, authors,      *)
(* caps, cooldowns, peers and clocks: each is a function of the set of     *)
(* placements that it was told (LayersAreNewest), from which the rest      *)
(* follows.                                                                *)
(*                                                                         *)
(* Top(S, c) is the part of S that a log of cap c keeps.  What was dropped *)
(* is never missed (TopAbsorbs), and the baked layer is the Top of what    *)
(* the live layer leaves (LayersSplit), so that an insert and a bake keep  *)
(* the layers the newest of what was seen (InsertKeepsLayers,              *)
(* BakeKeepsLayers), and so do deltas and merges, which fold them.         *)
(*                                                                         *)
(* So merges are joins (TilesFormASemilattice), a replica is an abstract   *)
(* one (ReplicaLearns), what is dropped stays away, and one answer to a    *)
(* summary says all that there is to say (OneAnswerSettles).               *)
(*                                                                         *)
(* The last two parts are about WebTile: Page(tile) is a page that has the *)
(* tile's entries, and each of a page's operations does to it what the     *)
(* contract's does to the tile (InsertsAlike, BakesAlike, ValidAlike).     *)
(***************************************************************************)
EXTENDS WebTile, FiniteSetTheorems, WellFoundedInduction, TLAPS

Tiles == [live : SUBSET Placements, baked : SUBSET Placements]

\* The facts on folds and on walks in order, for the three operations folded.
I == INSTANCE Folding WITH Op <- Insert, A <- Tiles, E <- Placements, Less <- Before
B == INSTANCE Folding WITH Op <- Bake, A <- Tiles, E <- Placements, Less <- Before
C == INSTANCE Folding WITH Op <- Accept, A <- Seq(Placements), E <- Placements,
                           Less <- Before

\* Any peer, and its replica as the abstract one: its tile is a function of the
\* placements it was told.
CONSTANT peer

IsNewestTile(tile, S) == tile = NewestTile(S)

Abstract == INSTANCE Replica WITH
  Facts <- Placements, IsJoin <- IsNewestTile, value <- state[peer], told <- heard[peer]

\* A nonempty set of numbers up to b has a greatest element.
LEMMA Greatest ==
  ASSUME NEW b \in Nat, NEW T \in SUBSET (0 .. b), T # {}
  PROVE  \E n \in T : \A m \in T : m <= n
<1> DEFINE U == {b - m : m \in T}
<1>1. U \in SUBSET Nat /\ U # {}
  <2>1. \A m \in T : m \in Nat /\ m <= b /\ b - m \in Nat
    OBVIOUS
  <2> QED BY <2>1
<1>2. PICK u \in U : \A v \in U : u <= v
  BY <1>1, I!Least
<1>3. PICK n \in T : u = b - n
  OBVIOUS
<1>4. ASSUME NEW m \in T PROVE m <= n
  <2>1. u <= b - m
    BY <1>2
  <2> QED BY <1>3, <2>1
<1> QED BY <1>4

-----------------------------------------------------------------------------
Top(S, c) == {x \in Winners(S) : Cardinality(NewerKeys(x, S)) < c}

\* The newer timestamps of an author are finitely many.
LEMMA KeysFinite ==
  ASSUME NEW S \in SUBSET Placements, NEW x
  PROVE  /\ NewerKeys(x, S) \in SUBSET (0 .. MaxField)
         /\ IsFiniteSet(NewerKeys(x, S))
         /\ Cardinality(NewerKeys(x, S)) \in Nat
<1>1. NewerKeys(x, S) \in SUBSET (0 .. MaxField)
  BY PlacementAssumption DEF NewerKeys
<1>2. IsFiniteSet(0 .. MaxField)
  BY CapAssumption, FS_Interval
<1>3. IsFiniteSet(NewerKeys(x, S))
  BY <1>1, <1>2, FS_Subset
<1> QED BY <1>1, <1>3, FS_CardinalityType

\* Fewer keys have the smaller count.
LEMMA SmallerKeys ==
  ASSUME NEW S \in SUBSET Placements, NEW x, NEW K \in SUBSET NewerKeys(x, S)
  PROVE  /\ IsFiniteSet(K) /\ Cardinality(K) \in Nat
         /\ Cardinality(K) <= Cardinality(NewerKeys(x, S))
BY KeysFinite, FS_Subset, FS_CardinalityType

\* In fewer placements there are fewer newer timestamps.
LEMMA KeysMonotone ==
  ASSUME NEW S \in SUBSET Placements, NEW R \in SUBSET S, NEW x
  PROVE  /\ NewerKeys(x, R) \subseteq NewerKeys(x, S)
         /\ Cardinality(NewerKeys(x, R)) <= Cardinality(NewerKeys(x, S))
<1>1. NewerKeys(x, R) \subseteq NewerKeys(x, S)
  BY DEF NewerKeys
<1> QED BY <1>1, SmallerKeys

\* An entry has no more keys above it than an older entry of its author.
LEMMA KeysOfNewer ==
  ASSUME NEW S \in SUBSET Placements, NEW x \in Placements, NEW y \in Placements,
         x.author = y.author, x.ts <= y.ts
  PROVE  /\ NewerKeys(y, S) \subseteq NewerKeys(x, S)
         /\ Cardinality(NewerKeys(y, S)) <= Cardinality(NewerKeys(x, S))
<1>1. NewerKeys(y, S) \subseteq NewerKeys(x, S)
  BY PlacementAssumption DEF NewerKeys
<1> QED BY <1>1, SmallerKeys

\* Every slot of S has a winner.
LEMMA WinnerExists ==
  ASSUME NEW S \in SUBSET Placements, NEW y \in S
  PROVE  \E w \in Winners(S) : SameSlot(w, y) /\ w.sig >= y.sig
<1> DEFINE slot == {z \in S : SameSlot(z, y)}
           sigs == {z.sig : z \in slot}
<1>1. sigs \in SUBSET (0 .. MaxField) /\ sigs # {}
  BY PlacementAssumption DEF SameSlot
<1>2. PICK n \in sigs : \A m \in sigs : m <= n
  BY <1>1, CapAssumption, Greatest
<1>3. PICK w \in slot : w.sig = n
  OBVIOUS
<1>4. w \in Winners(S)
  BY <1>2, <1>3, PlacementAssumption DEF Winners, SameSlot, SlotWins
<1> QED BY <1>2, <1>3, <1>4, PlacementAssumption DEF SameSlot

\* The losers of a slot do not matter to the newer timestamps.
LEMMA KeysOfWinners ==
  ASSUME NEW S \in SUBSET Placements, NEW x
  PROVE  NewerKeys(x, Winners(S)) = NewerKeys(x, S)
<1>1. NewerKeys(x, Winners(S)) \subseteq NewerKeys(x, S)
  BY DEF NewerKeys, Winners
<1>2. ASSUME NEW t \in NewerKeys(x, S) PROVE t \in NewerKeys(x, Winners(S))
  <2>1. PICK y \in S : y.author = x.author /\ y.ts > x.ts /\ y.ts = t
    BY DEF NewerKeys
  <2>2. PICK w \in Winners(S) : SameSlot(w, y)
    BY WinnerExists
  <2> QED BY <2>1, <2>2 DEF NewerKeys, SameSlot
<1> QED BY <1>1, <1>2

\* What the code's operators keep is a Top.
LEMMA NewestIsTop ==
  ASSUME NEW S \in SUBSET Placements, NEW c
  PROVE  Newest(Winners(S), c) = Top(S, c)
BY KeysOfWinners DEF Newest, Top

\* Top and Winners only choose.
LEMMA TopSubset ==
  ASSUME NEW S \in SUBSET Placements, NEW c
  PROVE  Top(S, c) \subseteq S /\ Winners(S) \subseteq S
BY DEF Top, Winners

-----------------------------------------------------------------------------
\* A key that few are newer than loses no newer key when S is cut to its Top.
LEMMA FewKeysStay ==
  ASSUME NEW S \in SUBSET Placements, NEW T \in SUBSET Placements, NEW c \in Nat,
         NEW x \in Placements, Cardinality(NewerKeys(x, S \cup T)) < c
  PROVE  NewerKeys(x, Top(S, c) \cup T) = NewerKeys(x, S \cup T)
<1>1. NewerKeys(x, Top(S, c) \cup T) \subseteq NewerKeys(x, S \cup T)
  BY TopSubset DEF NewerKeys
<1>2. ASSUME NEW t \in NewerKeys(x, S \cup T)
      PROVE  t \in NewerKeys(x, Top(S, c) \cup T)
  <2>1. PICK y \in S \cup T : y.author = x.author /\ y.ts > x.ts /\ y.ts = t
    BY DEF NewerKeys
  <2>2. CASE y \in T
    BY <2>1, <2>2 DEF NewerKeys
  <2>3. CASE y \in S
    <3>1. PICK w \in Winners(S) : SameSlot(w, y)
      BY <2>3, WinnerExists
    <3>2. w \in Placements /\ w.author = x.author /\ x.ts <= w.ts /\ w.ts = t
      BY <2>1, <3>1, PlacementAssumption DEF SameSlot, Winners
    <3>3. Cardinality(NewerKeys(w, S)) <= Cardinality(NewerKeys(x, S))
      BY <3>2, KeysOfNewer
    <3>4. Cardinality(NewerKeys(x, S)) <= Cardinality(NewerKeys(x, S \cup T))
      BY KeysMonotone
    <3>5. Cardinality(NewerKeys(w, S)) < c
      <4>1. /\ Cardinality(NewerKeys(w, S)) \in Nat
            /\ Cardinality(NewerKeys(x, S)) \in Nat
        BY KeysFinite
      <4>2. Cardinality(NewerKeys(x, S \cup T)) \in Nat
        <5>1. S \cup T \in SUBSET Placements
          OBVIOUS
        <5> QED BY <5>1, KeysFinite
      <4> QED BY <3>3, <3>4, <4>1, <4>2
    <3>6. w \in Top(S, c)
      BY <3>1, <3>5 DEF Top
    <3> QED BY <2>1, <3>2, <3>6 DEF NewerKeys
  <2> QED BY <2>2, <2>3
<1> QED BY <1>1, <1>2

\* A key that many are newer than keeps many newer keys.
LEMMA ManyKeysStay ==
  ASSUME NEW S \in SUBSET Placements, NEW T \in SUBSET Placements, NEW c \in Nat,
         NEW x \in Placements, Cardinality(NewerKeys(x, S \cup T)) >= c
  PROVE  Cardinality(NewerKeys(x, Top(S, c) \cup T)) >= c
<1> DEFINE V == S \cup T
           U == Top(S, c) \cup T
           gone == NewerKeys(x, V) \ NewerKeys(x, U)
<1>0. U \subseteq V /\ V \in SUBSET Placements /\ U \in SUBSET Placements
  BY TopSubset
<1>1. CASE gone = {}
  <2>1. NewerKeys(x, V) \subseteq NewerKeys(x, U)
    BY <1>1
  <2>2. Cardinality(NewerKeys(x, V)) <= Cardinality(NewerKeys(x, U))
    BY <1>0, <2>1, SmallerKeys
  <2>3. Cardinality(NewerKeys(x, V)) \in Nat /\ Cardinality(NewerKeys(x, U)) \in Nat
    BY <1>0, KeysFinite
  <2> QED BY <2>2, <2>3
<1>2. CASE gone # {}
  <2>1. gone \in SUBSET (0 .. MaxField)
    BY <1>0, KeysFinite
  <2>2. PICK t \in gone : \A k \in gone : k <= t
    BY <1>2, <2>1, CapAssumption, Greatest
  <2>3. PICK y \in V : y.author = x.author /\ y.ts > x.ts /\ y.ts = t
    BY DEF NewerKeys
  <2>4. y \in S /\ y \notin T
    BY <2>2, <2>3 DEF NewerKeys
  <2>5. PICK w \in Winners(S) : SameSlot(w, y)
    BY <2>4, WinnerExists
  <2>6. w \in Placements /\ w.author = x.author /\ w.ts = t /\ x.ts < w.ts
    BY <2>3, <2>5 DEF SameSlot, Winners
  <2>7. w \notin Top(S, c)
    BY <2>2, <2>6 DEF NewerKeys
  <2>8. Cardinality(NewerKeys(w, S)) >= c
    BY <2>5, <2>7, KeysFinite DEF Top
  <2>9. NewerKeys(w, S) \subseteq NewerKeys(x, U)
    <3>1. ASSUME NEW k \in NewerKeys(w, S) PROVE k \in NewerKeys(x, U)
      <4>1. k \in NewerKeys(x, V) /\ k > t /\ k \in Nat /\ t \in Nat
        BY <1>0, <2>6, PlacementAssumption DEF NewerKeys
      <4> QED BY <2>2, <4>1
    <3> QED BY <3>1
  <2>10. Cardinality(NewerKeys(w, S)) <= Cardinality(NewerKeys(x, U))
    BY <1>0, <2>9, SmallerKeys
  <2>11. /\ Cardinality(NewerKeys(w, S)) \in Nat
         /\ Cardinality(NewerKeys(x, U)) \in Nat
    BY <1>0, KeysFinite
  <2> QED BY <2>8, <2>10, <2>11
<1> QED BY <1>1, <1>2

\* What a Top has dropped is never missed: cutting S first changes nothing.
LEMMA TopAbsorbs ==
  ASSUME NEW S \in SUBSET Placements, NEW T \in SUBSET Placements, NEW c \in Nat
  PROVE  Top(Top(S, c) \cup T, c) = Top(S \cup T, c)
<1> DEFINE V == S \cup T
           U == Top(S, c) \cup T
<1>0. U \subseteq V /\ V \in SUBSET Placements /\ U \in SUBSET Placements
  BY TopSubset
<1>1. ASSUME NEW x \in Placements
      PROVE  Cardinality(NewerKeys(x, U)) < c <=> Cardinality(NewerKeys(x, V)) < c
  <2>1. Cardinality(NewerKeys(x, V)) < c => Cardinality(NewerKeys(x, U)) < c
    BY FewKeysStay
  <2>2. Cardinality(NewerKeys(x, V)) >= c => Cardinality(NewerKeys(x, U)) >= c
    BY ManyKeysStay
  <2> QED BY <1>0, <2>1, <2>2, KeysFinite
<1>2. ASSUME NEW y \in S, Cardinality(NewerKeys(y, V)) < c, y \in Winners(S)
      PROVE  y \in Top(S, c)
  <2>1. Cardinality(NewerKeys(y, S)) <= Cardinality(NewerKeys(y, V))
    BY <1>0, KeysMonotone
  <2> QED BY <1>0, <1>2, <2>1, KeysFinite DEF Top
<1>3. ASSUME NEW x \in Top(V, c) PROVE x \in Top(U, c)
  <2>1. x \in V /\ x \in Winners(V) /\ Cardinality(NewerKeys(x, V)) < c
    BY DEF Top, Winners
  <2>2. x \in U
    <3>1. CASE x \in T
      BY <3>1
    <3>2. CASE x \in S
      <4>1. x \in Winners(S)
        BY <2>1, <3>2 DEF Winners
      <4> QED BY <1>2, <2>1, <3>2, <4>1
    <3> QED BY <2>1, <3>1, <3>2
  <2>3. x \in Winners(U)
    BY <1>0, <2>1, <2>2 DEF Winners
  <2> QED BY <1>0, <1>1, <2>1, <2>3 DEF Top
<1>4. ASSUME NEW x \in Top(U, c) PROVE x \in Top(V, c)
  <2>1. x \in U /\ x \in Winners(U) /\ Cardinality(NewerKeys(x, U)) < c
    BY DEF Top, Winners
  <2>2. x \in Placements /\ Cardinality(NewerKeys(x, V)) < c
    BY <1>0, <1>1, <2>1
  <2>3. ASSUME NEW y \in V, SameSlot(x, y) PROVE SlotWins(x, y)
    <3>1. CASE y \in U
      BY <2>1, <2>3, <3>1 DEF Winners
    <3>2. CASE y \notin U
      <4>1. y \in S
        BY <3>2
      <4>2. PICK w \in Winners(S) : SameSlot(w, y) /\ w.sig >= y.sig
        BY <4>1, WinnerExists
      <4>3. w \in S /\ SameSlot(x, w)
        BY <2>3, <4>2 DEF Winners, SameSlot
      <4>4. Cardinality(NewerKeys(w, V)) < c
        BY <2>2, <4>3 DEF NewerKeys, SameSlot
      <4>5. w \in U
        BY <1>2, <4>2, <4>3, <4>4
      <4>6. x.sig >= w.sig
        BY <2>1, <4>3, <4>5 DEF Winners, SlotWins
      <4> QED BY <1>0, <2>2, <4>2, <4>3, <4>6, PlacementAssumption DEF SlotWins
    <3> QED BY <3>1, <3>2
  <2> QED BY <1>0, <2>1, <2>2, <2>3 DEF Top, Winners
<1> QED BY <1>3, <1>4

-----------------------------------------------------------------------------
\* What the live layer leaves of S, and the layers that NewestTile names.
Rest(S) == Winners(S) \ Top(S, LogCap)

\* Cutting to d and then to fewer is cutting to fewer at once.
LEMMA NestedTop ==
  ASSUME NEW S \in SUBSET Placements, NEW c \in Nat, NEW d \in Nat, c <= d
  PROVE  Newest(Top(S, d), c) = Top(S, c) /\ Top(S, c) \subseteq Top(S, d)
<1>0. /\ Top(S, d) \subseteq S
      /\ \A x : /\ Cardinality(NewerKeys(x, S)) \in Nat
                /\ Cardinality(NewerKeys(x, Top(S, d))) \in Nat
  BY TopSubset, KeysFinite
<1>1. Top(S, c) \subseteq Top(S, d)
  <2>1. ASSUME NEW x, Cardinality(NewerKeys(x, S)) < c
        PROVE  Cardinality(NewerKeys(x, S)) < d
    BY <1>0, <2>1
  <2> QED BY <2>1 DEF Top
<1>2. \A x : Cardinality(NewerKeys(x, Top(S, d))) <= Cardinality(NewerKeys(x, S))
  BY <1>0, KeysMonotone
<1>3. Top(S, c) \subseteq Newest(Top(S, d), c)
  BY <1>0, <1>1, <1>2 DEF Top, Newest
<1>4. ASSUME NEW x \in Newest(Top(S, d), c) PROVE x \in Top(S, c)
  <2>1. /\ x \in Winners(S) /\ x \in Placements
        /\ Cardinality(NewerKeys(x, S)) < d
        /\ Cardinality(NewerKeys(x, Top(S, d))) < c
    BY <1>0 DEF Newest, Top
  <2>2. NewerKeys(x, Top(S, d) \cup {}) = NewerKeys(x, S \cup {})
    <3>1. {} \in SUBSET Placements /\ Cardinality(NewerKeys(x, S \cup {})) < d
      <4>1. S \cup {} = S
        OBVIOUS
      <4> QED BY <2>1, <4>1
    <3> QED BY <2>1, <3>1, FewKeysStay
  <2>3. S \cup {} = S /\ Top(S, d) \cup {} = Top(S, d)
    OBVIOUS
  <2> QED BY <2>1, <2>2, <2>3 DEF Top
<1> QED BY <1>1, <1>3, <1>4

\* Above an entry that does not fit, the live layer is full and no fuller.
LEMMA LiveIsFull ==
  ASSUME NEW S \in SUBSET Placements, NEW x \in Placements,
         Cardinality(NewerKeys(x, S)) >= LogCap
  PROVE  Cardinality(NewerKeys(x, Top(S, LogCap))) = LogCap
<1> DEFINE U == Top(S, LogCap)
           K == NewerKeys(x, U)
<1>0. /\ U \in SUBSET Placements /\ U \subseteq S
      /\ S \cup {} = S /\ U \cup {} = U /\ {} \in SUBSET Placements
      /\ LogCap \in Nat /\ LogCap # 0
  BY TopSubset, CapAssumption
<1>1. Cardinality(K) >= LogCap
  BY <1>0, ManyKeysStay
<1>2. K \in SUBSET (0 .. MaxField) /\ IsFiniteSet(K) /\ Cardinality(K) \in Nat
  BY <1>0, KeysFinite
<1>3. K # {}
  BY <1>0, <1>1, FS_EmptySet
<1>4. K \in SUBSET Nat
  BY <1>2
<1>5. PICK t \in K : \A k \in K : t <= k
  BY <1>3, <1>4, I!Least
<1>6. PICK w \in U : w.author = x.author /\ w.ts > x.ts /\ w.ts = t
  BY DEF NewerKeys
<1>7. /\ Cardinality(NewerKeys(w, S)) < LogCap /\ w \in Placements
      /\ Cardinality(NewerKeys(w, S)) \in Nat
      /\ Cardinality(NewerKeys(w, U)) <= Cardinality(NewerKeys(w, S))
      /\ Cardinality(NewerKeys(w, U)) \in Nat /\ IsFiniteSet(NewerKeys(w, U))
  BY <1>0, KeysFinite, KeysMonotone DEF Top
<1>8. K \subseteq NewerKeys(w, U) \cup {t}
  <2>1. ASSUME NEW k \in K, k # t PROVE k \in NewerKeys(w, U)
    <3>1. PICK y \in U : y.author = x.author /\ y.ts > x.ts /\ y.ts = k
      BY DEF NewerKeys
    <3>2. k > t
      BY <1>4, <1>5, <2>1
    <3> QED BY <1>6, <3>1, <3>2 DEF NewerKeys
  <2> QED BY <2>1
<1>9. t \notin NewerKeys(w, U)
  BY <1>0, <1>4, <1>6, PlacementAssumption DEF NewerKeys
<1>10. /\ IsFiniteSet(NewerKeys(w, U) \cup {t})
       /\ Cardinality(NewerKeys(w, U) \cup {t}) = Cardinality(NewerKeys(w, U)) + 1
  BY <1>7, <1>9, FS_AddElement
<1>11. Cardinality(K) <= Cardinality(NewerKeys(w, U)) + 1
  BY <1>8, <1>10, FS_Subset
<1> QED BY <1>0, <1>1, <1>2, <1>7, <1>11

\* The baked layer is the Top of what the live layer leaves.
LEMMA LayersSplit ==
  ASSUME NEW S \in SUBSET Placements
  PROVE  NewestTile(S) = [live  |-> Top(S, LogCap),
                          baked |-> Top(Rest(S), BakedCap)]
<1> DEFINE L == Top(S, LogCap)
           R == Rest(S)
<1>0. /\ L \in SUBSET Placements /\ R \in SUBSET Placements
      /\ LogCap \in Nat /\ BakedCap \in Nat /\ LogCap + BakedCap \in Nat
      /\ LogCap <= LogCap + BakedCap
  BY TopSubset, CapAssumption DEF Rest
<1>1. ASSUME NEW x \in R
      PROVE  Cardinality(NewerKeys(x, S)) = Cardinality(NewerKeys(x, R)) + LogCap
  <2>1. x \in Placements /\ Cardinality(NewerKeys(x, S)) >= LogCap
    <3>1. x \in Placements /\ Cardinality(NewerKeys(x, S)) \in Nat
      BY <1>0, KeysFinite
    <3> QED BY <1>0, <3>1 DEF Rest, Top
  <2>2. Cardinality(NewerKeys(x, L)) = LogCap
    BY <2>1, LiveIsFull
  <2>3. NewerKeys(x, S) = NewerKeys(x, R) \cup NewerKeys(x, L)
    <3>1. Winners(S) = R \cup L
      BY DEF Rest, Top
    <3>2. NewerKeys(x, Winners(S)) = NewerKeys(x, R) \cup NewerKeys(x, L)
      BY <3>1 DEF NewerKeys
    <3> QED BY <3>2, KeysOfWinners
  <2>4. NewerKeys(x, R) \cap NewerKeys(x, L) = {}
    <3>1. ASSUME NEW y \in R, NEW z \in L, y.author = z.author, y.ts = z.ts
          PROVE  FALSE
      <4>1. y \in Winners(S) /\ z \in Winners(S)
        BY DEF Rest, Top
      <4>2. y.sig >= z.sig /\ z.sig >= y.sig
        BY <3>1, <4>1 DEF Winners, SameSlot, SlotWins
      <4>3. y = z
        BY <1>0, <3>1, <4>2, PlacementAssumption
      <4> QED BY <4>3 DEF Rest
    <3> QED BY <3>1 DEF NewerKeys
  <2>5. /\ IsFiniteSet(NewerKeys(x, R)) /\ IsFiniteSet(NewerKeys(x, L))
        /\ Cardinality(NewerKeys(x, R)) \in Nat
    BY <1>0, KeysFinite
  <2>6. Cardinality(NewerKeys(x, R) \cup NewerKeys(x, L))
          = Cardinality(NewerKeys(x, R)) + Cardinality(NewerKeys(x, L))
            - Cardinality(NewerKeys(x, R) \cap NewerKeys(x, L))
    BY <2>5, FS_Union
  <2> QED BY <1>0, <2>2, <2>3, <2>4, <2>5, <2>6, FS_EmptySet
<1>2. Winners(R) = R
  BY DEF Winners, Rest
<1>3. Top(R, BakedCap) = Top(S, LogCap + BakedCap) \ L
  <2>1. \A x \in R : Cardinality(NewerKeys(x, R)) \in Nat
    BY <1>0, KeysFinite
  <2>2. \A x \in R : Cardinality(NewerKeys(x, R)) < BakedCap
                       <=> Cardinality(NewerKeys(x, S)) < LogCap + BakedCap
    BY <1>0, <1>1, <2>1
  <2>3. Top(S, LogCap + BakedCap) \ L
          = {x \in R : Cardinality(NewerKeys(x, S)) < LogCap + BakedCap}
    BY DEF Top, Rest
  <2>4. Top(R, BakedCap) = {x \in R : Cardinality(NewerKeys(x, R)) < BakedCap}
    BY <1>2 DEF Top
  <2> QED BY <2>2, <2>3, <2>4
<1>4. Newest(Winners(S), LogCap + BakedCap) = Top(S, LogCap + BakedCap)
  BY NewestIsTop
<1>5. Newest(Top(S, LogCap + BakedCap), LogCap) = L
  BY <1>0, NestedTop
<1> QED BY <1>3, <1>4, <1>5 DEF NewestTile

\* What the live layer leaves after x is what it left before, and D.
LEMMA RestGrows ==
  ASSUME NEW S \in SUBSET Placements, NEW x \in Placements,
         NEW D \in SUBSET (S \cup {x}),
         \A y \in D : Cardinality(NewerKeys(y, S \cup {x})) >= LogCap,
         Rest(S \cup {x}) \subseteq Rest(S) \cup D
  PROVE  Newest(Winners(Top(Rest(S), BakedCap) \cup D), BakedCap)
           = Top(Rest(S \cup {x}), BakedCap)
<1> DEFINE N == S \cup {x}
           Z == Rest(S) \cup D
<1>0. /\ N \in SUBSET Placements /\ S \in SUBSET N /\ Rest(S) \subseteq S
      /\ Z \in SUBSET N /\ Z \in SUBSET Placements /\ D \in SUBSET Placements
      /\ LogCap \in Nat /\ BakedCap \in Nat
      /\ Rest(S) \in SUBSET Placements /\ Rest(N) \in SUBSET Placements
      /\ Top(Rest(S), BakedCap) \cup D \in SUBSET Placements
  BY TopSubset, CapAssumption DEF Rest, Winners, Top
<1>1. \A y \in Z : Cardinality(NewerKeys(y, N)) >= LogCap
  <2>1. ASSUME NEW y \in Rest(S) PROVE Cardinality(NewerKeys(y, N)) >= LogCap
    <3>1. /\ Cardinality(NewerKeys(y, S)) \in Nat
          /\ Cardinality(NewerKeys(y, N)) \in Nat
      BY <1>0, KeysFinite
    <3>2. Cardinality(NewerKeys(y, S)) >= LogCap
      BY <1>0, <3>1 DEF Rest, Top
    <3>3. Cardinality(NewerKeys(y, S)) <= Cardinality(NewerKeys(y, N))
      BY <1>0, KeysMonotone
    <3> QED BY <1>0, <3>1, <3>2, <3>3
  <2> QED BY <2>1
<1>2. Rest(N) \subseteq Winners(Z)
  <2>1. \A w \in Winners(N) : w \in Z => w \in Winners(Z)
    BY <1>0 DEF Winners
  <2>2. Rest(N) \subseteq Winners(N)
    BY DEF Rest
  <2> QED BY <2>1, <2>2
<1>3. ASSUME NEW w \in Winners(Z) PROVE w \in Rest(N)
  <2>1. w \in Z /\ w \in N /\ w \in Placements
    BY <1>0 DEF Winners
  <2>2. PICK v \in Winners(N) : SameSlot(v, w) /\ v.sig >= w.sig
    BY <1>0, <2>1, WinnerExists
  <2>3. NewerKeys(v, N) = NewerKeys(w, N) /\ v \in Placements
    BY <1>0, <2>2 DEF NewerKeys, SameSlot, Winners
  <2>4. Cardinality(NewerKeys(v, N)) >= LogCap
    BY <1>1, <2>1, <2>3
  <2>5. v \in Rest(N)
    BY <1>0, <2>2, <2>4, KeysFinite DEF Rest, Top
  <2>6. v \in Z
    BY <2>5
  <2>7. w.sig >= v.sig
    BY <2>2, <2>6 DEF Winners, SameSlot, SlotWins
  <2>8. v = w
    BY <2>1, <2>2, <2>3, <2>7, PlacementAssumption DEF SameSlot
  <2> QED BY <2>5, <2>8
<1>4. Winners(Z) = Rest(N)
  BY <1>2, <1>3
<1>5. Winners(Rest(N)) = Rest(N)
  BY DEF Winners, Rest
<1>6. Newest(Winners(Top(Rest(S), BakedCap) \cup D), BakedCap)
        = Top(Top(Rest(S), BakedCap) \cup D, BakedCap)
  BY <1>0, NewestIsTop
<1>7. Top(Top(Rest(S), BakedCap) \cup D, BakedCap) = Top(Z, BakedCap)
  BY <1>0, TopAbsorbs
<1>8. Top(Z, BakedCap) = Top(Rest(N), BakedCap)
  BY <1>0, <1>4, <1>5, NewestIsTop
<1> QED BY <1>6, <1>7, <1>8

-----------------------------------------------------------------------------
\* Tile::insert keeps the layers the newest of what was seen.
LEMMA InsertKeepsLayers ==
  ASSUME NEW S \in SUBSET Placements, NEW x \in Placements
  PROVE  Insert(NewestTile(S), x) = NewestTile(S \cup {x})
<1> DEFINE N == S \cup {x}
           L == Top(S, LogCap)
           D == Displaced(L, x, LogCap)
<1>0. /\ N \in SUBSET Placements /\ L \in SUBSET S /\ L \in SUBSET Placements
      /\ L \cup {x} \in SUBSET Placements /\ L \cup {x} \in SUBSET N
      /\ {x} \in SUBSET Placements /\ LogCap \in Nat
  BY TopSubset, CapAssumption
<1>1. /\ Newest(Winners(L \cup {x}), LogCap) = Top(L \cup {x}, LogCap)
      /\ Top(L \cup {x}, LogCap) = Top(N, LogCap)
  BY <1>0, NewestIsTop, TopAbsorbs
<1>2. D = Winners(L \cup {x}) \ Top(N, LogCap)
  BY <1>1 DEF Displaced, LogInsert
<1>3. D \in SUBSET N
  BY <1>0, <1>2 DEF Winners
<1>4. ASSUME NEW y \in D PROVE Cardinality(NewerKeys(y, N)) >= LogCap
  <2>1. y \in Winners(L \cup {x}) /\ y \notin Top(L \cup {x}, LogCap)
    BY <1>1, <1>2
  <2>2. /\ Cardinality(NewerKeys(y, L \cup {x})) \in Nat
        /\ Cardinality(NewerKeys(y, N)) \in Nat
        /\ Cardinality(NewerKeys(y, L \cup {x})) <= Cardinality(NewerKeys(y, N))
    BY <1>0, KeysFinite, KeysMonotone
  <2>3. ~(Cardinality(NewerKeys(y, L \cup {x})) < LogCap)
    BY <2>1 DEF Top
  <2> QED BY <1>0, <2>2, <2>3
<1>5. ASSUME NEW w \in Rest(N) PROVE w \in Rest(S) \cup D
  <2>1. w \in Winners(N) /\ w \in N /\ w \notin Top(N, LogCap)
    BY DEF Rest, Winners
  <2>2. CASE w \in L \/ w = x
    <3>1. w \in Winners(L \cup {x})
      BY <1>0, <2>1, <2>2 DEF Winners
    <3> QED BY <1>2, <2>1, <3>1
  <2>3. CASE w \in S /\ w \notin L
    BY <2>1, <2>3 DEF Winners, Rest
  <2> QED BY <2>1, <2>2, <2>3
<1>6. Rest(N) \subseteq Rest(S) \cup D
  BY <1>5
<1>7. Newest(Winners(Top(Rest(S), BakedCap) \cup D), BakedCap)
        = Top(Rest(N), BakedCap)
  <2> HIDE DEF D
  <2> QED BY <1>3, <1>4, <1>6, RestGrows
<1>8. Insert(NewestTile(S), x)
        = [live |-> Top(N, LogCap), baked |-> Top(Rest(N), BakedCap)]
  <2>1. NewestTile(S) = [live |-> L, baked |-> Top(Rest(S), BakedCap)]
    BY LayersSplit
  <2>2. /\ NewestTile(S).live = L
        /\ NewestTile(S).baked = Top(Rest(S), BakedCap)
    BY <2>1
  <2>3. LogInsert(NewestTile(S).live, x, LogCap) = Top(N, LogCap)
    BY <1>1, <2>2 DEF LogInsert
  <2> HIDE DEF D
  <2>4. Displaced(NewestTile(S).live, x, LogCap) = D
    BY <2>2 DEF D
  <2> QED BY <1>7, <2>2, <2>3, <2>4 DEF Insert
<1> QED BY <1>0, <1>8, LayersSplit

\* So does Tile::bake of a placement that is older than a full live log.
LEMMA BakeKeepsLayers ==
  ASSUME NEW S \in SUBSET Placements, NEW x \in Placements,
         Cardinality(NewerKeys(x, NewestTile(S).live)) >= LogCap
  PROVE  Bake(NewestTile(S), x) = NewestTile(S \cup {x})
<1> DEFINE N == S \cup {x}
           L == Top(S, LogCap)
<1>0. /\ N \in SUBSET Placements /\ L \in SUBSET S /\ S \in SUBSET N
      /\ {x} \in SUBSET N /\ LogCap \in Nat
      /\ \A y : /\ Cardinality(NewerKeys(y, S)) \in Nat
                /\ Cardinality(NewerKeys(y, N)) \in Nat
  BY TopSubset, CapAssumption, KeysFinite
<1>1. NewestTile(S).live = L
  BY LayersSplit
<1>2. Cardinality(NewerKeys(x, S)) >= LogCap
  <2>1. /\ Cardinality(NewerKeys(x, L)) <= Cardinality(NewerKeys(x, S))
        /\ Cardinality(NewerKeys(x, L)) \in Nat
    BY <1>0, KeysMonotone, KeysFinite
  <2> QED BY <1>0, <1>1, <2>1
<1>3. Cardinality(NewerKeys(x, N)) >= LogCap
  <2>1. Cardinality(NewerKeys(x, S)) <= Cardinality(NewerKeys(x, N))
    BY <1>0, KeysMonotone
  <2> QED BY <1>0, <1>2, <2>1
<1>4. ASSUME NEW y \in Top(N, LogCap) PROVE y \in L
  <2>1. y \in Winners(N) /\ y \in N /\ Cardinality(NewerKeys(y, N)) < LogCap
    BY DEF Top, Winners
  <2>2. y # x
    BY <1>0, <1>3, <2>1
  <2>3. y \in S /\ y \in Winners(S)
    BY <2>1, <2>2 DEF Winners
  <2>4. Cardinality(NewerKeys(y, S)) <= Cardinality(NewerKeys(y, N))
    BY <1>0, KeysMonotone
  <2> QED BY <1>0, <2>1, <2>3, <2>4 DEF Top
<1>5. ASSUME NEW y \in L PROVE y \in Top(N, LogCap)
  <2>1. /\ y \in Winners(S) /\ y \in S /\ y \in Placements
        /\ Cardinality(NewerKeys(y, S)) < LogCap
    BY <1>0 DEF Top
  <2>2. ~(x.author = y.author /\ x.ts >= y.ts)
    <3>1. SUFFICES ASSUME x.author = y.author, x.ts >= y.ts PROVE FALSE
      OBVIOUS
    <3>2. y.ts <= x.ts
      BY <2>1, <3>1, PlacementAssumption
    <3>3. Cardinality(NewerKeys(x, S)) <= Cardinality(NewerKeys(y, S))
      BY <2>1, <3>1, <3>2, KeysOfNewer
    <3> QED BY <1>0, <1>2, <2>1, <3>3
  <2>3. NewerKeys(y, N) = NewerKeys(y, S)
    BY <2>1, <2>2, PlacementAssumption DEF NewerKeys
  <2>4. ~SameSlot(y, x)
    BY <2>1, <2>2, PlacementAssumption DEF SameSlot
  <2>5. y \in Winners(N)
    BY <2>1, <2>4 DEF Winners
  <2> QED BY <2>1, <2>3, <2>5 DEF Top
<1>6. Top(N, LogCap) = L
  BY <1>4, <1>5
<1>7. Rest(N) \subseteq Rest(S) \cup {x}
  BY <1>6 DEF Rest, Winners
<1>8. Newest(Winners(Top(Rest(S), BakedCap) \cup {x}), BakedCap)
        = Top(Rest(N), BakedCap)
  BY <1>0, <1>3, <1>7, RestGrows
<1>9. Bake(NewestTile(S), x)
        = [live |-> L, baked |-> Top(Rest(N), BakedCap)]
  <2>1. NewestTile(S) = [live |-> L, baked |-> Top(Rest(S), BakedCap)]
    BY LayersSplit
  <2>2. LogInsert(Top(Rest(S), BakedCap), x, BakedCap) = Top(Rest(N), BakedCap)
    BY <1>8 DEF LogInsert
  <2> QED BY <2>1, <2>2 DEF Bake
<1> QED BY <1>0, <1>6, <1>9, LayersSplit

\* The tile that has seen nothing is empty.
LEMMA EmptyLayers == NewestTile({}) = EmptyTile
BY DEF NewestTile, EmptyTile, Newest, Winners
-----------------------------------------------------------------------------
OneOfASlot(S) == \A x, y \in S : SameSlot(x, y) => x = y

\* What is left in the slots after each has a winner.
LEMMA WinnersAreAlone ==
  ASSUME NEW S \in SUBSET Placements
  PROVE  OneOfASlot(Winners(S))
<1> SUFFICES ASSUME NEW x \in Winners(S), NEW y \in Winners(S), SameSlot(x, y)
             PROVE  x = y
  BY DEF OneOfASlot
<1>1. x.sig >= y.sig /\ y.sig >= x.sig
  BY DEF Winners, SameSlot, SlotWins
<1>2. x \in Placements /\ y \in Placements
  BY DEF Winners
<1> QED BY <1>1, <1>2, PlacementAssumption DEF SameSlot

\* The instances count as this module does.
LEMMA SameCounts ==
  ASSUME NEW S
  PROVE  I!Cardinality(S) = Cardinality(S) /\ (I!IsFiniteSet(S) <=> IsFiniteSet(S))
BY DEF Cardinality, I!Cardinality, IsFiniteSet, I!IsFiniteSet

\* Iteration visits the entries of a map, each once, by author and time.
LEMMA InOrderFacts ==
  ASSUME NEW S \in SUBSET Placements, OneOfASlot(S)
  PROVE  /\ InOrder(S) \in Seq(Placements) /\ ToSet(InOrder(S)) = S
         /\ \A i, j \in 1 .. Len(InOrder(S)) :
              i < j => Before(InOrder(S)[i], InOrder(S)[j])
<1>1. IsFiniteSet(S)
  BY PlacementAssumption, FS_Subset
<1>2. I!StrictOrder(S)
  <2>1. ASSUME NEW x \in S PROVE x.author \in Nat /\ x.ts \in Nat
    <3>1. x.author \in Authors /\ Authors \subseteq Nat /\ x.ts \in 0 .. MaxField
      BY PlacementAssumption
    <3>2. x.author \in Nat
      BY <3>1
    <3>3. x.ts \in Nat
      BY <3>1
    <3> QED BY <3>2, <3>3
  <2>2. \A x, y \in S : x = y \/ Before(x, y) \/ Before(y, x)
    BY <2>1 DEF OneOfASlot, SameSlot, Before
  <2>3. \A x \in S : ~Before(x, x)
    BY <2>1 DEF Before
  <2>4. \A x, y, z \in S : Before(x, y) /\ Before(y, z) => Before(x, z)
    BY <2>1 DEF Before
  <2> QED BY <2>2, <2>3, <2>4 DEF I!StrictOrder
<1>3. InOrder(S) = I!Sorted(S)
  BY DEF InOrder, I!Sorted, I!Below, Cardinality, I!Cardinality
<1>4. /\ InOrder(S) \in Seq(S)
      /\ \A x \in S : \E i \in 1 .. Len(InOrder(S)) : InOrder(S)[i] = x
      /\ \A i, j \in 1 .. Len(InOrder(S)) :
           i < j => Before(InOrder(S)[i], InOrder(S)[j])
  BY <1>1, <1>2, <1>3, I!SortedSeq, SameCounts
<1>5. ToSet(InOrder(S)) = S
  BY <1>4 DEF ToSet
<1> QED BY <1>4, <1>5

\* What a fold of insert goes through.
LEMMA InsertSteps ==
  ASSUME NEW tile \in Tiles, NEW seq \in Seq(Placements)
  PROVE  \E c \in [0 .. Len(seq) -> Tiles] :
           /\ c[0] = tile /\ c[Len(seq)] = FoldLeft(Insert, tile, seq)
           /\ \A k \in 1 .. Len(seq) : c[k] = Insert(c[k - 1], seq[k])
<1>1. I!Closed
  BY DEF I!Closed, Tiles, Insert, LogInsert, Displaced, Newest, Winners
<1> QED BY <1>1, I!FoldLeftSteps
        DEF FoldLeft, I!FoldLeft, MapThenFoldSet, I!MapThenFoldSet, Max, I!Max

\* Inserting placements one after the other keeps the layers the newest.
LEMMA InsertAll ==
  ASSUME NEW S \in SUBSET Placements, NEW seq \in Seq(Placements)
  PROVE  FoldLeft(Insert, NewestTile(S), seq) = NewestTile(S \cup ToSet(seq))
<1> DEFINE n == Len(seq)
           T(k) == S \cup {seq[i] : i \in 1 .. k}
<1>0. \A R \in SUBSET Placements : NewestTile(R) \in Tiles
  BY DEF NewestTile, Newest, Winners, Tiles
<1>2. PICK c \in [0 .. n -> Tiles] :
        /\ c[0] = NewestTile(S) /\ c[n] = FoldLeft(Insert, NewestTile(S), seq)
        /\ \A k \in 1 .. n : c[k] = Insert(c[k - 1], seq[k])
  BY <1>0, InsertSteps
<1> DEFINE P == {k \in 0 .. n : c[k] = NewestTile(T(k))}
<1>3. 0 \in P
  <2>1. T(0) = S /\ 0 \in 0 .. n
    OBVIOUS
  <2> QED BY <1>2, <2>1
<1>4. ASSUME NEW k \in 1 .. n, k - 1 \in P PROVE k \in P
  <2>1. T(k) = T(k - 1) \cup {seq[k]} /\ k \in 0 .. n
    <3>1. 1 .. k = (1 .. (k - 1)) \cup {k}
      OBVIOUS
    <3> QED BY <3>1
  <2>2. seq[k] \in Placements /\ T(k - 1) \in SUBSET Placements
    OBVIOUS
  <2>3. Insert(NewestTile(T(k - 1)), seq[k]) = NewestTile(T(k - 1) \cup {seq[k]})
    BY <2>2, InsertKeepsLayers
  <2> HIDE DEF T
  <2> QED BY <1>2, <1>4, <2>1, <2>3
<1>5. n \in P
  <2>1. n \in Nat /\ n \in 0 .. n
    OBVIOUS
  <2> HIDE DEF P, n
  <2>2. \A k \in 0 .. n : k \in P
    BY <1>3, <1>4, <2>1, I!Upto
  <2> QED BY <2>1, <2>2
<1>6. T(n) = S \cup ToSet(seq)
  BY DEF ToSet
<1> QED BY <1>2, <1>5, <1>6

\* What a fold of bake goes through.
LEMMA BakeSteps ==
  ASSUME NEW tile \in Tiles, NEW seq \in Seq(Placements)
  PROVE  \E c \in [0 .. Len(seq) -> Tiles] :
           /\ c[0] = tile /\ c[Len(seq)] = FoldLeft(Bake, tile, seq)
           /\ \A k \in 1 .. Len(seq) : c[k] = Bake(c[k - 1], seq[k])
<1>1. B!Closed
  BY DEF B!Closed, Tiles, Bake, LogInsert, Newest, Winners
<1> QED BY <1>1, B!FoldLeftSteps
        DEF FoldLeft, B!FoldLeft, MapThenFoldSet, B!MapThenFoldSet, Max, B!Max

\* Baking placements one after the other does, if all are older than a full live log.
LEMMA BakeAll ==
  ASSUME NEW S \in SUBSET Placements, NEW seq \in Seq(Placements),
         \A x \in ToSet(seq) : Cardinality(NewerKeys(x, S)) >= LogCap
  PROVE  FoldLeft(Bake, NewestTile(S), seq) = NewestTile(S \cup ToSet(seq))
<1> DEFINE n == Len(seq)
           T(k) == S \cup {seq[i] : i \in 1 .. k}
<1>0. \A R \in SUBSET Placements : NewestTile(R) \in Tiles
  BY DEF NewestTile, Newest, Winners, Tiles
<1>2. PICK c \in [0 .. n -> Tiles] :
        /\ c[0] = NewestTile(S) /\ c[n] = FoldLeft(Bake, NewestTile(S), seq)
        /\ \A k \in 1 .. n : c[k] = Bake(c[k - 1], seq[k])
  BY <1>0, BakeSteps
<1> DEFINE P == {k \in 0 .. n : c[k] = NewestTile(T(k))}
<1>3. 0 \in P
  <2>1. T(0) = S /\ 0 \in 0 .. n
    OBVIOUS
  <2> QED BY <1>2, <2>1
<1>4. ASSUME NEW k \in 1 .. n, k - 1 \in P PROVE k \in P
  <2>1. T(k) = T(k - 1) \cup {seq[k]} /\ k \in 0 .. n
    <3>1. 1 .. k = (1 .. (k - 1)) \cup {k}
      OBVIOUS
    <3> QED BY <3>1
  <2>2. /\ seq[k] \in Placements /\ seq[k] \in ToSet(seq)
        /\ T(k - 1) \in SUBSET Placements /\ S \in SUBSET T(k - 1)
    BY DEF ToSet
  <2> HIDE DEF T
  <2>3. Cardinality(NewerKeys(seq[k], T(k - 1))) >= LogCap
    <3>1. /\ Cardinality(NewerKeys(seq[k], S)) >= LogCap /\ LogCap \in Nat
          /\ Cardinality(NewerKeys(seq[k], S))
               <= Cardinality(NewerKeys(seq[k], T(k - 1)))
          /\ Cardinality(NewerKeys(seq[k], S)) \in Nat
          /\ Cardinality(NewerKeys(seq[k], T(k - 1))) \in Nat
      BY <2>2, KeysMonotone, KeysFinite, CapAssumption
    <3> QED BY <3>1
  <2>4. Cardinality(NewerKeys(seq[k], NewestTile(T(k - 1)).live)) >= LogCap
    <3>1. NewestTile(T(k - 1)).live = Top(T(k - 1), LogCap)
      BY <2>2, LayersSplit
    <3>2. Cardinality(NewerKeys(seq[k], Top(T(k - 1), LogCap))) = LogCap
      BY <2>2, <2>3, LiveIsFull
    <3> QED BY <3>1, <3>2, CapAssumption
  <2>5. Bake(NewestTile(T(k - 1)), seq[k]) = NewestTile(T(k - 1) \cup {seq[k]})
    BY <2>2, <2>4, BakeKeepsLayers
  <2> QED BY <1>2, <1>4, <2>1, <2>5
<1>5. n \in P
  <2>1. n \in Nat /\ n \in 0 .. n
    OBVIOUS
  <2> HIDE DEF P, n
  <2>2. \A k \in 0 .. n : k \in P
    BY <1>3, <1>4, <2>1, I!Upto
  <2> QED BY <2>1, <2>2
<1>6. T(n) = S \cup ToSet(seq)
  BY DEF ToSet
<1> QED BY <1>2, <1>5, <1>6

\* What the two layers of a replica hold.
LEMMA LayersFacts ==
  ASSUME NEW S \in SUBSET Placements
  PROVE  /\ NewestTile(S) \in Tiles
         /\ NewestTile(S).live = Top(S, LogCap)
         /\ NewestTile(S).baked \subseteq Rest(S)
         /\ Entries(NewestTile(S)) = Top(S, LogCap + BakedCap)
         /\ Entries(NewestTile(S)) \subseteq S
         /\ OneOfASlot(Entries(NewestTile(S)))
         /\ OneOfASlot(NewestTile(S).live) /\ OneOfASlot(NewestTile(S).baked)
<1> DEFINE kept == Newest(Winners(S), LogCap + BakedCap)
           live == Newest(kept, LogCap)
<1>1. NewestTile(S) = [live |-> live, baked |-> kept \ live] /\ live \subseteq kept
  BY DEF NewestTile, Newest
<1>2. kept = Top(S, LogCap + BakedCap)
  BY NewestIsTop
<1> HIDE DEF kept, live
<1>3. /\ NewestTile(S) \in Tiles /\ Entries(NewestTile(S)) = kept
      /\ NewestTile(S).live \subseteq kept /\ NewestTile(S).baked \subseteq kept
  BY <1>1, <1>2, TopSubset DEF Entries, Tiles
<1>4. NewestTile(S).live = Top(S, LogCap) /\ NewestTile(S).baked \subseteq Rest(S)
  BY LayersSplit DEF Top, Winners
<1>5. kept \subseteq Winners(S) /\ Winners(S) \subseteq S
  BY <1>2 DEF Top, Winners
<1>6. OneOfASlot(Winners(S))
  BY WinnersAreAlone
<1> QED BY <1>2, <1>3, <1>4, <1>5, <1>6 DEF OneOfASlot

\* The live layer above a baked entry is full.
LEMMA FullAboveBaked ==
  ASSUME NEW S \in SUBSET Placements, NEW x \in NewestTile(S).baked
  PROVE  /\ x \in Placements
         /\ Cardinality(NewerKeys(x, S)) >= LogCap
         /\ Cardinality(NewerKeys(x, NewestTile(S).live)) = LogCap
<1>1. x \in Winners(S) /\ x \notin Top(S, LogCap) /\ x \in Placements
  BY LayersFacts DEF Rest, Winners
<1>2. Cardinality(NewerKeys(x, S)) >= LogCap
  BY <1>1, KeysFinite, CapAssumption DEF Top
<1>3. Cardinality(NewerKeys(x, Top(S, LogCap))) = LogCap
  BY <1>1, <1>2, LiveIsFull
<1> QED BY <1>1, <1>2, <1>3, LayersFacts

\* A merge with another replica tells all that the other holds.
LEMMA MergeKeepsLayers ==
  ASSUME NEW S \in SUBSET Placements, NEW T \in SUBSET Placements
  PROVE  Merge(NewestTile(S), NewestTile(T))
           = NewestTile(S \cup Entries(NewestTile(T)))
<1> DEFINE live == NewestTile(T).live
           baked == NewestTile(T).baked
<1>1. /\ live \in SUBSET Placements /\ baked \in SUBSET Placements
      /\ OneOfASlot(live) /\ OneOfASlot(baked)
      /\ Entries(NewestTile(T)) = live \cup baked
  BY LayersFacts DEF Tiles, Entries
<1>2. ASSUME NEW x \in baked PROVE Cardinality(NewerKeys(x, S \cup live)) >= LogCap
  <2>1. Cardinality(NewerKeys(x, live)) = LogCap
    BY FullAboveBaked
  <2>2. S \cup live \in SUBSET Placements /\ live \in SUBSET (S \cup live)
    BY <1>1
  <2>3. /\ Cardinality(NewerKeys(x, live)) <= Cardinality(NewerKeys(x, S \cup live))
        /\ Cardinality(NewerKeys(x, S \cup live)) \in Nat
    BY <2>2, KeysMonotone, KeysFinite
  <2> QED BY <2>1, <2>3, CapAssumption
<1> HIDE DEF live, baked
<1>3. /\ InOrder(live) \in Seq(Placements) /\ ToSet(InOrder(live)) = live
      /\ InOrder(baked) \in Seq(Placements) /\ ToSet(InOrder(baked)) = baked
  BY <1>1, InOrderFacts
<1>4. FoldLeft(Insert, NewestTile(S), InOrder(live)) = NewestTile(S \cup live)
  BY <1>3, InsertAll
<1>5. S \cup live \in SUBSET Placements
  BY <1>1
<1>6. FoldLeft(Bake, NewestTile(S \cup live), InOrder(baked))
        = NewestTile((S \cup live) \cup baked)
  BY <1>2, <1>3, <1>5, BakeAll
<1>7. (S \cup live) \cup baked = S \cup Entries(NewestTile(T))
  BY <1>1
<1> QED BY <1>4, <1>6, <1>7 DEF Merge, live, baked

\* Two sequences in a row tell what both do.
LEMMA ToSetOfBoth ==
  ASSUME NEW s \in Seq(Placements), NEW t \in Seq(Placements)
  PROVE  ToSet(s \o t) = ToSet(s) \cup ToSet(t)
<1>1. ASSUME NEW i \in 1 .. Len(s \o t)
      PROVE  (s \o t)[i] \in ToSet(s) \cup ToSet(t)
  <2>1. CASE i <= Len(s)
    BY <2>1 DEF ToSet
  <2>2. CASE i > Len(s)
    <3>1. i - Len(s) \in 1 .. Len(t) /\ (s \o t)[i] = t[i - Len(s)]
      BY <2>2
    <3> QED BY <3>1 DEF ToSet
  <2> QED BY <2>1, <2>2
<1>2. ASSUME NEW i \in 1 .. Len(s) PROVE s[i] \in ToSet(s \o t)
  <2>1. i \in 1 .. Len(s \o t) /\ (s \o t)[i] = s[i]
    OBVIOUS
  <2> QED BY <2>1 DEF ToSet
<1>3. ASSUME NEW i \in 1 .. Len(t) PROVE t[i] \in ToSet(s \o t)
  <2>1. i + Len(s) \in 1 .. Len(s \o t) /\ (s \o t)[i + Len(s)] = t[i]
    OBVIOUS
  <2> QED BY <2>1 DEF ToSet
<1>4. ToSet(s) \cup ToSet(t) \subseteq ToSet(s \o t)
  <2>1. /\ ToSet(s) = {s[i] : i \in 1 .. Len(s)}
        /\ ToSet(t) = {t[i] : i \in 1 .. Len(t)}
    BY DEF ToSet
  <2> QED BY <1>2, <1>3, <2>1
<1>5. ToSet(s \o t) \subseteq ToSet(s) \cup ToSet(t)
  BY <1>1 DEF ToSet
<1> QED BY <1>4, <1>5

\* The entries that a replica has for a summary, whatever the summary says.
LEMMA DeltaFacts ==
  ASSUME NEW S \in SUBSET Placements, NEW marks
  PROVE  /\ Delta(NewestTile(S), marks) \in Seq(Placements)
         /\ ToSet(Delta(NewestTile(S), marks)) =
              {x \in Entries(NewestTile(S)) :
                 x.author \in DOMAIN marks => x.ts > marks[x.author]}
<1> DEFINE Missing(log) ==
             {x \in log : x.author \in DOMAIN marks => x.ts > marks[x.author]}
           live == Missing(NewestTile(S).live)
           baked == Missing(NewestTile(S).baked)
<1>1. /\ NewestTile(S).live \in SUBSET Placements
      /\ NewestTile(S).baked \in SUBSET Placements
      /\ OneOfASlot(NewestTile(S).live) /\ OneOfASlot(NewestTile(S).baked)
  BY LayersFacts DEF Tiles
<1>2. /\ live \in SUBSET Placements /\ baked \in SUBSET Placements
      /\ OneOfASlot(live) /\ OneOfASlot(baked)
  BY <1>1 DEF OneOfASlot
<1>3. live \cup baked = Missing(Entries(NewestTile(S)))
  BY DEF Entries
<1> HIDE DEF live, baked
<1>4. /\ InOrder(live) \in Seq(Placements) /\ ToSet(InOrder(live)) = live
      /\ InOrder(baked) \in Seq(Placements) /\ ToSet(InOrder(baked)) = baked
  BY <1>2, InOrderFacts
<1>5. /\ InOrder(live) \o InOrder(baked) \in Seq(Placements)
      /\ ToSet(InOrder(live) \o InOrder(baked)) = live \cup baked
  BY <1>4, ToSetOfBoth
<1>6. Delta(NewestTile(S), marks) = InOrder(live) \o InOrder(baked)
  BY DEF Delta, live, baked
<1> QED BY <1>3, <1>5, <1>6

-----------------------------------------------------------------------------
\* The tiles that replicas may have.
Reached == {NewestTile(S) : S \in SUBSET Placements}

Payload == [kind : {"state", "delta", "both"}, from : Peers, to : Peers,
            state : Reached, delta : Seq(Placements)]

\* A delta is made of any summary, whose marks need no type then.
MessageOK(m) ==
  \/ m.kind = "summary" /\ m.from \in Peers /\ m.to \in Peers
  \/ m \in Payload

NetInv ==
  /\ IsFiniteSet(net) /\ Cardinality(net) <= MaxMsgs
  /\ \A m \in net : MessageOK(m)

\* A replica is a function of its history, which is from no later than its clock's
\* skew allows.
ReplicaInv ==
  /\ state \in [Peers -> Tiles] /\ heard \in [Peers -> SUBSET Placements]
  /\ clock \in [Peers -> 0 .. MaxClock]
  /\ LayersAreNewest
  /\ \A p \in Peers : InTime(heard[p], clock[p])

\* An update of a replica tells what its history has afterwards.
LEMMA UpdatedKeepsLayers ==
  ASSUME NEW S \in SUBSET Placements, NEW m \in Payload
  PROVE  /\ Told(NewestTile(S), m) \in SUBSET Placements
         /\ Updated(NewestTile(S), m) = NewestTile(S \cup Told(NewestTile(S), m))
<1>1. m.kind \in {"state", "delta", "both"} /\ m.delta \in Seq(Placements)
  BY DEF Payload
<1>2. PICK T \in SUBSET Placements : m.state = NewestTile(T)
  BY DEF Payload, Reached
<1> DEFINE told == Entries(NewestTile(T))
<1>3. told \in SUBSET Placements /\ ToSet(m.delta) \in SUBSET Placements
  BY <1>1, LayersFacts DEF ToSet
<1>4. Merge(NewestTile(S), m.state) = NewestTile(S \cup told)
  BY <1>2, MergeKeepsLayers
<1>5. CASE m.kind = "state"
  BY <1>2, <1>3, <1>4, <1>5 DEF Updated, Told
<1>6. CASE m.kind = "delta"
  <2>1. FoldLeft(Insert, NewestTile(S), m.delta) = NewestTile(S \cup ToSet(m.delta))
    BY <1>1, InsertAll
  <2> QED BY <1>3, <1>6, <2>1 DEF Updated, Told, ApplyDelta, ToldBy
<1>7. CASE m.kind = "both"
  <2>1. Told(NewestTile(S), m) = told \cup ToSet(m.delta)
    BY <1>2, <1>7 DEF Told, ToldBy
  <2>2. FoldLeft(Insert, NewestTile(S \cup told), m.delta)
          = NewestTile((S \cup told) \cup ToSet(m.delta))
    BY <1>1, <1>3, InsertAll
  <2>3. (S \cup told) \cup ToSet(m.delta) = S \cup (told \cup ToSet(m.delta))
    OBVIOUS
  <2> QED BY <1>3, <1>4, <1>7, <2>1, <2>2, <2>3 DEF Updated, ApplyDelta
<1> QED BY <1>1, <1>5, <1>6, <1>7

\* What is accepted is from no later than the clock's skew allows.
LEMMA AcceptedInTime ==
  ASSUME NEW s, NEW m \in Payload, NEW t, Accepted(m, t)
  PROVE  InTime(Told(s, m), t)
<1>1. m.kind \in {"state", "delta", "both"}
  BY DEF Payload
<1> QED BY <1>1 DEF Accepted, Told, ToldBy, VerifyState, VerifyDelta, InTime

\* An update, accepted or not, keeps the replicas' invariant.
LEMMA UpdateKeepsReplicas ==
  ASSUME ReplicaInv, NEW p \in Peers, NEW m \in Payload, Update(p, m),
         UNCHANGED clock
  PROVE  ReplicaInv'
<1>1. CASE ~Accepted(m, clock[p])
  BY <1>1 DEF Update, ReplicaInv, LayersAreNewest, InTime
<1>2. CASE Accepted(m, clock[p])
  <2> DEFINE S == heard[p]
             told == Told(state[p], m)
  <2>1. S \in SUBSET Placements /\ state[p] = NewestTile(S) /\ InTime(S, clock[p])
    BY DEF ReplicaInv, LayersAreNewest
  <2>2. /\ state' = [state EXCEPT ![p] = Updated(state[p], m)]
        /\ heard' = [heard EXCEPT ![p] = S \cup told]
    BY <1>2 DEF Update
  <2>3. told \in SUBSET Placements /\ Updated(state[p], m) = NewestTile(S \cup told)
    BY <2>1, UpdatedKeepsLayers
  <2>4. InTime(S \cup told, clock[p])
    BY <1>2, <2>1, AcceptedInTime DEF InTime
  <2>5. NewestTile(S \cup told) \in Tiles /\ S \cup told \in SUBSET Placements
    BY <2>1, <2>3, LayersFacts
  <2> HIDE DEF S, told
  <2>6. /\ state' \in [Peers -> Tiles] /\ heard' \in [Peers -> SUBSET Placements]
        /\ clock' \in [Peers -> 0 .. MaxClock]
    BY <2>2, <2>3, <2>5 DEF ReplicaInv
  <2>7. ASSUME NEW q \in Peers
        PROVE  state'[q] = NewestTile(heard'[q]) /\ InTime(heard'[q], clock'[q])
    <3>1. CASE q = p
      BY <2>2, <2>3, <2>4, <3>1 DEF ReplicaInv
    <3>2. CASE q # p
      <4>1. state'[q] = state[q] /\ heard'[q] = heard[q] /\ clock'[q] = clock[q]
        BY <2>2, <3>2 DEF ReplicaInv
      <4> QED BY <4>1 DEF ReplicaInv, LayersAreNewest
    <3> QED BY <3>1, <3>2
  <2> QED BY <2>6, <2>7 DEF ReplicaInv, LayersAreNewest, InTime
<1> QED BY <1>1, <1>2

\* All that changes a replica or its history is an update.
LEMMA StepsAreUpdates ==
  ASSUME NetInv, [Next]_vars
  PROVE  \/ UNCHANGED <<state, heard, clock>>
         \/ \E p \in Peers : Tick(p)
         \/ UNCHANGED clock /\ \E p \in Peers, m \in Payload : Update(p, m)
<1>2. ASSUME NEW p \in Peers, NEW d \in ClientDeltas, Submit(p, d)
      PROVE  UNCHANGED clock /\ \E m \in Payload : Update(p, m)
  <2>1. EmptyTile \in Reached
    BY EmptyLayers DEF Reached
  <2>2. d \in Seq(Placements)
    <3>1. PICK x \in Placements : d = <<x>>
      BY DEF ClientDeltas
    <3> QED BY <3>1
  <2>3. Delivery(p, p, "delta", EmptyTile, d) \in Payload
    BY <2>1, <2>2 DEF Delivery, Payload
  <2> QED BY <1>2, <2>3 DEF Submit
<1>3. CASE \E p, q \in Peers : Ask(p, q) \/ PushState(p, q) \/ PushBoth(p, q)
  BY <1>3 DEF Ask, PushState, PushBoth, Send
<1>4. ASSUME NEW m \in net, Receive(m)
      PROVE  UNCHANGED clock /\ \E p \in Peers, n \in Payload : Update(p, n)
  <2>1. m \in Payload /\ m.to \in Peers
    BY <1>4 DEF Receive, NetInv, MessageOK, Payload
  <2> QED BY <1>4, <2>1 DEF Receive
<1>5. CASE \E m \in net : Answer(m) \/ Lose(m)
  BY <1>5 DEF Answer, Lose
<1>6. CASE UNCHANGED vars
  BY <1>6 DEF vars
<1> QED BY <1>2, <1>3, <1>4, <1>5, <1>6 DEF Next

\* Time only passes.
LEMMA TickKeepsReplicas ==
  ASSUME ReplicaInv, NEW p \in Peers, Tick(p)
  PROVE  ReplicaInv'
<1>1. /\ clock[p] \in 0 .. MaxClock /\ clock[p] < MaxClock
      /\ clock' = [clock EXCEPT ![p] = clock[p] + 1]
      /\ UNCHANGED <<state, heard>> /\ clock \in [Peers -> 0 .. MaxClock]
  BY DEF Tick, ReplicaInv
<1>2. clock' \in [Peers -> 0 .. MaxClock] /\ clock'[p] = clock[p] + 1
  BY <1>1, BoundAssumption
<1>3. ASSUME NEW q \in Peers PROVE InTime(heard'[q], clock'[q])
  <2>1. CASE q = p
    <3>1. ASSUME NEW x \in heard[p] PROVE x.ts <= clock'[p] + Skew
      <4>1. x \in Placements /\ x.ts <= clock[p] + Skew
        BY DEF ReplicaInv, InTime
      <4>2. x.ts \in 0 .. MaxField
        BY <4>1, PlacementAssumption
      <4> QED BY <1>1, <1>2, <4>1, <4>2, BoundAssumption
    <3> QED BY <1>1, <2>1, <3>1 DEF InTime
  <2>2. CASE q # p
    BY <1>1, <2>2 DEF ReplicaInv, InTime
  <2> QED BY <2>1, <2>2
<1> QED BY <1>1, <1>2, <1>3 DEF ReplicaInv, LayersAreNewest

\* What is in flight are summaries and payloads, no more than there is room for.
LEMMA NetStep == ReplicaInv /\ NetInv /\ [Next]_vars => NetInv'
<1> SUFFICES ASSUME ReplicaInv, NetInv, [Next]_vars PROVE NetInv'
  OBVIOUS
<1>0. /\ \A p \in Peers : \E S \in SUBSET Placements : state[p] = NewestTile(S)
      /\ \A p \in Peers : state[p] \in Reached
      /\ EmptyTile \in Reached /\ <<>> \in Seq(Placements)
      /\ IsFiniteSet(net) /\ Cardinality(net) \in Nat /\ Cardinality(net) <= MaxMsgs
  BY EmptyLayers, FS_CardinalityType DEF ReplicaInv, LayersAreNewest, NetInv, Reached
<1>1. ASSUME NEW p \in Peers, NEW marks PROVE Delta(state[p], marks) \in Seq(Placements)
  BY <1>0, DeltaFacts
<1>2. ASSUME NEW m, MessageOK(m), Send(m) PROVE NetInv'
  <2>1. IsFiniteSet(net \cup {m}) /\ Cardinality(net \cup {m}) <= MaxMsgs
    BY <1>0, <1>2, FS_AddElement, BoundAssumption DEF Send
  <2> QED BY <1>2, <2>1 DEF Send, NetInv
<1>3. ASSUME NEW p \in Peers, NEW q \in Peers \ {p},
             Ask(p, q) \/ PushState(p, q) \/ PushBoth(p, q)
      PROVE  NetInv'
  <2>1. MessageOK(Summary(p, q))
    BY DEF Summary, MessageOK
  <2>2. MessageOK(Delivery(p, q, "state", state[p], <<>>))
    BY <1>0 DEF Delivery, MessageOK, Payload
  <2>3. MessageOK(Delivery(p, q, "both", state[p],
                           Delta(state[p], Summarize(EmptyTile))))
    BY <1>0, <1>1 DEF Delivery, MessageOK, Payload
  <2> QED BY <1>2, <1>3, <2>1, <2>2, <2>3 DEF Ask, PushState, PushBoth
<1>4. ASSUME NEW m \in net, Answer(m) PROVE NetInv'
  <2>1. /\ IsFiniteSet(net \ {m})
        /\ Cardinality(net \ {m}) = Cardinality(net) - 1
    BY <1>0, FS_RemoveElement
  <2> DEFINE d == Delta(state[m.to], m.marks)
             answer == Delivery(m.to, m.from, "delta", EmptyTile, d)
  <2>2. MessageOK(m) /\ m.kind = "summary"
    BY <1>4 DEF NetInv, Answer
  <2>3. m.from \in Peers /\ m.to \in Peers
    BY <2>2 DEF MessageOK, Payload
  <2>4. MessageOK(answer)
    BY <1>0, <1>1, <2>3 DEF Delivery, MessageOK, Payload
  <2>5. net' = net \ {m} \/ net' = (net \ {m}) \cup {answer}
    BY <1>4 DEF Answer
  <2> HIDE DEF answer
  <2>6. IsFiniteSet(net') /\ Cardinality(net') <= Cardinality(net)
        /\ Cardinality(net') \in Nat
    <3>1. CASE net' = net \ {m}
      BY <1>0, <2>1, <3>1, FS_CardinalityType
    <3>2. CASE net' = (net \ {m}) \cup {answer}
      <4>1. /\ IsFiniteSet((net \ {m}) \cup {answer})
            /\ Cardinality((net \ {m}) \cup {answer}) <= Cardinality(net \ {m}) + 1
            /\ Cardinality(net \ {m}) \in Nat
        BY <2>1, FS_AddElement, FS_CardinalityType
      <4> QED BY <1>0, <2>1, <3>2, <4>1, FS_CardinalityType
    <3> QED BY <2>5, <3>1, <3>2
  <2>7. Cardinality(net') <= MaxMsgs
    BY <1>0, <2>6, BoundAssumption
  <2> QED BY <2>4, <2>5, <2>6, <2>7 DEF NetInv
<1>5. ASSUME NEW m \in net, Lose(m) PROVE NetInv'
  <2>1. IsFiniteSet(net \ {m}) /\ Cardinality(net \ {m}) = Cardinality(net) - 1
    BY <1>0, FS_RemoveElement
  <2>2. Cardinality(net \ {m}) <= MaxMsgs
    BY <1>0, <2>1, BoundAssumption
  <2> QED BY <1>5, <2>1, <2>2 DEF Lose, NetInv
<1>6. CASE UNCHANGED net
  BY <1>6 DEF NetInv, MessageOK, Payload, Reached
<1> QED BY <1>3, <1>4, <1>5, <1>6 DEF Next, vars, Tick, Submit, Receive

\* Both hold in every reachable state.
LEMMA NetInvariant == Spec => [](ReplicaInv /\ NetInv)
<1>1. Init => ReplicaInv /\ NetInv
  <2> SUFFICES ASSUME Init PROVE ReplicaInv /\ NetInv
    OBVIOUS
  <2>1. EmptyTile \in Tiles
    BY DEF EmptyTile, Tiles
  <2>2. ReplicaInv
    BY <2>1, EmptyLayers, BoundAssumption DEF Init, ReplicaInv, LayersAreNewest, InTime
  <2>3. NetInv
    BY FS_EmptySet, BoundAssumption DEF Init, NetInv
  <2> QED BY <2>2, <2>3
<1>2. ReplicaInv /\ NetInv /\ [Next]_vars => ReplicaInv'
  <2> SUFFICES ASSUME ReplicaInv, NetInv, [Next]_vars PROVE ReplicaInv'
    OBVIOUS
  <2>1. CASE UNCHANGED <<state, heard, clock>>
    BY <2>1 DEF ReplicaInv, LayersAreNewest, InTime
  <2> QED BY <2>1, StepsAreUpdates, UpdateKeepsReplicas, TickKeepsReplicas
<1> QED BY <1>1, <1>2, NetStep, PTL DEF Spec

\* Whatever the order in which placements, deltas and states arrive, and however
\* often, a replica is a function of the placements it was told: no order of
\* arrival shows (tile.rs, log_insert).
THEOREM LayersAreDetermined == Spec => []LayersAreNewest
<1>1. ReplicaInv => LayersAreNewest
  BY DEF ReplicaInv
<1> QED BY <1>1, NetInvariant, PTL

\* No step takes back what a replica was told.
LEMMA HistoriesGrow ==
  ASSUME ReplicaInv, NetInv, [Next]_vars, NEW p \in Peers
  PROVE  heard[p] \subseteq heard'[p]
<1>1. CASE UNCHANGED heard
  BY <1>1
<1>2. CASE \E q \in Peers, m \in Payload : Update(q, m)
  <2>1. PICK q \in Peers, m \in Payload : Update(q, m)
    BY <1>2
  <2> QED BY <2>1 DEF Update, ReplicaInv
<1> QED BY <1>1, <1>2, StepsAreUpdates DEF Tick

\* The tile replica of every peer implements the abstract one: it starts empty, and each
\* step of the network is for it a step of learning, or none (TileState::merge and
\* apply_delta).
THEOREM ReplicaLearns == peer \in Peers => (Spec => Abstract!Spec)
<1> SUFFICES ASSUME peer \in Peers PROVE Spec => Abstract!Spec
  OBVIOUS
<1>1. Init => Abstract!Init
  BY EmptyLayers DEF Init, Abstract!Init, IsNewestTile
<1>2. ReplicaInv /\ ReplicaInv' /\ NetInv /\ [Next]_vars
        => [Abstract!Learn]_(Abstract!vars)
  <2> SUFFICES ASSUME ReplicaInv, ReplicaInv', NetInv, [Next]_vars
               PROVE  Abstract!Learn \/ UNCHANGED <<state[peer], heard[peer]>>
    BY DEF Abstract!vars
  <2>1. heard[peer] \subseteq heard'[peer] /\ heard'[peer] \in SUBSET Placements
    BY HistoriesGrow DEF ReplicaInv
  <2>2. IsNewestTile(state'[peer], heard'[peer])
    BY DEF ReplicaInv, LayersAreNewest, IsNewestTile
  <2> QED BY <2>1, <2>2 DEF Abstract!Learn
<1> QED BY <1>1, <1>2, NetInvariant, PTL DEF Spec, Abstract!Spec

\* What a log keeps of many placements, it keeps of the part it is in.
LEMMA TopHeritage ==
  ASSUME NEW T \in SUBSET Placements, NEW S \in SUBSET T, NEW x \in S, NEW c \in Nat,
         x \in Top(T, c)
  PROVE  x \in Top(S, c)
<1>1. /\ Cardinality(NewerKeys(x, S)) <= Cardinality(NewerKeys(x, T))
      /\ Cardinality(NewerKeys(x, S)) \in Nat /\ Cardinality(NewerKeys(x, T)) \in Nat
  BY KeysMonotone, KeysFinite
<1> QED BY <1>1 DEF Top, Winners

\* A placement that a replica has dropped, for the caps or for a larger signature, does not
\* come back, and one that was baked does not become live again, whatever stale states and
\* deltas still bring it.  (tile.rs: log_insert, and the bake of what it displaces.)
EvictionIsForGood ==
  [][\A p \in Peers : \A x \in heard[p] :
       /\ x \in state'[p].live => x \in state[p].live
       /\ x \in Entries(state'[p]) => x \in Entries(state[p])]_vars

THEOREM EvictedPlacementsStayAway == Spec => EvictionIsForGood
<1>1. ReplicaInv /\ ReplicaInv' /\ NetInv /\ [Next]_vars
        => \A p \in Peers : \A x \in heard[p] :
             /\ x \in state'[p].live => x \in state[p].live
             /\ x \in Entries(state'[p]) => x \in Entries(state[p])
  <2> SUFFICES ASSUME ReplicaInv, ReplicaInv', NetInv, [Next]_vars,
                      NEW p \in Peers, NEW x \in heard[p]
               PROVE  /\ x \in state'[p].live => x \in state[p].live
                      /\ x \in Entries(state'[p]) => x \in Entries(state[p])
    OBVIOUS
  <2>1. /\ heard[p] \subseteq heard'[p] /\ heard'[p] \in SUBSET Placements
        /\ state[p] = NewestTile(heard[p]) /\ state'[p] = NewestTile(heard'[p])
    BY HistoriesGrow DEF ReplicaInv, LayersAreNewest
  <2>2. LogCap \in Nat /\ LogCap + BakedCap \in Nat
    BY CapAssumption
  <2>3. \A c \in Nat : x \in Top(heard'[p], c) => x \in Top(heard[p], c)
    BY <2>1, TopHeritage
  <2>4. heard[p] \in SUBSET Placements
    BY DEF ReplicaInv
  <2> QED BY <2>1, <2>2, <2>3, <2>4, LayersFacts
<1> QED BY <1>1, NetInvariant, PTL DEF Spec, EvictionIsForGood

-----------------------------------------------------------------------------
\* Above every baked entry the author's live log is full of newer entries.
LEMMA OldEntriesBelowFull ==
  ASSUME NEW S \in SUBSET Placements, NEW x \in NewestTile(S).baked
  PROVE  LET live == {y.ts : y \in {z \in NewestTile(S).live : z.author = x.author}}
         IN  Cardinality(live) = LogCap /\ \A t \in live : t > x.ts
<1> DEFINE L == NewestTile(S).live
           live == {y.ts : y \in {z \in L : z.author = x.author}}
<1>0. LogCap \in Nat /\ L = Top(S, LogCap)
  BY LayersFacts, CapAssumption
<1>1. /\ x \in Placements /\ Cardinality(NewerKeys(x, S)) \in Nat
      /\ Cardinality(NewerKeys(x, S)) >= LogCap
      /\ Cardinality(NewerKeys(x, L)) = LogCap
  BY FullAboveBaked, KeysFinite
<1> HIDE DEF L
<1>2. ASSUME NEW y \in L, y.author = x.author PROVE y.ts > x.ts
  <2>1. /\ y \in Placements /\ Cardinality(NewerKeys(y, S)) \in Nat
        /\ Cardinality(NewerKeys(y, S)) < LogCap
    BY <1>0, KeysFinite DEF Top, Winners
  <2>2. SUFFICES ASSUME y.ts <= x.ts PROVE FALSE
    BY <1>1, <2>1, PlacementAssumption
  <2>3. Cardinality(NewerKeys(x, S)) <= Cardinality(NewerKeys(y, S))
    BY <1>1, <1>2, <2>1, <2>2, KeysOfNewer
  <2> QED BY <1>0, <1>1, <2>1, <2>3
<1>3. live = NewerKeys(x, L)
  BY <1>2 DEF NewerKeys
<1>4. Cardinality(live) = LogCap /\ \A t \in live : t > x.ts
  BY <1>1, <1>2, <1>3
<1> QED BY <1>4 DEF L

\* Baked entries are older than a full live log on every replica, whatever reached
\* it, as the watermarks of summarize assume.
THEOREM BakedStayOlder == Spec => []BakedAreOlder
<1>1. ReplicaInv => BakedAreOlder
  <2> SUFFICES ASSUME ReplicaInv, NEW p \in Peers, NEW x \in state[p].baked
               PROVE  LET live == {y.ts : y \in {z \in state[p].live : z.author = x.author}}
                      IN  Cardinality(live) = LogCap /\ \A t \in live : t > x.ts
    BY DEF BakedAreOlder
  <2>1. heard[p] \in SUBSET Placements /\ state[p] = NewestTile(heard[p])
    BY DEF ReplicaInv, LayersAreNewest
  <2> QED BY <2>1, OldEntriesBelowFull
<1> QED BY <1>1, NetInvariant, PTL

\* A log that keeps c entries of every author has no more.
LEMMA LogBound ==
  ASSUME NEW S \in SUBSET Placements, NEW c \in Nat, NEW a
  PROVE  Cardinality({x \in Top(S, c) : x.author = a}) <= c
<1> DEFINE Q == {x \in Top(S, c) : x.author = a}
           K == {x.ts : x \in Q}
<1>0. Q \in SUBSET Placements /\ Q \subseteq Winners(S) /\ IsFiniteSet(Q)
  <2>1. Q \in SUBSET Placements /\ Q \subseteq Winners(S)
    BY DEF Top, Winners
  <2> QED BY <2>1, PlacementAssumption, FS_Subset
<1>1. CASE Q = {}
  BY <1>1, FS_EmptySet
<1>2. CASE Q # {}
  <2>1. K \in SUBSET Nat /\ K # {}
    <3>1. \A x \in Q : x.ts \in 0 .. MaxField
      BY <1>0, PlacementAssumption
    <3> QED BY <1>2, <3>1
  <2>2. PICK t \in K : \A k \in K : t <= k
    BY <2>1, I!Least
  <2>3. PICK x \in Q : x.ts = t
    OBVIOUS
  <2> DEFINE W == Q \ {x}
             N == NewerKeys(x, S)
             f == [y \in W |-> y.ts]
  <2>4. ASSUME NEW y \in W PROVE y.ts \in N
    <3>1. ~SameSlot(x, y) /\ x.author = y.author /\ y \in S
      BY <1>0, WinnersAreAlone DEF OneOfASlot, Winners
    <3>2. y.ts \in K /\ y.ts \in Nat /\ t \in Nat /\ y.ts # t
      BY <2>1, <2>3, <3>1 DEF SameSlot
    <3>3. y.ts > x.ts
      BY <2>2, <2>3, <3>2
    <3> QED BY <3>1, <3>3 DEF NewerKeys
  <2>5. \A y, z \in W : y.ts = z.ts => y = z
    BY <1>0, WinnersAreAlone DEF OneOfASlot, SameSlot
  <2>6. f \in Injection(W, N)
    BY <2>4, <2>5 DEF Injection, IsInjective
  <2>7. IsFiniteSet(N) /\ Cardinality(N) \in Nat /\ Cardinality(N) < c
    <3>1. Cardinality(N) < c
      BY DEF Top
    <3> QED BY <3>1, KeysFinite
  <2>8. Cardinality(W) <= Cardinality(N)
    <3> HIDE DEF W, N, f
    <3> QED BY <2>6, <2>7, FS_Injection
  <2>9. Cardinality(W) = Cardinality(Q) - 1 /\ Cardinality(Q) \in Nat
    BY <1>0, FS_RemoveElement, FS_CardinalityType
  <2> QED BY <2>7, <2>8, <2>9
<1> QED BY <1>1, <1>2

\* The types of the replicas; and validate_state accepts whatever update_state
\* makes: the caps are kept, and no entry is from beyond the clock's skew.
THEOREM TypeCorrect == Spec => []TypeOK
<1>1. ReplicaInv /\ NetInv => TypeOK
  <2> SUFFICES ASSUME ReplicaInv, NetInv PROVE TypeOK
    OBVIOUS
  <2>1. ASSUME NEW p \in Peers, NEW r \in {<<>>, <<Authors>>}
        PROVE  ValidateState(state[p], r, clock[p])
    <3> DEFINE S == heard[p]
    <3>1. S \in SUBSET Placements /\ state[p] = NewestTile(S) /\ InTime(S, clock[p])
      BY DEF ReplicaInv, LayersAreNewest
    <3>2. Entries(state[p]) \in SUBSET Placements /\ InTime(Entries(state[p]), clock[p])
      BY <3>1, LayersFacts DEF InTime
    <3>3. ASSUME NEW a \in Authors
          PROVE  /\ Cardinality({x \in state[p].live : x.author = a}) <= LogCap
                 /\ Cardinality({x \in state[p].baked : x.author = a}) <= BakedCap
      <4>1. state[p].live = Top(S, LogCap) /\ state[p].baked = Top(Rest(S), BakedCap)
        BY <3>1, LayersSplit
      <4>2. Rest(S) \in SUBSET Placements /\ LogCap \in Nat /\ BakedCap \in Nat
        BY <3>1, CapAssumption DEF Rest, Winners
      <4> QED BY <3>1, <4>1, <4>2, LogBound
    <3>4. VerifyStructure(state[p], clock[p])
      BY <3>2, <3>3 DEF VerifyStructure
    <3>5. r = <<>> \/ \A x \in Entries(state[p]) : x.author \in r[1]
      BY <3>2, PlacementAssumption
    <3> QED BY <3>4, <3>5 DEF ValidateState
  <2>2. /\ DOMAIN state = Peers /\ DOMAIN heard = Peers
        /\ \A p \in Peers : /\ heard[p] \subseteq Placements
                             /\ state[p] \in Tiles
    BY DEF ReplicaInv
  <2> QED BY <2>1, <2>2 DEF TypeOK, ReplicaInv, NetInv, Tiles
<1> QED BY <1>1, NetInvariant, PTL

-----------------------------------------------------------------------------
\* A replica's layers are those of what it still holds.
LEMMA HeldSuffices ==
  ASSUME NEW S \in SUBSET Placements
  PROVE  NewestTile(Entries(NewestTile(S))) = NewestTile(S)
<1> DEFINE c == LogCap + BakedCap
           H == Entries(NewestTile(S))
<1>1. H = Top(S, c) /\ H \in SUBSET Placements
  BY LayersFacts
<1>2. Top(H, c) = Top(S, c)
  <2>1. Top(S, c) \cup {} = Top(S, c) /\ S \cup {} = S /\ c \in Nat
    BY CapAssumption
  <2>2. Top(Top(S, c) \cup {}, c) = Top(S \cup {}, c)
    BY <2>1, TopAbsorbs
  <2> QED BY <1>1, <2>1, <2>2
<1>3. Newest(Winners(H), c) = Newest(Winners(S), c)
  BY <1>1, <1>2, NewestIsTop
<1> HIDE DEF H
<1> QED BY <1>3 DEF NewestTile, H

\* One delta rebuilds a replica, both layers, on a peer that has nothing.
THEOREM FreshPeersCatchUp == Spec => []FreshPeerCatchesUp
<1>1. ReplicaInv => FreshPeerCatchesUp
  <2> SUFFICES ASSUME ReplicaInv, NEW p \in Peers
               PROVE  ApplyDelta(EmptyTile, Delta(state[p], Summarize(EmptyTile)))
                        = state[p]
    BY DEF FreshPeerCatchesUp
  <2> DEFINE S == heard[p]
             live == state[p].live
             baked == state[p].baked
             marks == Summarize(EmptyTile)
             delta == InOrder(live) \o InOrder(baked)
  <2>1. S \in SUBSET Placements /\ state[p] = NewestTile(S)
    BY DEF ReplicaInv, LayersAreNewest
  <2>2. /\ live \in SUBSET Placements /\ baked \in SUBSET Placements
        /\ OneOfASlot(live) /\ OneOfASlot(baked)
        /\ Entries(state[p]) = live \cup baked
    BY <2>1, LayersFacts DEF Tiles, Entries
  <2>3. DOMAIN marks = {}
    BY DEF Summarize, EmptyTile, Entries
  <2>4. Delta(state[p], marks) = delta
    <3>1. /\ {x \in live : x.author \in DOMAIN marks => x.ts > marks[x.author]} = live
          /\ {x \in baked : x.author \in DOMAIN marks => x.ts > marks[x.author]} = baked
      BY <2>3
    <3> HIDE DEF marks
    <3> QED BY <3>1 DEF Delta
  <2>5. /\ InOrder(live) \in Seq(Placements) /\ ToSet(InOrder(live)) = live
        /\ InOrder(baked) \in Seq(Placements) /\ ToSet(InOrder(baked)) = baked
    BY <2>2, InOrderFacts
  <2>6. delta \in Seq(Placements) /\ ToSet(delta) = Entries(state[p])
    BY <2>2, <2>5, ToSetOfBoth
  <2> HIDE DEF delta, marks
  <2>7. FoldLeft(Insert, NewestTile({}), delta) = NewestTile({} \cup ToSet(delta))
    BY <2>6, InsertAll
  <2>8. {} \cup ToSet(delta) = Entries(NewestTile(S))
    BY <2>1, <2>6
  <2>9. FoldLeft(Insert, EmptyTile, delta) = state[p]
    BY <2>1, <2>7, <2>8, EmptyLayers, HeldSuffices
  <2> QED BY <2>4, <2>9 DEF ApplyDelta, marks
<1> QED BY <1>1, NetInvariant, PTL

-----------------------------------------------------------------------------
\* The merge of two replicas is what a replica holds that was told what either was, though
\* neither hands on what its caps dropped.
LEMMA MergeJoinsHistories ==
  ASSUME NEW S \in SUBSET Placements, NEW T \in SUBSET Placements
  PROVE  Merge(NewestTile(S), NewestTile(T)) = NewestTile(S \cup T)
<1> DEFINE c == LogCap + BakedCap
           H == Entries(NewestTile(T))
<1>1. H = Top(T, c) /\ H \in SUBSET Placements /\ c \in Nat
  BY LayersFacts, CapAssumption
<1>2. Top(S \cup H, c) = Top(S \cup T, c)
  <2>1. Top(Top(T, c) \cup S, c) = Top(T \cup S, c)
    BY <1>1, TopAbsorbs
  <2>2. S \cup H = Top(T, c) \cup S /\ S \cup T = T \cup S
    BY <1>1
  <2> HIDE DEF H, c
  <2> QED BY <2>1, <2>2
<1>3. ASSUME NEW R \in SUBSET Placements PROVE NewestTile(R) = NewestTile(Top(R, c))
  BY <1>3, HeldSuffices, LayersFacts
<1>4. S \cup H \in SUBSET Placements /\ S \cup T \in SUBSET Placements
  BY <1>1
<1>5. Merge(NewestTile(S), NewestTile(T)) = NewestTile(S \cup H)
  BY MergeKeepsLayers
<1> HIDE DEF H, c
<1> QED BY <1>2, <1>3, <1>4, <1>5

\* Merges of tiles are joins: of two replicas' histories, and so it does not matter which
\* peer merges, in what order, or how often, whatever moved to the baked layers or was
\* dropped on the way.  (tile-contract, tests: peers converge "regardless of update
\* order".)
MergesAreJoins ==
  \A p, q, r \in Peers :
    /\ Merge(state[p], state[q]) = NewestTile(heard[p] \cup heard[q])
    /\ Merge(state[p], state[q]) = Merge(state[q], state[p])
    /\ Merge(state[p], Merge(state[q], state[r])) = Merge(Merge(state[p], state[q]), state[r])
    /\ Merge(state[p], state[p]) = state[p]

THEOREM TilesFormASemilattice == Spec => []MergesAreJoins
<1>1. ASSUME NEW S \in SUBSET Placements, NEW T \in SUBSET Placements,
             NEW U \in SUBSET Placements
      PROVE  /\ Merge(NewestTile(S), NewestTile(T)) = NewestTile(S \cup T)
             /\ Merge(NewestTile(S), NewestTile(T)) = Merge(NewestTile(T), NewestTile(S))
             /\ Merge(NewestTile(S), Merge(NewestTile(T), NewestTile(U)))
                  = Merge(Merge(NewestTile(S), NewestTile(T)), NewestTile(U))
             /\ Merge(NewestTile(S), NewestTile(S)) = NewestTile(S)
  <2>1. /\ S \cup T = T \cup S /\ S \cup S = S /\ S \cup (T \cup U) = (S \cup T) \cup U
        /\ S \cup T \in SUBSET Placements /\ T \cup U \in SUBSET Placements
    OBVIOUS
  <2>2. /\ Merge(NewestTile(S), NewestTile(T)) = NewestTile(S \cup T) /\ Merge(NewestTile(T), NewestTile(S)) = NewestTile(T \cup S)
        /\ Merge(NewestTile(S), NewestTile(S)) = NewestTile(S \cup S) /\ Merge(NewestTile(T), NewestTile(U)) = NewestTile(T \cup U)
    BY MergeJoinsHistories
  <2>3. /\ Merge(NewestTile(S), NewestTile(T \cup U)) = NewestTile(S \cup (T \cup U))
        /\ Merge(NewestTile(S \cup T), NewestTile(U)) = NewestTile((S \cup T) \cup U)
    BY <2>1, MergeJoinsHistories
  <2> QED BY <2>1, <2>2, <2>3
<1>2. ReplicaInv => MergesAreJoins
  <2> SUFFICES ASSUME ReplicaInv, NEW p \in Peers, NEW q \in Peers, NEW r \in Peers
               PROVE  /\ Merge(state[p], state[q]) = NewestTile(heard[p] \cup heard[q])
                      /\ Merge(state[p], state[q]) = Merge(state[q], state[p])
                      /\ Merge(state[p], Merge(state[q], state[r]))
                           = Merge(Merge(state[p], state[q]), state[r])
                      /\ Merge(state[p], state[p]) = state[p]
    BY DEF MergesAreJoins
  <2>1. /\ heard[p] \in SUBSET Placements /\ heard[q] \in SUBSET Placements
        /\ heard[r] \in SUBSET Placements
        /\ state[p] = NewestTile(heard[p]) /\ state[q] = NewestTile(heard[q]) /\ state[r] = NewestTile(heard[r])
    BY DEF ReplicaInv, LayersAreNewest
  <2> QED BY <1>1, <2>1
<1> QED BY <1>2, NetInvariant, PTL

-----------------------------------------------------------------------------
\* A summary covers the histories S: it has the newest timestamp of every author in S,
\* and nothing else.
Covers(marks, S) ==
  /\ DOMAIN marks = {x.author : x \in S}
  /\ \A a \in DOMAIN marks :
       /\ \E x \in S : x.author = a /\ x.ts = marks[a]
       /\ \A x \in S : x.author = a => x.ts <= marks[a]

\* Above the newest timestamp of an author there is none to drop it.
LEMMA NewestStaysInTop ==
  ASSUME NEW S \in SUBSET Placements, NEW x \in S,
         \A y \in S : y.author = x.author => y.ts <= x.ts
  PROVE  \E w \in Entries(NewestTile(S)) : SameSlot(w, x)
<1> DEFINE c == LogCap + BakedCap
<1>1. PICK w \in Winners(S) : SameSlot(w, x)
  BY WinnerExists
<1>2. NewerKeys(w, S) = {}
  <2>1. ASSUME NEW y \in S, y.author = w.author, y.ts > w.ts PROVE FALSE
    <3>1. x \in Placements /\ y \in Placements /\ w.ts = x.ts /\ y.author = x.author
      BY <1>1, <2>1 DEF SameSlot
    <3> QED BY <2>1, <3>1, PlacementAssumption, CapAssumption
  <2> QED BY <2>1 DEF NewerKeys
<1>3. Cardinality(NewerKeys(w, S)) < c
  BY <1>2, FS_EmptySet, CapAssumption
<1>4. w \in Entries(NewestTile(S))
  BY <1>1, <1>3, LayersFacts DEF Top
<1> QED BY <1>1, <1>4

\* A replica holds the newest slot of every author it was told of.
LEMMA SummaryHolds ==
  ASSUME NEW S \in SUBSET Placements, NEW z \in S
  PROVE  \E w \in Entries(NewestTile(S)) :
           /\ w.author = z.author
           /\ \A y \in S : y.author = z.author => y.ts <= w.ts
<1> DEFINE T == {x.ts : x \in {y \in S : y.author = z.author}}
<1>1. T \in SUBSET (0 .. MaxField) /\ T # {}
  BY PlacementAssumption
<1>2. PICK n \in T : \A m \in T : m <= n
  <2> HIDE DEF T
  <2> QED BY <1>1, CapAssumption, Greatest
<1>3. PICK x \in S : x.author = z.author /\ x.ts = n
  OBVIOUS
<1>4. \A y \in S : y.author = x.author => y.ts <= x.ts
  BY <1>2, <1>3
<1>5. PICK w \in Entries(NewestTile(S)) : SameSlot(w, x)
  BY <1>4, NewestStaysInTop
<1> QED BY <1>3, <1>4, <1>5 DEF SameSlot

\* Whatever the caps dropped, a replica's summary is that of all it was told.
LEMMA SummaryCovers ==
  ASSUME NEW S \in SUBSET Placements
  PROVE  Covers(Summarize(NewestTile(S)), S)
<1> DEFINE H == Entries(NewestTile(S))
           marks == Summarize(NewestTile(S))
           Times(T, a) == {x.ts : x \in {y \in T : y.author = a}}
<1>1. H \in SUBSET S /\ H \in SUBSET Placements
  BY LayersFacts
<1>2. ASSUME NEW z \in S
      PROVE  \E w \in H : w.author = z.author /\ \A y \in S : y.author = z.author => y.ts <= w.ts
  BY SummaryHolds
<1> HIDE DEF H
<1>3. DOMAIN marks = {x.author : x \in S}
  <2>1. DOMAIN marks = {x.author : x \in H}
    BY DEF Summarize, H
  <2> QED BY <1>1, <1>2, <2>1
<1>4. ASSUME NEW a \in DOMAIN marks
      PROVE  /\ \E x \in S : x.author = a /\ x.ts = marks[a]
             /\ \A x \in S : x.author = a => x.ts <= marks[a]
  <2>1. PICK w \in H : w.author = a /\ \A y \in S : y.author = a => y.ts <= w.ts
    BY <1>2, <1>3
  <2>2. marks[a] = Max(Times(H, a))
    <3>1. a \in {x.author : x \in H}
      BY <2>1
    <3> QED BY <3>1 DEF Summarize, H
  <2>3. w.ts \in Times(H, a) /\ \A n \in Times(H, a) : n <= w.ts
    BY <1>1, <2>1
  <2>4. Times(H, a) \subseteq 0 .. MaxField
    BY <1>1, PlacementAssumption
  <2> HIDE DEF Times
  <2>5. Max(Times(H, a)) = w.ts
    BY <2>3, <2>4, CapAssumption DEF Max
  <2> HIDE DEF marks
  <2> QED BY <1>1, <2>1, <2>2, <2>5
<1> QED BY <1>3, <1>4 DEF Covers

\* One summary covers a history.
LEMMA OneSummary ==
  ASSUME NEW S \in SUBSET Placements, NEW T \in SUBSET Placements,
         Covers(Summarize(NewestTile(S)), T)
  PROVE  Summarize(NewestTile(S)) = Summarize(NewestTile(T))
<1> DEFINE m == Summarize(NewestTile(S))
           n == Summarize(NewestTile(T))
<1>1. /\ m = [a \in DOMAIN m |-> m[a]] /\ n = [a \in DOMAIN n |-> n[a]]
      /\ Covers(m, T) /\ Covers(n, T)
  BY SummaryCovers DEF Summarize
<1> HIDE DEF m, n
<1>2. DOMAIN m = DOMAIN n
  BY <1>1 DEF Covers
<1>3. ASSUME NEW a \in DOMAIN m PROVE m[a] = n[a]
  <2>1. PICK x \in T : x.author = a /\ x.ts = m[a]
    BY <1>1 DEF Covers
  <2>2. PICK y \in T : y.author = a /\ y.ts = n[a]
    BY <1>1, <1>2 DEF Covers
  <2>3. x.ts <= n[a] /\ y.ts <= m[a]
    BY <1>1, <1>2, <2>1, <2>2 DEF Covers
  <2> QED BY <2>1, <2>2, <2>3, PlacementAssumption, CapAssumption
<1>4. m = n
  BY <1>1, <1>2, <1>3
<1> QED BY <1>4 DEF m, n

\* A replica that has applied what another has for its summary.
Answered(tile, other) == ApplyDelta(tile, Delta(other, Summarize(tile)))

\* What is left out of a delta is no newer than what the summary covers.
LEMMA AnswerTells ==
  ASSUME NEW S \in SUBSET Placements, NEW T \in SUBSET Placements
  PROVE  /\ Summarize(Answered(NewestTile(S), NewestTile(T)))
               = Summarize(NewestTile(S \cup T))
         /\ Delta(NewestTile(T), Summarize(NewestTile(S \cup T))) = <<>>
<1> DEFINE H == Entries(NewestTile(T))
           marks == Summarize(NewestTile(S))
           delta == Delta(NewestTile(T), marks)
           all == Summarize(NewestTile(S \cup T))
           M == {x \in H : x.author \in DOMAIN marks => x.ts > marks[x.author]}
<1>0. H \in SUBSET T /\ H \in SUBSET Placements
  BY LayersFacts
<1>1. Covers(marks, S) /\ Covers(all, S \cup T)
  BY SummaryCovers
<1>2. delta \in Seq(Placements) /\ ToSet(delta) = M /\ M \in SUBSET T
  BY <1>0, DeltaFacts
<1>3. Answered(NewestTile(S), NewestTile(T)) = NewestTile(S \cup M)
  BY <1>2, InsertAll DEF Answered, ApplyDelta
<1>4. ASSUME NEW x \in T
      PROVE  \E y \in S \cup M : y.author = x.author /\ x.ts <= y.ts
  <2>1. PICK y \in H : y.author = x.author /\ x.ts <= y.ts
    BY <1>0, SummaryHolds
  <2>2. CASE y \in M
    BY <2>1, <2>2
  <2>3. CASE y \notin M
    <3>1. y.author \in DOMAIN marks /\ ~(y.ts > marks[y.author])
      BY <2>3
    <3>2. PICK z \in S : z.author = y.author /\ z.ts = marks[y.author]
      BY <1>1, <3>1 DEF Covers
    <3> QED BY <1>0, <2>1, <3>1, <3>2, PlacementAssumption, CapAssumption
  <2> QED BY <2>2, <2>3
<1> HIDE DEF M, all
<1>5. Covers(all, S \cup M)
  <2>1. DOMAIN all = {x.author : x \in S \cup M}
    BY <1>1, <1>2, <1>4 DEF Covers
  <2>2. ASSUME NEW a \in DOMAIN all
        PROVE  /\ \E x \in S \cup M : x.author = a /\ x.ts = all[a]
               /\ \A x \in S \cup M : x.author = a => x.ts <= all[a]
    <3>1. PICK x \in S \cup T : x.author = a /\ x.ts = all[a]
      BY <1>1 DEF Covers
    <3>2. \A y \in S \cup M : y.author = a => y.ts <= all[a]
      BY <1>1, <1>2 DEF Covers
    <3>3. PICK y \in S \cup M : y.author = a /\ x.ts <= y.ts
      BY <1>4, <3>1, PlacementAssumption, CapAssumption
    <3>4. y.ts = all[a]
      BY <1>2, <3>1, <3>2, <3>3, PlacementAssumption, CapAssumption
    <3> QED BY <3>2, <3>3, <3>4
  <2> QED BY <2>1, <2>2 DEF Covers
<1>6. Summarize(NewestTile(S \cup T)) = Summarize(NewestTile(S \cup M))
  <2>1. S \cup T \in SUBSET Placements /\ S \cup M \in SUBSET Placements
    BY <1>2
  <2> QED BY <1>5, <2>1, OneSummary DEF all
<1>7. Delta(NewestTile(T), all) = <<>>
  <2>1. ASSUME NEW x \in H PROVE x.author \in DOMAIN all /\ ~(x.ts > all[x.author])
    <3>1. x \in S \cup T /\ x.author \in DOMAIN all
      BY <1>0, <1>1 DEF Covers
    <3>2. x.ts <= all[x.author] /\ \E y \in S \cup T : y.ts = all[x.author]
      BY <1>1, <3>1 DEF Covers
    <3> QED BY <3>1, <3>2, PlacementAssumption, CapAssumption
  <2> DEFINE none == Delta(NewestTile(T), all)
  <2>2. none \in Seq(Placements) /\ ToSet(none) = {}
    BY <2>1, DeltaFacts
  <2> HIDE DEF none
  <2>3. Len(none) \in Nat /\ ~(1 \in DOMAIN none)
    BY <2>2 DEF ToSet
  <2>4. none = <<>>
    BY <2>2, <2>3
  <2> QED BY <2>4 DEF none
<1> QED BY <1>3, <1>6, <1>7 DEF all

\* One answer settles: a replica that has applied what another had for its summary is one
\* for which the other has nothing more, although what the summary covers may be missing
\* below it; and to go by the summaries it was told as much as by the whole state.
\* (TileState::delta: "None means converged".)
AnswersSettle ==
  \A p, q \in Peers :
    LET answered == Answered(state[p], state[q])
    IN  /\ Delta(state[q], Summarize(answered)) = <<>>
        /\ Summarize(answered) = Summarize(Merge(state[p], state[q]))

THEOREM OneAnswerSettles == Spec => []AnswersSettle
<1>1. ReplicaInv => AnswersSettle
  <2> SUFFICES ASSUME ReplicaInv, NEW p \in Peers, NEW q \in Peers
               PROVE  LET answered == Answered(state[p], state[q])
                      IN  /\ Delta(state[q], Summarize(answered)) = <<>>
                          /\ Summarize(answered) = Summarize(Merge(state[p], state[q]))
    BY DEF AnswersSettle
  <2>1. /\ heard[p] \in SUBSET Placements /\ heard[q] \in SUBSET Placements
        /\ state[p] = NewestTile(heard[p]) /\ state[q] = NewestTile(heard[q])
    BY DEF ReplicaInv, LayersAreNewest
  <2> DEFINE S == heard[p]
             T == heard[q]
             answered == Answered(state[p], state[q])
  <2>2. /\ Summarize(answered) = Summarize(NewestTile(S \cup T))
        /\ Delta(NewestTile(T), Summarize(NewestTile(S \cup T))) = <<>>
    BY <2>1, AnswerTells
  <2>3. Merge(state[p], state[q]) = NewestTile(S \cup T)
    BY <2>1, MergeJoinsHistories
  <2> HIDE DEF answered
  <2>4. /\ Delta(state[q], Summarize(answered)) = <<>>
        /\ Summarize(answered) = Summarize(Merge(state[p], state[q]))
    BY <2>1, <2>2, <2>3
  <2> QED BY <2>4 DEF answered
<1> QED BY <1>1, NetInvariant, PTL

-----------------------------------------------------------------------------
\* What the cooldown filter goes through.
LEMMA AcceptSteps ==
  ASSUME NEW seq \in Seq(Placements)
  PROVE  \E c \in [0 .. Len(seq) -> Seq(Placements)] :
           /\ c[0] = <<>> /\ c[Len(seq)] = FoldLeft(Accept, <<>>, seq)
           /\ \A k \in 1 .. Len(seq) : c[k] = Accept(c[k - 1], seq[k])
<1>1. C!Closed /\ <<>> \in Seq(Placements)
  BY DEF C!Closed, Accept
<1> QED BY <1>1, C!FoldLeftSteps
        DEF FoldLeft, C!FoldLeft, MapThenFoldSet, C!MapThenFoldSet, Max, C!Max

\* A chain and what it has of the first k entries: every one that is far enough from
\* those taken before it.
Greedy(c, seq, k, cd) ==
  /\ ToSet(c) \subseteq {seq[i] : i \in 1 .. k}
  /\ c # <<>> => /\ Last(c) \in ToSet(c)
                 /\ \A y \in ToSet(c) : y.ts <= Last(c).ts
  /\ \A i \in 1 .. k : seq[i] \in ToSet(c) <=>
       \A y \in ToSet(c) : y.ts < seq[i].ts => seq[i].ts >= y.ts + cd

\* The chain after the next entry.
LEMMA NextInChain ==
  ASSUME NEW seq \in Seq(Placements), NEW k \in 1 .. Len(seq), NEW c \in Seq(Placements),
         NEW a \in DOMAIN Cooldown, seq[k].author = a,
         \A i \in 1 .. (k - 1) : seq[i].ts < seq[k].ts,
         Greedy(c, seq, k - 1, Cooldown[a])
  PROVE  Greedy(Accept(c, seq[k]), seq, k, Cooldown[a])
<1> DEFINE x == seq[k]
           cd == Cooldown[a]
           V == ToSet(c)
<1>0. /\ x \in Placements /\ cd \in Nat /\ x.ts \in Nat
      /\ \A i \in 1 .. (k - 1) : seq[i] \in Placements /\ seq[i].ts \in Nat
      /\ 1 .. k = (1 .. (k - 1)) \cup {k}
  <2>1. x \in Placements /\ \A i \in 1 .. (k - 1) : seq[i] \in Placements
    OBVIOUS
  <2>2. \A y \in Placements : y.ts \in Nat
    <3>1. \A y \in Placements : y.ts \in 0 .. MaxField
      BY PlacementAssumption
    <3> QED BY <3>1
  <2> QED BY <2>1, <2>2, CooldownAssumption
<1>1. /\ \A y \in V : y.ts < x.ts /\ y.ts \in Nat /\ y \in {seq[i] : i \in 1 .. (k - 1)}
      /\ x \notin V
  <2>1. ASSUME NEW y \in V
        PROVE  y.ts < x.ts /\ y.ts \in Nat /\ y \in {seq[i] : i \in 1 .. (k - 1)}
    BY <1>0 DEF Greedy
  <2> QED BY <1>0, <2>1
<1>2. c = <<>> => V = {}
  BY DEF ToSet
<1>3. CASE c = <<>> \/ x.ts >= Last(c).ts + cd
  <2>1. Accept(c, x) = Append(c, x)
    BY <1>3 DEF Accept
  <2>2. ToSet(Append(c, x)) = V \cup {x} /\ Last(Append(c, x)) = x
    <3>1. \A i \in 1 .. Len(c) : Append(c, x)[i] = c[i]
      OBVIOUS
    <3>2. Append(c, x)[Len(c) + 1] = x /\ Len(Append(c, x)) = Len(c) + 1
      OBVIOUS
    <3>3. 1 .. (Len(c) + 1) = (1 .. Len(c)) \cup {Len(c) + 1}
      OBVIOUS
    <3> QED BY <3>1, <3>2, <3>3 DEF ToSet, Last
  <2>3. \A y \in V : x.ts >= y.ts + cd
    <3>1. CASE c = <<>>
      BY <1>2, <3>1
    <3>2. CASE c # <<>>
      BY <1>0, <1>1, <1>3, <3>2 DEF Greedy
    <3> QED BY <3>1, <3>2
  <2>4. V \cup {x} \subseteq {seq[i] : i \in 1 .. k}
    BY <1>0, <1>1
  <2>5. \A y \in V \cup {x} : y.ts <= x.ts
    BY <1>0, <1>1
  <2>6. ASSUME NEW i \in 1 .. (k - 1)
        PROVE  seq[i] \in V \cup {x} <=>
                 \A y \in V \cup {x} : y.ts < seq[i].ts => seq[i].ts >= y.ts + cd
    <3>1. seq[i].ts < x.ts /\ seq[i].ts \in Nat /\ seq[i] # x
      BY <1>0
    <3>2. seq[i] \in V <=> \A y \in V : y.ts < seq[i].ts => seq[i].ts >= y.ts + cd
      BY DEF Greedy
    <3> QED BY <1>0, <3>1, <3>2
  <2>7. \A y \in V \cup {x} : y.ts < x.ts => x.ts >= y.ts + cd
    BY <1>0, <2>3
  <2> HIDE DEF V, cd
  <2>8. ASSUME NEW i \in 1 .. k
        PROVE  seq[i] \in V \cup {x} <=>
                 \A y \in V \cup {x} : y.ts < seq[i].ts => seq[i].ts >= y.ts + cd
    <3>1. CASE i = k
      BY <2>7, <3>1
    <3>2. CASE i \in 1 .. (k - 1)
      BY <2>6, <3>2
    <3> QED BY <1>0, <3>1, <3>2
  <2> HIDE DEF x
  <2> QED BY <2>1, <2>2, <2>4, <2>5, <2>8 DEF Greedy, x, cd
<1>4. CASE ~(c = <<>> \/ x.ts >= Last(c).ts + cd)
  <2>1. Accept(c, x) = c
    BY <1>4 DEF Accept
  <2>2. Last(c) \in V /\ Last(c).ts < x.ts /\ ~(x.ts >= Last(c).ts + cd)
    BY <1>1, <1>4 DEF Greedy
  <2>3. ASSUME NEW i \in 1 .. k
        PROVE  seq[i] \in V <=>
                 \A y \in V : y.ts < seq[i].ts => seq[i].ts >= y.ts + cd
    <3>1. CASE i = k
      BY <1>1, <2>2, <3>1
    <3>2. CASE i \in 1 .. (k - 1)
      BY <3>2 DEF Greedy
    <3> QED BY <1>0, <3>1, <3>2
  <2>4. V \subseteq {seq[i] : i \in 1 .. k}
    BY <1>0, <1>1
  <2> QED BY <2>1, <2>3, <2>4 DEF Greedy
<1> QED BY <1>3, <1>4

\* The chain of an author: the placements left by the cooldown when the earlier one
\* goes first.
LEMMA ChainIsGreedy ==
  ASSUME NEW S \in SUBSET Placements, NEW a \in DOMAIN Cooldown, OneOfASlot(S),
         \A x \in S : x.author = a
  PROVE  LET V == ToSet(FoldLeft(Accept, <<>>, InOrder(S)))
         IN  /\ V \subseteq S
             /\ \A x \in S : x \in V <=>
                  \A y \in V : y.ts < x.ts => x.ts >= y.ts + Cooldown[a]
<1> DEFINE seq == InOrder(S)
           n == Len(seq)
           cd == Cooldown[a]
<1>1. /\ seq \in Seq(Placements) /\ ToSet(seq) = S
      /\ \A i, j \in 1 .. Len(seq) : i < j => Before(seq[i], seq[j])
  BY InOrderFacts
<1> HIDE DEF seq
<1>2. S = {seq[i] : i \in 1 .. n} /\ n \in Nat
  BY <1>1 DEF ToSet
<1>3. ASSUME NEW k \in 1 .. n, NEW i \in 1 .. (k - 1)
      PROVE  seq[i].ts < seq[k].ts
  <2>1. i \in 1 .. n /\ i < k
    BY <1>2
  <2>2. Before(seq[i], seq[k])
    BY <1>1, <2>1
  <2>3. seq[i] \in S /\ seq[k] \in S
    BY <1>2, <2>1
  <2>4. a \in Nat /\ seq[i].author = a /\ seq[k].author = a
    BY <2>3, PlacementAssumption, CooldownAssumption
  <2> QED BY <2>2, <2>4 DEF Before
<1>4. PICK c \in [0 .. n -> Seq(Placements)] :
        /\ c[0] = <<>> /\ c[n] = FoldLeft(Accept, <<>>, seq)
        /\ \A k \in 1 .. n : c[k] = Accept(c[k - 1], seq[k])
  BY <1>1, AcceptSteps
<1> DEFINE P == {k \in 0 .. n : Greedy(c[k], seq, k, cd)}
<1>5. 0 \in P
  <2>1. 0 \in 0 .. n /\ 1 .. 0 = {}
    BY <1>2
  <2>2. ToSet(<<>>) = {}
    BY DEF ToSet
  <2> QED BY <1>4, <2>1, <2>2 DEF Greedy
<1>6. ASSUME NEW k \in 1 .. n, k - 1 \in P PROVE k \in P
  <2>1. k \in 0 .. n /\ k - 1 \in 0 .. n /\ c[k - 1] \in Seq(Placements)
    BY <1>2, <1>4
  <2>2. seq[k].author = a /\ \A i \in 1 .. (k - 1) : seq[i].ts < seq[k].ts
    BY <1>2, <1>3
  <2>3. Greedy(Accept(c[k - 1], seq[k]), seq, k, cd)
    BY <1>1, <1>6, <2>1, <2>2, NextInChain
  <2> QED BY <1>4, <2>1, <2>3
<1>7. Greedy(c[n], seq, n, cd)
  <2>1. n \in 0 .. n
    BY <1>2
  <2> HIDE DEF P, n
  <2>2. \A k \in 0 .. n : k \in P
    BY <1>2, <1>5, <1>6, I!Upto
  <2> QED BY <2>1, <2>2 DEF P
<1> QED BY <1>2, <1>4, <1>7 DEF Greedy, seq

\* The placements shown are those held that the cooldown of their author allows.
LEMMA ShownIsGreedy ==
  ASSUME NEW S \in SUBSET Placements
  PROVE  GreedyChoice(ValidPlacements(NewestTile(S)), Entries(NewestTile(S)))
<1> DEFINE H == Entries(NewestTile(S))
           Own(a) == {x \in H : x.author = a}
           V(a) == ToSet(Chain(NewestTile(S), a))
<1>1. H \in SUBSET Placements /\ OneOfASlot(H)
  BY LayersFacts
<1>2. ASSUME NEW a \in DOMAIN Cooldown
      PROVE  /\ V(a) \subseteq Own(a)
             /\ \A x \in Own(a) : x \in V(a) <=>
                  \A y \in V(a) : y.ts < x.ts => x.ts >= y.ts + Cooldown[a]
  <2>1. /\ Own(a) \in SUBSET Placements /\ OneOfASlot(Own(a))
        /\ \A x \in Own(a) : x.author = a
    BY <1>1 DEF OneOfASlot
  <2>2. V(a) = ToSet(FoldLeft(Accept, <<>>, InOrder(Own(a))))
    BY DEF Chain
  <2> HIDE DEF Own, V
  <2> QED BY <2>1, <2>2, ChainIsGreedy
<1>3. ValidPlacements(NewestTile(S)) = UNION {V(a) : a \in DOMAIN Cooldown}
  BY DEF ValidPlacements
<1> HIDE DEF V, H
<1>4. ASSUME NEW x \in H, x.author \in DOMAIN Cooldown
      PROVE  \A y \in H : y \in V(x.author) <=>
               y \in UNION {V(a) : a \in DOMAIN Cooldown} /\ y.author = x.author
  BY <1>2, <1>4
<1>5. ASSUME NEW x \in H, x \in UNION {V(a) : a \in DOMAIN Cooldown}
      PROVE  x.author \in DOMAIN Cooldown
  BY <1>2, <1>5
<1>6. UNION {V(a) : a \in DOMAIN Cooldown} \subseteq H
  BY <1>2
<1>7. ASSUME NEW x \in H
      PROVE  x \in UNION {V(a) : a \in DOMAIN Cooldown} <=>
               /\ x.author \in DOMAIN Cooldown
               /\ \A y \in UNION {V(a) : a \in DOMAIN Cooldown} :
                    y.author = x.author /\ y.ts < x.ts =>
                      x.ts >= y.ts + Cooldown[x.author]
  <2>1. CASE x.author \notin DOMAIN Cooldown
    BY <1>5, <2>1
  <2>2. CASE x.author \in DOMAIN Cooldown
    <3>1. x \in V(x.author) <=>
            \A y \in V(x.author) : y.ts < x.ts => x.ts >= y.ts + Cooldown[x.author]
      BY <1>2, <2>2
    <3> QED BY <1>4, <1>6, <2>2, <3>1
  <2> QED BY <2>1, <2>2
<1> QED BY <1>3, <1>6, <1>7 DEF GreedyChoice, H

\* When no author has more slots than the caps allow, nothing has been dropped.
LEMMA AllKept ==
  ASSUME NEW S \in SUBSET Placements, NEW c \in Nat,
         \A a \in Authors : Cardinality({x \in Winners(S) : x.author = a}) <= c
  PROVE  Top(S, c) = Winners(S)
<1> SUFFICES ASSUME NEW x \in Winners(S) PROVE Cardinality(NewerKeys(x, S)) < c
  BY DEF Top
<1> DEFINE Q == {y \in Winners(S) : y.author = x.author}
           W == {y \in Q : y.ts > x.ts}
           K == NewerKeys(x, S)
           f == [y \in W |-> y.ts]
<1>1. x \in Placements /\ x.author \in Authors /\ Q \in SUBSET Placements
  BY PlacementAssumption DEF Winners
<1>2. IsFiniteSet(Q) /\ Cardinality(Q) \in Nat /\ Cardinality(Q) <= c
  BY <1>1, PlacementAssumption, FS_Subset, FS_CardinalityType
<1>3. x.ts \in 0 .. MaxField
  BY <1>1, PlacementAssumption
<1>4. W \in SUBSET (Q \ {x})
  BY <1>3
<1>5. /\ IsFiniteSet(Q \ {x}) /\ Cardinality(Q \ {x}) = Cardinality(Q) - 1
  BY <1>2, FS_RemoveElement
<1>6. IsFiniteSet(W) /\ Cardinality(W) <= Cardinality(Q) - 1 /\ Cardinality(W) \in Nat
  BY <1>4, <1>5, FS_Subset, FS_CardinalityType
<1>7. K = {y.ts : y \in W}
  BY KeysOfWinners DEF NewerKeys
<1>8. f \in Surjection(W, K)
  BY <1>7 DEF Surjection
<1>9. Cardinality(K) <= Cardinality(W)
  <2> HIDE DEF W, K, f
  <2> QED BY <1>6, <1>8, FS_Surjection
<1>10. Cardinality(K) \in Nat
  BY KeysFinite
<1> QED BY <1>2, <1>6, <1>9, <1>10

\* Baking changes no verdict of the cooldown filter: while the caps have dropped
\* nothing, a replica shows the greedy choice among all it was told.
THEOREM NothingIsLaundered == Spec => []BakingLaundersNothing
<1>1. ReplicaInv => BakingLaundersNothing
  <2> SUFFICES ASSUME ReplicaInv, NEW p \in Peers,
                      \A a \in Authors :
                        ~(Cardinality({x \in Winners(heard[p]) : x.author = a})
                            > LogCap + BakedCap)
               PROVE  GreedyChoice(ValidPlacements(state[p]), Winners(heard[p]))
    BY DEF BakingLaundersNothing
  <2> DEFINE S == heard[p]
             c == LogCap + BakedCap
  <2>1. S \in SUBSET Placements /\ state[p] = NewestTile(S) /\ c \in Nat
    BY CapAssumption DEF ReplicaInv, LayersAreNewest
  <2>2. ASSUME NEW a \in Authors
        PROVE  Cardinality({x \in Winners(S) : x.author = a}) <= c
    <3>1. {x \in Winners(S) : x.author = a} \in SUBSET Placements
      BY <2>1 DEF Winners
    <3>2. Cardinality({x \in Winners(S) : x.author = a}) \in Nat
      BY <3>1, PlacementAssumption, FS_Subset, FS_CardinalityType
    <3> QED BY <2>1, <3>2
  <2>3. Entries(NewestTile(S)) = Winners(S)
    <3>1. Top(S, c) = Winners(S)
      BY <2>1, <2>2, AllKept
    <3> QED BY <2>1, <3>1, LayersFacts
  <2> QED BY <2>1, <2>3, ShownIsGreedy
<1> QED BY <1>1, NetInvariant, PTL

\* Peers that were told the same placements show the same canvas, of one placement
\* at a coordinate.
THEOREM CanvasIsShared == Spec => []SameCanvas
<1>1. ReplicaInv => SameCanvas
  <2> SUFFICES ASSUME ReplicaInv, NEW p \in Peers, NEW q \in Peers, heard[p] = heard[q]
               PROVE  LET mine == DeriveCanvas(state[p])
                          theirs == DeriveCanvas(state[q])
                      IN /\ {x.coord : x \in mine} = {x.coord : x \in theirs}
                         /\ \A x \in mine, y \in theirs : x.coord = y.coord => x = y
    BY DEF SameCanvas
  <2>1. /\ heard[p] \in SUBSET Placements /\ state[p] = NewestTile(heard[p])
        /\ state[q] = state[p]
    BY DEF ReplicaInv, LayersAreNewest
  <2>2. ValidPlacements(state[p]) \in SUBSET Placements
    BY <2>1, ShownIsGreedy, LayersFacts DEF GreedyChoice
  <2>3. ASSUME NEW x \in DeriveCanvas(state[p]), NEW y \in DeriveCanvas(state[p]),
               x.coord = y.coord
        PROVE  x = y
    <3>1. /\ x \in Placements /\ y \in Placements
          /\ LastWriter(x, ValidPlacements(state[p]))
          /\ LastWriter(y, ValidPlacements(state[p]))
          /\ x \in ValidPlacements(state[p]) /\ y \in ValidPlacements(state[p])
      BY <2>2 DEF DeriveCanvas
    <3>2. /\ x.ts \in 0 .. MaxField /\ y.ts \in 0 .. MaxField
          /\ x.sig \in 0 .. MaxField /\ y.sig \in 0 .. MaxField
          /\ x.author \in Nat /\ y.author \in Nat
      BY <3>1, PlacementAssumption
    <3>3. x.author = y.author /\ x.ts = y.ts /\ x.sig = y.sig
      BY <2>3, <3>1, <3>2 DEF LastWriter
    <3> QED BY <3>1, <3>3, PlacementAssumption
  <2> QED BY <2>1, <2>3
<1> QED BY <1>1, NetInvariant, PTL

-----------------------------------------------------------------------------
\* A set of placements as a page has it: for every author, a map from timestamps.
Own(L, a) == {x \in L : x.author = a}

LogMap(L, a) ==
  [t \in {x.ts : x \in Own(L, a)} |-> CHOOSE x \in Own(L, a) : x.ts = t]

Logs(L) == [a \in {x.author : x \in L} |-> LogMap(L, a)]

Page(tile) == [placements |-> Logs(tile.live), baked |-> Logs(tile.baked)]

\* The logs that a cap has cut.
KeptLogs(c) ==
  {L \in SUBSET Placements :
     OneOfASlot(L) /\ \A x \in L : Cardinality(NewerKeys(x, L)) < c}

KeptTiles == [live : KeptLogs(LogCap), baked : KeptLogs(BakedCap)]

KeptPages == {Page(tile) : tile \in KeptTiles}

Ins == INSTANCE Folding WITH Op <- InsertJs, A <- KeptPages, E <- Placements,
                             Less <- Before
Bks == INSTANCE Folding WITH Op <- BakeJs, A <- KeptPages, E <- Placements,
                             Less <- Before

\* The map of an author has his placements, each under its time.
LEMMA LogFacts ==
  ASSUME NEW L \in SUBSET Placements, OneOfASlot(L), NEW a
  PROVE  /\ DOMAIN LogMap(L, a) = {x.ts : x \in Own(L, a)}
         /\ \A x \in Own(L, a) : x.ts \in DOMAIN LogMap(L, a) /\ LogMap(L, a)[x.ts] = x
         /\ \A t \in DOMAIN LogMap(L, a) :
              LogMap(L, a)[t] \in Own(L, a) /\ LogMap(L, a)[t].ts = t
         /\ LogOf(Logs(L), a) = LogMap(L, a)
<1>1. ASSUME NEW x \in Own(L, a)
      PROVE  x.ts \in DOMAIN LogMap(L, a) /\ LogMap(L, a)[x.ts] = x
  <2>1. \A y \in Own(L, a) : y.ts = x.ts => y = x
    BY DEF OneOfASlot, SameSlot, Own
  <2>2. x.ts \in {y.ts : y \in Own(L, a)}
    OBVIOUS
  <2>3. LogMap(L, a)[x.ts] = CHOOSE y \in Own(L, a) : y.ts = x.ts
    BY <2>2 DEF LogMap
  <2> QED BY <2>1, <2>2, <2>3 DEF LogMap
<1>2. DOMAIN LogMap(L, a) = {x.ts : x \in Own(L, a)}
  BY DEF LogMap
<1>3. ASSUME NEW t \in DOMAIN LogMap(L, a)
      PROVE  LogMap(L, a)[t] \in Own(L, a) /\ LogMap(L, a)[t].ts = t
  <2>1. PICK x \in Own(L, a) : x.ts = t
    BY <1>2
  <2> QED BY <1>1, <2>1
<1>4. LogOf(Logs(L), a) = LogMap(L, a)
  <2>1. CASE a \in {x.author : x \in L}
    BY <2>1 DEF LogOf, Logs
  <2>2. CASE a \notin {x.author : x \in L}
    <3>1. Own(L, a) = {}
      BY <2>2 DEF Own
    <3>2. LogMap(L, a) = NoLog
      BY <3>1 DEF LogMap, NoLog
    <3> QED BY <2>2, <3>2 DEF LogOf, Logs
  <2> QED BY <2>1, <2>2
<1> QED BY <1>1, <1>2, <1>3, <1>4

\* Maps of an author are alike that have the same entries.
LEMMA SameLogs ==
  ASSUME NEW L, NEW M, NEW a, Own(L, a) = Own(M, a)
  PROVE  LogMap(L, a) = LogMap(M, a)
BY DEF LogMap

\* What is iterated is what is held.
LEMMA EntriesOfLogs ==
  ASSUME NEW L \in SUBSET Placements, OneOfASlot(L)
  PROVE  EntriesJs(Logs(L)) = L
<1>1. ASSUME NEW e \in EntriesJs(Logs(L)) PROVE e \in L
  <2>1. PICK a \in DOMAIN Logs(L) : e \in {Logs(L)[a][t] : t \in DOMAIN Logs(L)[a]}
    BY DEF EntriesJs
  <2>2. Logs(L)[a] = LogMap(L, a)
    BY <2>1 DEF Logs
  <2>3. PICK t \in DOMAIN LogMap(L, a) : e = LogMap(L, a)[t]
    BY <2>1, <2>2
  <2>4. LogMap(L, a)[t] \in Own(L, a)
    BY LogFacts
  <2> QED BY <2>3, <2>4 DEF Own
<1>2. ASSUME NEW x \in L PROVE x \in EntriesJs(Logs(L))
  <2> DEFINE a == x.author
  <2>1. a \in DOMAIN Logs(L) /\ Logs(L)[a] = LogMap(L, a) /\ x \in Own(L, a)
    BY DEF Logs, Own
  <2> HIDE DEF a
  <2>2. x.ts \in DOMAIN LogMap(L, a) /\ LogMap(L, a)[x.ts] = x
    BY <2>1, LogFacts
  <2> QED BY <2>1, <2>2 DEF EntriesJs
<1> QED BY <1>1, <1>2

\* The map's slot keeps the winner.
LEMMA SlotsAlike ==
  ASSUME NEW L \in SUBSET Placements, OneOfASlot(L), NEW x \in Placements
  PROVE  LET W == Winners(L \cup {x})
         IN  /\ W \in SUBSET (L \cup {x}) /\ OneOfASlot(W)
             /\ Slotted(LogMap(L, x.author), x) = LogMap(W, x.author)
             /\ \A b : b # x.author => Own(W, b) = Own(L, b)
<1> DEFINE W == Winners(L \cup {x})
           a == x.author
           old == LogMap(L, a)
           new == LogMap(W, a)
<1>0. /\ L \cup {x} \in SUBSET Placements
      /\ \A y \in L \cup {x} : y.sig \in Nat
  <2>1. L \cup {x} \in SUBSET Placements
    OBVIOUS
  <2>2. \A y \in Placements : y.sig \in 0 .. MaxField
    BY PlacementAssumption
  <2> QED BY <2>1, <2>2
<1>1. W \in SUBSET (L \cup {x}) /\ OneOfASlot(W)
  BY <1>0, WinnersAreAlone DEF Winners
<1>2. ASSUME NEW y \in L, ~SameSlot(y, x) PROVE y \in W
  BY <1>0, <1>2 DEF Winners, SlotWins, OneOfASlot
<1>3. \A b : b # a => Own(W, b) = Own(L, b)
  BY <1>1, <1>2 DEF Own, SameSlot
<1>4. /\ DOMAIN old = {y.ts : y \in Own(L, a)}
      /\ \A y \in Own(L, a) : y.ts \in DOMAIN old /\ old[y.ts] = y
      /\ \A t \in DOMAIN old : old[t] \in Own(L, a) /\ old[t].ts = t
  BY LogFacts
<1>5. /\ DOMAIN new = {y.ts : y \in Own(W, a)}
      /\ \A y \in Own(W, a) : y.ts \in DOMAIN new /\ new[y.ts] = y
      /\ new = [t \in DOMAIN new |-> new[t]]
  <2>1. W \in SUBSET Placements
    BY <1>0, <1>1
  <2>2. new = [t \in DOMAIN new |-> new[t]]
    <3>1. DOMAIN new = {y.ts : y \in Own(W, a)}
      BY DEF LogMap
    <3> HIDE DEF W, a
    <3> QED BY <3>1 DEF LogMap
  <2> HIDE DEF W
  <2> QED BY <1>1, <2>1, <2>2, LogFacts
<1> DEFINE put == IF x.ts \in DOMAIN old THEN PlacementSlotWinner(old[x.ts], x) ELSE x
<1>6. put \in Own(W, a) /\ put.ts = x.ts
  <2>1. CASE x.ts \in DOMAIN old
    <3> DEFINE y == old[x.ts]
    <3>1. y \in L /\ y.author = a /\ y.ts = x.ts
      BY <1>4, <2>1 DEF Own
    <3>2. \A z \in L : SameSlot(z, x) \/ SameSlot(z, y) => z = y
      BY <3>1 DEF OneOfASlot, SameSlot
    <3> HIDE DEF y
    <3>3. CASE y.sig >= x.sig
      <4>1. y \in W
        BY <1>0, <3>1, <3>2, <3>3 DEF Winners, SlotWins, SameSlot
      <4>2. put = y
        BY <2>1, <3>3 DEF PlacementSlotWinner, y
      <4> QED BY <3>1, <4>1, <4>2 DEF Own
    <3>4. CASE ~(y.sig >= x.sig)
      <4>1. x \in W
        BY <1>0, <3>1, <3>2, <3>4 DEF Winners, SlotWins, SameSlot
      <4>2. put = x
        BY <2>1, <3>4 DEF PlacementSlotWinner, y
      <4> QED BY <4>1, <4>2 DEF Own
    <3> QED BY <3>3, <3>4
  <2>2. CASE x.ts \notin DOMAIN old
    <3>1. \A z \in L : ~SameSlot(x, z)
      BY <1>4, <2>2 DEF Own, SameSlot
    <3>2. x \in W
      BY <1>0, <3>1 DEF Winners, SlotWins
    <3> QED BY <2>2, <3>2 DEF Own
  <2> QED BY <2>1, <2>2
<1>7. \A y \in Own(L, a) : y.ts # x.ts => y \in Own(W, a)
  BY <1>2 DEF Own, SameSlot
<1>8. \A y \in Own(W, a) : y.ts # x.ts => y \in Own(L, a)
  BY <1>1 DEF Own
<1> HIDE DEF put, old, new, W
<1>9. DOMAIN new = DOMAIN old \cup {x.ts}
  BY <1>4, <1>5, <1>6, <1>7, <1>8
<1>10. ASSUME NEW t \in DOMAIN new
       PROVE  new[t] = IF t = x.ts THEN put ELSE old[t]
  <2>1. CASE t = x.ts
    BY <1>5, <1>6, <2>1
  <2>2. CASE t # x.ts
    <3>1. PICK y \in Own(W, a) : y.ts = t
      BY <1>5
    <3> QED BY <1>4, <1>5, <1>8, <2>2, <3>1
  <2> QED BY <2>1, <2>2
<1>11. Slotted(old, x) = [t \in DOMAIN old \cup {x.ts} |-> IF t = x.ts THEN put ELSE old[t]]
  BY DEF Slotted, MapSet, put
<1>12. Slotted(old, x) = new
  BY <1>5, <1>9, <1>10, <1>11
<1> QED BY <1>1, <1>3, <1>12 DEF W, old, new

\* The keys that logInsert counts above an entry.
LEMMA KeysAbove ==
  ASSUME NEW W \in SUBSET Placements, OneOfASlot(W), NEW a, NEW y \in Own(W, a)
  PROVE  {u \in DOMAIN LogMap(W, a) : u > y.ts} = NewerKeys(y, W)
<1>1. DOMAIN LogMap(W, a) = {z.ts : z \in Own(W, a)}
  BY LogFacts
<1> QED BY <1>1 DEF Own, NewerKeys

\* What the cap leaves of the logs and what it displaces.
LEMMA CutAlike ==
  ASSUME NEW cap \in Nat, NEW W \in SUBSET Placements, OneOfASlot(W), NEW a
  PROVE  LET log == LogMap(W, a)
         IN  /\ Restrict(log, DOMAIN log \ Evicted(log, cap)) = LogMap(Newest(W, cap), a)
             /\ {log[t] : t \in Evicted(log, cap)} = Own(W, a) \ Newest(W, cap)
<1> DEFINE log == LogMap(W, a)
           N == Newest(W, cap)
<1>1. /\ DOMAIN log = {y.ts : y \in Own(W, a)}
      /\ \A y \in Own(W, a) : y.ts \in DOMAIN log /\ log[y.ts] = y
      /\ \A t \in DOMAIN log : log[t] \in Own(W, a) /\ log[t].ts = t
  BY LogFacts
<1>2. ASSUME NEW y \in Own(W, a)
      PROVE  y.ts \in Evicted(log, cap) <=> y \notin N
  <2>1. {u \in DOMAIN log : u > y.ts} = NewerKeys(y, W)
    BY KeysAbove
  <2>2. Cardinality(NewerKeys(y, W)) \in Nat
    BY KeysFinite
  <2>3. y.ts \in DOMAIN log /\ y \in W
    BY <1>1 DEF Own
  <2>4. y.ts \in Evicted(log, cap) <=> Cardinality(NewerKeys(y, W)) >= cap
    BY <2>1, <2>3 DEF Evicted
  <2>5. y \in N <=> Cardinality(NewerKeys(y, W)) < cap
    BY <2>3 DEF Newest
  <2> QED BY <2>2, <2>4, <2>5
<1>3. N \in SUBSET W /\ N \in SUBSET Placements /\ OneOfASlot(N)
  BY DEF Newest, OneOfASlot
<1>4. Evicted(log, cap) \subseteq DOMAIN log
  BY DEF Evicted
<1> DEFINE cut == LogMap(N, a)
<1>5. /\ DOMAIN cut = {y.ts : y \in Own(N, a)}
      /\ \A y \in Own(N, a) : y.ts \in DOMAIN cut /\ cut[y.ts] = y
      /\ cut = [t \in DOMAIN cut |-> cut[t]]
  <2>1. cut = [t \in DOMAIN cut |-> cut[t]]
    <3>1. DOMAIN cut = {y.ts : y \in Own(N, a)}
      BY DEF LogMap
    <3> HIDE DEF N
    <3> QED BY <3>1 DEF LogMap
  <2> HIDE DEF N
  <2> QED BY <1>3, <2>1, LogFacts
<1>6. \A y : y \in Own(N, a) <=> y \in Own(W, a) /\ y \in N
  BY <1>3 DEF Own
<1> HIDE DEF log, N, cut
<1>7. DOMAIN log \ Evicted(log, cap) = DOMAIN cut
  <2>1. ASSUME NEW t \in DOMAIN log, t \notin Evicted(log, cap) PROVE t \in DOMAIN cut
    <3>1. log[t] \in Own(W, a) /\ log[t].ts = t
      BY <1>1
    <3> QED BY <1>2, <1>5, <1>6, <2>1, <3>1
  <2>2. ASSUME NEW t \in DOMAIN cut PROVE t \in DOMAIN log /\ t \notin Evicted(log, cap)
    <3>1. PICK y \in Own(N, a) : y.ts = t
      BY <1>5
    <3> QED BY <1>1, <1>2, <1>6, <3>1
  <2> QED BY <2>1, <2>2
<1>8. \A t \in DOMAIN cut : cut[t] = log[t]
  BY <1>1, <1>5, <1>6
<1>9. Restrict(log, DOMAIN log \ Evicted(log, cap)) = cut
  BY <1>5, <1>7, <1>8 DEF Restrict
<1>10. {log[t] : t \in Evicted(log, cap)} = Own(W, a) \ N
  <2>1. ASSUME NEW t \in Evicted(log, cap) PROVE log[t] \in Own(W, a) \ N
    BY <1>1, <1>2, <1>4, <2>1
  <2>2. ASSUME NEW y \in Own(W, a), y \notin N
        PROVE  y.ts \in Evicted(log, cap) /\ log[y.ts] = y
    BY <1>1, <1>2, <2>2
  <2> QED BY <2>1, <2>2
<1> QED BY <1>9, <1>10 DEF log, N, cut

\* The newest entry of an author stays.
LEMMA NewestStays ==
  ASSUME NEW cap \in Nat \ {0}, NEW W \in SUBSET Placements, NEW x \in W
  PROVE  \E y \in Newest(W, cap) : y.author = x.author
<1> DEFINE times == {y.ts : y \in Own(W, x.author)}
<1>1. times \in SUBSET (0 .. MaxField) /\ times # {}
  BY PlacementAssumption DEF Own
<1>2. PICK n \in times : \A m \in times : m <= n
  BY <1>1, CapAssumption, Greatest
<1>3. PICK y \in Own(W, x.author) : y.ts = n
  OBVIOUS
<1>4. NewerKeys(y, W) = {}
  <2>1. ASSUME NEW z \in Own(W, x.author) PROVE ~(z.ts > n)
    <3>1. z.ts \in times
      OBVIOUS
    <3>2. z.ts \in 0 .. MaxField /\ n \in 0 .. MaxField /\ z.ts <= n
      <4> HIDE DEF times
      <4> QED BY <1>1, <1>2, <3>1
    <3> QED BY <3>2, CapAssumption
  <2> QED BY <1>3, <2>1 DEF NewerKeys, Own
<1>5. Cardinality(NewerKeys(y, W)) < cap
  BY <1>4, FS_EmptySet
<1> QED BY <1>3, <1>5 DEF Own, Newest

\* logInsert does to a page's log what log_insert does to the contract's.
LEMMA LogInsertsAlike ==
  ASSUME NEW cap \in Nat \ {0}, NEW L \in KeptLogs(cap), NEW x \in Placements
  PROVE  LET log == LogOf(Logs(L), x.author)
             N == LogInsert(L, x, cap)
         IN  /\ N \in KeptLogs(cap)
             /\ MapSet(Logs(L), x.author, LogInsertJs(log, x, cap)) = Logs(N)
             /\ DisplacedJs(log, x, cap) = InOrder(Displaced(L, x, cap))
             /\ \A y \in Displaced(L, x, cap) :
                  y.author = x.author /\ y \in Winners(L \cup {x})
<1> DEFINE W == Winners(L \cup {x})
           a == x.author
           N == LogInsert(L, x, cap)
<1>0. L \in SUBSET Placements /\ OneOfASlot(L) /\ cap \in Nat
  BY DEF KeptLogs
<1>1. /\ W \in SUBSET (L \cup {x}) /\ OneOfASlot(W)
      /\ Slotted(LogMap(L, a), x) = LogMap(W, a)
      /\ \A b : b # a => Own(W, b) = Own(L, b)
  BY <1>0, SlotsAlike
<1>2. N = Newest(W, cap) /\ W \in SUBSET Placements
  BY <1>0, <1>1 DEF LogInsert
<1>3. LogOf(Logs(L), a) = LogMap(L, a)
  <2> HIDE DEF a
  <2> QED BY <1>0, LogFacts
<1> HIDE DEF W, a, N
<1>4. ASSUME NEW b, b # a PROVE Own(N, b) = Own(L, b)
  <2>1. \A y \in Own(L, b) : NewerKeys(y, W) = NewerKeys(y, L)
    <3>1. \A y : NewerKeys(y, W) = {z.ts : z \in {u \in Own(W, y.author) : u.ts > y.ts}}
      BY DEF NewerKeys, Own
    <3>2. \A y : NewerKeys(y, L) = {z.ts : z \in {u \in Own(L, y.author) : u.ts > y.ts}}
      BY DEF NewerKeys, Own
    <3>3. \A y \in Own(L, b) : y.author = b
      BY DEF Own
    <3> QED BY <1>1, <1>4, <3>1, <3>2, <3>3
  <2>2. \A y \in Own(L, b) : y \in W /\ y \in L
    BY <1>1, <1>4 DEF Own
  <2>3. \A y \in Own(L, b) : y \in N
    BY <1>2, <2>1, <2>2 DEF KeptLogs, Newest
  <2>4. Own(N, b) \subseteq Own(W, b)
    BY <1>2 DEF Own, Newest
  <2> QED BY <1>1, <1>4, <2>3, <2>4 DEF Own
<1>5. LogInsertJs(LogMap(L, a), x, cap) = LogMap(N, a)
  BY <1>0, <1>1, <1>2, CutAlike DEF LogInsertJs
<1>6. W \ N = Own(W, a) \ N
  <2>1. ASSUME NEW y \in W, y \notin N PROVE y.author = a
    <3>1. SUFFICES ASSUME y.author # a PROVE FALSE
      OBVIOUS
    <3>2. y \in Own(W, y.author)
      BY DEF Own
    <3>3. y \in Own(N, y.author)
      BY <1>1, <1>4, <3>1, <3>2
    <3> QED BY <2>1, <3>3 DEF Own
  <2> QED BY <2>1 DEF Own
<1>7. Displaced(L, x, cap) = W \ N
  BY DEF Displaced, W, N
<1>8. DisplacedJs(LogMap(L, a), x, cap) = InOrder(Displaced(L, x, cap))
  <2>1. {LogMap(W, a)[t] : t \in Evicted(LogMap(W, a), cap)} = Own(W, a) \ N
    BY <1>0, <1>1, <1>2, CutAlike
  <2> QED BY <1>1, <1>6, <1>7, <2>1 DEF DisplacedJs
<1>9. N \in KeptLogs(cap)
  <2>1. N \in SUBSET W /\ N \in SUBSET Placements /\ OneOfASlot(N)
    BY <1>1, <1>2 DEF Newest, OneOfASlot
  <2>2. ASSUME NEW y \in N PROVE Cardinality(NewerKeys(y, N)) < cap
    <3>1. Cardinality(NewerKeys(y, W)) < cap
      BY <1>2 DEF Newest
    <3>2. /\ Cardinality(NewerKeys(y, N)) <= Cardinality(NewerKeys(y, W))
          /\ Cardinality(NewerKeys(y, N)) \in Nat /\ Cardinality(NewerKeys(y, W)) \in Nat
      BY <1>2, <2>1, KeysMonotone, KeysFinite
    <3> QED BY <1>0, <3>1, <3>2
  <2> QED BY <2>1, <2>2 DEF KeptLogs
<1>10. {y.author : y \in N} = {y.author : y \in L} \cup {a}
  <2>1. \E y \in N : y.author = a
    <3>1. \E y \in W : y.author = a
      <4>1. L \cup {x} \in SUBSET Placements /\ x \in L \cup {x}
        BY <1>0
      <4>2. \E w \in W : SameSlot(w, x)
        BY <4>1, WinnerExists DEF W
      <4> QED BY <4>2 DEF SameSlot, a
    <3> QED BY <1>2, <3>1, NewestStays
  <2>2. \A b : b # a => Own(N, b) = Own(L, b)
    BY <1>4
  <2>3. ASSUME NEW b, b # a
        PROVE  b \in {y.author : y \in N} <=> b \in {y.author : y \in L}
    BY <2>2, <2>3 DEF Own
  <2> QED BY <2>1, <2>3
<1>11. MapSet(Logs(L), a, LogMap(N, a)) = Logs(N)
  <2>1. DOMAIN Logs(L) \cup {a} = {y.author : y \in N}
    BY <1>10 DEF Logs
  <2>2. ASSUME NEW b \in {y.author : y \in N}
        PROVE  (IF b = a THEN LogMap(N, a) ELSE Logs(L)[b]) = LogMap(N, b)
    <3>1. CASE b = a
      BY <3>1
    <3>2. CASE b # a
      <4>1. b \in {y.author : y \in L} /\ Own(L, b) = Own(N, b)
        BY <1>4, <1>10, <3>2
      <4>2. Logs(L)[b] = LogMap(L, b)
        BY <4>1 DEF Logs
      <4> QED BY <3>2, <4>1, <4>2, SameLogs
    <3> QED BY <3>1, <3>2
  <2> QED BY <2>1, <2>2 DEF MapSet, Logs
<1>12. \A y \in Displaced(L, x, cap) : y.author = a /\ y \in W
  BY <1>6, <1>7 DEF Own
<1> QED BY <1>3, <1>5, <1>8, <1>9, <1>11, <1>12 DEF N, a, W

\* logInsert displaces one entry at most.
LEMMA OneDisplaced ==
  ASSUME NEW cap \in Nat \ {0}, NEW L \in KeptLogs(cap), NEW x \in Placements
  PROVE  \/ Displaced(L, x, cap) = {}
         \/ \E y \in Placements : Displaced(L, x, cap) = {y}
<1> DEFINE W == Winners(L \cup {x})
           D == Displaced(L, x, cap)
<1>0. /\ L \in SUBSET Placements /\ OneOfASlot(L) /\ cap \in Nat
      /\ L \cup {x} \in SUBSET Placements
  BY DEF KeptLogs
<1>1. /\ W \in SUBSET (L \cup {x}) /\ OneOfASlot(W) /\ W \in SUBSET Placements
      /\ D = W \ Newest(W, cap)
  BY <1>0, WinnersAreAlone DEF Displaced, LogInsert, Winners
<1>2. \A y \in D : y \in W /\ y.author = x.author
  BY LogInsertsAlike
<1> HIDE DEF W, D
<1>3. ASSUME NEW y \in D
      PROVE  /\ Cardinality(NewerKeys(y, W)) >= cap /\ y \in Placements /\ y.ts \in Nat
             /\ IsFiniteSet(NewerKeys(y, W)) /\ Cardinality(NewerKeys(y, W)) \in Nat
  <2>1. y \in W /\ y \in Placements
    BY <1>1, <1>2
  <2>2. y.ts \in 0 .. MaxField
    BY <2>1, PlacementAssumption
  <2>3. Cardinality(NewerKeys(y, W)) \in Nat /\ IsFiniteSet(NewerKeys(y, W))
    BY <1>1, KeysFinite
  <2> QED BY <1>0, <1>1, <2>1, <2>2, <2>3 DEF Newest
<1>4. ASSUME NEW y \in D, NEW z \in D, y.ts < z.ts PROVE FALSE
  <2>1. y.author = x.author /\ z.author = x.author /\ y \in W /\ z \in W
    BY <1>2
  <2>2. CASE y \in L
    <3>1. z.ts \notin NewerKeys(z, W) /\ z.ts \in NewerKeys(y, W)
      <4>1. \A t \in NewerKeys(z, W) : t > z.ts
        BY DEF NewerKeys
      <4>2. z.ts \in Nat /\ z.ts > y.ts
        BY <1>3, <1>4
      <4>3. z.ts \in NewerKeys(y, W)
        BY <2>1, <4>2 DEF NewerKeys
      <4> QED BY <4>1, <4>2, <4>3
    <3>2. NewerKeys(z, W) \subseteq NewerKeys(y, W)
      BY <1>1, <1>3, <1>4, <2>1, PlacementAssumption DEF NewerKeys
    <3> DEFINE K == NewerKeys(z, W) \cup {z.ts}
               M == NewerKeys(y, L) \cup {x.ts}
    <3>3. IsFiniteSet(K) /\ Cardinality(K) = Cardinality(NewerKeys(z, W)) + 1
      BY <1>3, <3>1, FS_AddElement
    <3>4. K \subseteq M
      <4>1. NewerKeys(y, W) \subseteq M
        BY <1>1 DEF NewerKeys
      <4> QED BY <3>1, <3>2, <4>1
    <3>5. /\ Cardinality(NewerKeys(y, L)) < cap /\ IsFiniteSet(NewerKeys(y, L))
          /\ Cardinality(NewerKeys(y, L)) \in Nat
      BY <1>0, <2>2, KeysFinite DEF KeptLogs
    <3>6. IsFiniteSet(M) /\ Cardinality(M) <= Cardinality(NewerKeys(y, L)) + 1
      <4>1. CASE x.ts \in NewerKeys(y, L)
        <5>1. M = NewerKeys(y, L)
          BY <4>1
        <5> QED BY <3>5, <5>1
      <4>2. CASE x.ts \notin NewerKeys(y, L)
        <5>1. IsFiniteSet(M) /\ Cardinality(M) = Cardinality(NewerKeys(y, L)) + 1
          BY <3>5, <4>2, FS_AddElement
        <5>2. Cardinality(M) \in Nat
          BY <5>1, FS_CardinalityType
        <5> QED BY <5>1, <5>2
      <4> QED BY <4>1, <4>2
    <3> HIDE DEF K, M
    <3>7. Cardinality(K) <= Cardinality(M) /\ Cardinality(M) \in Nat
      BY <3>4, <3>6, FS_Subset, FS_CardinalityType
    <3> QED BY <1>0, <1>3, <3>3, <3>5, <3>6, <3>7
  <2>3. CASE y \notin L
    <3>1. y = x /\ z \in L
      BY <1>1, <1>4, <2>1, <2>3, <1>3
    <3>2. NewerKeys(z, W) \subseteq NewerKeys(z, L)
      <4>1. ~(x.ts > z.ts)
        BY <1>3, <1>4, <3>1
      <4>2. \A u \in W : u.ts > z.ts => u \in L
        BY <1>1, <4>1
      <4> QED BY <4>2 DEF NewerKeys
    <3>3. Cardinality(NewerKeys(z, W)) <= Cardinality(NewerKeys(z, L))
      BY <1>0, <3>2, SmallerKeys
    <3>4. Cardinality(NewerKeys(z, L)) < cap /\ Cardinality(NewerKeys(z, L)) \in Nat
      BY <1>0, <3>1, KeysFinite DEF KeptLogs
    <3> QED BY <1>0, <1>3, <3>3, <3>4
  <2> QED BY <2>2, <2>3
<1>5. \A y, z \in D : y = z
  <2> SUFFICES ASSUME NEW y \in D, NEW z \in D PROVE y = z
    OBVIOUS
  <2>1. y.ts = z.ts
    BY <1>3, <1>4
  <2> QED BY <1>1, <1>2, <2>1 DEF OneOfASlot, SameSlot
<1>6. CASE D = {}
  BY <1>6 DEF D
<1>7. CASE D # {}
  <2>1. PICK y \in D : TRUE
    BY <1>7
  <2>2. D = {y} /\ y \in Placements
    BY <1>3, <1>5
  <2> QED BY <2>2 DEF D
<1> QED BY <1>6, <1>7

\* Whole tiles and pages: a bake.
LEMMA BakesAlike ==
  ASSUME NEW tile \in KeptTiles, NEW x \in Placements
  PROVE  BakeJs(Page(tile), x) = Page(Bake(tile, x)) /\ Bake(tile, x) \in KeptTiles
<1> DEFINE N == LogInsert(tile.baked, x, BakedCap)
<1>1. /\ tile.live \in KeptLogs(LogCap) /\ tile.baked \in KeptLogs(BakedCap)
      /\ tile = [live |-> tile.live, baked |-> tile.baked]
  BY DEF KeptTiles
<1>2. /\ N \in KeptLogs(BakedCap)
      /\ MapSet(Logs(tile.baked), x.author,
                LogInsertJs(LogOf(Logs(tile.baked), x.author), x, BakedCap)) = Logs(N)
  BY <1>1, CapAssumption, LogInsertsAlike
<1>3. Bake(tile, x) = [live |-> tile.live, baked |-> N]
  BY <1>1 DEF Bake
<1>4. BakeJs(Page(tile), x) = [placements |-> Logs(tile.live), baked |-> Logs(N)]
  <2> HIDE DEF N
  <2> QED BY <1>2 DEF BakeJs, Page
<1> HIDE DEF N
<1> QED BY <1>1, <1>2, <1>3, <1>4 DEF Page, KeptTiles

\* What a fold of the page's bake goes through.
LEMMA BakeJsSteps ==
  ASSUME NEW page \in KeptPages, NEW seq \in Seq(Placements)
  PROVE  \E c \in [0 .. Len(seq) -> KeptPages] :
           /\ c[0] = page /\ c[Len(seq)] = FoldLeft(BakeJs, page, seq)
           /\ \A k \in 1 .. Len(seq) : c[k] = BakeJs(c[k - 1], seq[k])
<1>1. Bks!Closed
  BY BakesAlike DEF Bks!Closed, KeptPages
<1> QED BY <1>1, Bks!FoldLeftSteps
        DEF FoldLeft, Bks!FoldLeft, MapThenFoldSet, Bks!MapThenFoldSet, Max, Bks!Max

\* Sets of no and of one entry, in order.
LEMMA ShortOrders ==
  /\ InOrder({}) = <<>>
  /\ \A y \in Placements : InOrder({y}) = <<y>>
<1>1. \A y \in Placements : ~Before(y, y)
  <2> SUFFICES ASSUME NEW y \in Placements PROVE ~Before(y, y)
    OBVIOUS
  <2>1. y.author \in Authors /\ Authors \subseteq Nat /\ y.ts \in 0 .. MaxField
    BY PlacementAssumption
  <2>2. y.author \in Nat
    BY <2>1
  <2>3. y.ts \in Nat
    BY <2>1
  <2> QED BY <2>2, <2>3 DEF Before
<1>2. InOrder({}) = <<>>
  <2>1. OneOfASlot({}) /\ {} \in SUBSET Placements
    BY DEF OneOfASlot
  <2>2. InOrder({}) \in Seq(Placements) /\ ToSet(InOrder({})) = {}
    BY <2>1, InOrderFacts
  <2> HIDE DEF InOrder
  <2> QED BY <2>2 DEF ToSet
<1>3. ASSUME NEW y \in Placements, NEW s \in Seq(Placements), ToSet(s) = {y},
             \A i, j \in 1 .. Len(s) : i < j => Before(s[i], s[j])
      PROVE  s = <<y>>
  <2>1. Len(s) \in Nat /\ \A i \in 1 .. Len(s) : s[i] = y
    BY <1>3 DEF ToSet
  <2>2. Len(s) # 0
    BY <1>3, <2>1 DEF ToSet
  <2>3. ~(Len(s) > 1)
    <3>1. SUFFICES ASSUME Len(s) > 1 PROVE FALSE
      OBVIOUS
    <3>2. 1 \in 1 .. Len(s) /\ 2 \in 1 .. Len(s) /\ 1 < 2
      BY <2>1, <3>1
    <3>3. Before(s[1], s[2]) /\ s[1] = y /\ s[2] = y
      BY <1>3, <2>1, <3>2
    <3> QED BY <1>1, <3>3
  <2>4. Len(s) = 1
    <3>1. Len(s) \in Nat
      OBVIOUS
    <3> QED BY <2>2, <2>3, <3>1
  <2> QED BY <2>1, <2>4
<1>4. ASSUME NEW y \in Placements PROVE InOrder({y}) = <<y>>
  <2>1. OneOfASlot({y}) /\ {y} \in SUBSET Placements
    BY DEF OneOfASlot
  <2> QED BY <1>3, <2>1, InOrderFacts
<1> QED BY <1>2, <1>4

\* Whole tiles and pages: an insert, with the bake of what it displaces.
LEMMA InsertsAlike ==
  ASSUME NEW tile \in KeptTiles, NEW x \in Placements
  PROVE  InsertJs(Page(tile), x) = Page(Insert(tile, x)) /\ Insert(tile, x) \in KeptTiles
<1> DEFINE N == LogInsert(tile.live, x, LogCap)
           D == Displaced(tile.live, x, LogCap)
           half == [live |-> N, baked |-> tile.baked]
<1>1. /\ tile.live \in KeptLogs(LogCap) /\ tile.baked \in KeptLogs(BakedCap)
      /\ LogCap \in Nat \ {0} /\ BakedCap \in Nat \ {0}
  BY CapAssumption DEF KeptTiles
<1>2. /\ N \in KeptLogs(LogCap)
      /\ MapSet(Logs(tile.live), x.author,
                LogInsertJs(LogOf(Logs(tile.live), x.author), x, LogCap)) = Logs(N)
      /\ DisplacedJs(LogOf(Logs(tile.live), x.author), x, LogCap) = InOrder(D)
  BY <1>1, LogInsertsAlike
<1>3. D = {} \/ \E y \in Placements : D = {y}
  BY <1>1, OneDisplaced
<1>4. Insert(tile, x) = [live  |-> N,
                         baked |-> Newest(Winners(tile.baked \cup D), BakedCap)]
  BY DEF Insert
<1> HIDE DEF N, D
<1>5. half \in KeptTiles /\ Page(half) \in KeptPages
  BY <1>1, <1>2 DEF KeptTiles, KeptPages
<1>6. InsertJs(Page(tile), x) = FoldLeft(BakeJs, Page(half), InOrder(D))
  BY <1>2 DEF InsertJs, Page
<1>7. CASE D = {}
  <2>1. InOrder(D) = <<>> /\ <<>> \in Seq(Placements) /\ Len(<<>>) = 0
    BY <1>7, ShortOrders
  <2>2. FoldLeft(BakeJs, Page(half), <<>>) = Page(half)
    <3> DEFINE page == Page(half)
    <3>1. page \in KeptPages
      BY <1>5
    <3> HIDE DEF page
    <3>2. PICK c \in [0 .. Len(<<>>) -> KeptPages] :
            c[0] = page /\ c[Len(<<>>)] = FoldLeft(BakeJs, page, <<>>)
      BY <2>1, <3>1, BakeJsSteps
    <3>3. FoldLeft(BakeJs, page, <<>>) = page
      BY <2>1, <3>2
    <3> QED BY <3>3 DEF page
  <2>3. Newest(Winners(tile.baked \cup D), BakedCap) = tile.baked
    <3>1. tile.baked \cup D = tile.baked
      BY <1>7
    <3>2. /\ tile.baked \in SUBSET Placements /\ OneOfASlot(tile.baked)
          /\ \A y \in tile.baked : Cardinality(NewerKeys(y, tile.baked)) < BakedCap
      BY <1>1 DEF KeptLogs
    <3>3. Winners(tile.baked) = tile.baked
      <4>1. \A y \in Placements : y.sig >= y.sig
        <5>1. \A y \in Placements : y.sig \in 0 .. MaxField
          BY PlacementAssumption
        <5> QED BY <5>1
      <4> QED BY <3>2, <4>1 DEF Winners, OneOfASlot, SlotWins
    <3> QED BY <3>1, <3>2, <3>3 DEF Newest
  <2> QED BY <1>4, <1>5, <1>6, <2>1, <2>2, <2>3
<1>8. CASE D # {}
  <2>1. PICK y \in Placements : D = {y}
    BY <1>3, <1>8
  <2>2. InOrder(D) = <<y>> /\ <<y>> \in Seq(Placements) /\ Len(<<y>>) = 1 /\ <<y>>[1] = y
    BY <2>1, ShortOrders
  <2>3. FoldLeft(BakeJs, Page(half), <<y>>) = BakeJs(Page(half), y)
    <3> DEFINE page == Page(half)
               seq == <<y>>
    <3>1. page \in KeptPages
      BY <1>5
    <3>2. 1 \in 1 .. Len(seq) /\ 1 - 1 = 0 /\ Len(seq) = 1 /\ seq[1] = y
          /\ seq \in Seq(Placements)
      BY <2>2
    <3> HIDE DEF page, seq
    <3>3. PICK c \in [0 .. Len(seq) -> KeptPages] :
            /\ c[0] = page /\ c[Len(seq)] = FoldLeft(BakeJs, page, seq)
            /\ \A k \in 1 .. Len(seq) : c[k] = BakeJs(c[k - 1], seq[k])
      BY <3>1, <3>2, BakeJsSteps
    <3>4. c[1] = BakeJs(c[1 - 1], seq[1])
      BY <3>2, <3>3
    <3>5. FoldLeft(BakeJs, page, seq) = BakeJs(page, y)
      BY <3>2, <3>3, <3>4
    <3> QED BY <3>5 DEF page, seq
  <2>4. BakeJs(Page(half), y) = Page(Bake(half, y)) /\ Bake(half, y) \in KeptTiles
    <3> HIDE DEF half
    <3> QED BY <1>5, BakesAlike
  <2>5. Bake(half, y) = Insert(tile, x)
    BY <1>4, <2>1 DEF Bake, LogInsert
  <2> QED BY <1>6, <2>2, <2>3, <2>4, <2>5
<1> QED BY <1>7, <1>8

\* What a fold of the page's insert goes through.
LEMMA InsertJsSteps ==
  ASSUME NEW page \in KeptPages, NEW seq \in Seq(Placements)
  PROVE  \E c \in [0 .. Len(seq) -> KeptPages] :
           /\ c[0] = page /\ c[Len(seq)] = FoldLeft(InsertJs, page, seq)
           /\ \A k \in 1 .. Len(seq) : c[k] = InsertJs(c[k - 1], seq[k])
<1>1. Ins!Closed
  BY InsertsAlike DEF Ins!Closed, KeptPages
<1> QED BY <1>1, Ins!FoldLeftSteps
        DEF FoldLeft, Ins!FoldLeft, MapThenFoldSet, Ins!MapThenFoldSet, Max, Ins!Max

\* A page that follows a tile from one step to the next follows it all the way.
LEMMA Follows ==
  ASSUME NEW n \in Nat, NEW c \in [0 .. n -> Tiles], NEW g \in [0 .. n -> KeptPages],
         c[0] \in KeptTiles, g[0] = Page(c[0]),
         \A k \in 1 .. n : c[k - 1] \in KeptTiles /\ g[k - 1] = Page(c[k - 1])
                             => c[k] \in KeptTiles /\ g[k] = Page(c[k])
  PROVE  c[n] \in KeptTiles /\ g[n] = Page(c[n])
<1> DEFINE P == {k \in 0 .. n : c[k] \in KeptTiles /\ g[k] = Page(c[k])}
<1>1. 0 \in P
  OBVIOUS
<1>2. ASSUME NEW k \in 1 .. n, k - 1 \in P PROVE k \in P
  BY <1>2
<1> HIDE DEF P
<1>3. \A k \in 0 .. n : k \in P
  BY <1>1, <1>2, I!Upto
<1>4. n \in 0 .. n
  OBVIOUS
<1> QED BY <1>3, <1>4 DEF P

\* A page that takes in placements one by one stays the page of the tile that does.
LEMMA InsertsFollow ==
  ASSUME NEW tile \in KeptTiles, NEW seq \in Seq(Placements)
  PROVE  /\ FoldLeft(InsertJs, Page(tile), seq) = Page(FoldLeft(Insert, tile, seq))
         /\ FoldLeft(Insert, tile, seq) \in KeptTiles
<1> DEFINE n == Len(seq)
<1>0. tile \in Tiles /\ Page(tile) \in KeptPages /\ n \in Nat
  BY DEF KeptTiles, KeptLogs, Tiles, KeptPages
<1>1. PICK c \in [0 .. n -> Tiles] :
        /\ c[0] = tile /\ c[n] = FoldLeft(Insert, tile, seq)
        /\ \A k \in 1 .. n : c[k] = Insert(c[k - 1], seq[k])
  BY <1>0, InsertSteps
<1>2. PICK g \in [0 .. n -> KeptPages] :
        /\ g[0] = Page(tile) /\ g[n] = FoldLeft(InsertJs, Page(tile), seq)
        /\ \A k \in 1 .. n : g[k] = InsertJs(g[k - 1], seq[k])
  BY <1>0, InsertJsSteps
<1>3. ASSUME NEW k \in 1 .. n, c[k - 1] \in KeptTiles, g[k - 1] = Page(c[k - 1])
      PROVE  c[k] \in KeptTiles /\ g[k] = Page(c[k])
  <2>1. seq[k] \in Placements
    OBVIOUS
  <2> QED BY <1>1, <1>2, <1>3, <2>1, InsertsAlike
<1> HIDE DEF n
<1>4. c[n] \in KeptTiles /\ g[n] = Page(c[n])
  BY <1>0, <1>1, <1>2, <1>3, Follows
<1> QED BY <1>1, <1>2, <1>4

\* So does one that bakes them.
LEMMA BakesFollow ==
  ASSUME NEW tile \in KeptTiles, NEW seq \in Seq(Placements)
  PROVE  /\ FoldLeft(BakeJs, Page(tile), seq) = Page(FoldLeft(Bake, tile, seq))
         /\ FoldLeft(Bake, tile, seq) \in KeptTiles
<1> DEFINE n == Len(seq)
<1>0. tile \in Tiles /\ Page(tile) \in KeptPages /\ n \in Nat
  BY DEF KeptTiles, KeptLogs, Tiles, KeptPages
<1>1. PICK c \in [0 .. n -> Tiles] :
        /\ c[0] = tile /\ c[n] = FoldLeft(Bake, tile, seq)
        /\ \A k \in 1 .. n : c[k] = Bake(c[k - 1], seq[k])
  BY <1>0, BakeSteps
<1>2. PICK g \in [0 .. n -> KeptPages] :
        /\ g[0] = Page(tile) /\ g[n] = FoldLeft(BakeJs, Page(tile), seq)
        /\ \A k \in 1 .. n : g[k] = BakeJs(g[k - 1], seq[k])
  BY <1>0, BakeJsSteps
<1>3. ASSUME NEW k \in 1 .. n, c[k - 1] \in KeptTiles, g[k - 1] = Page(c[k - 1])
      PROVE  c[k] \in KeptTiles /\ g[k] = Page(c[k])
  <2>1. seq[k] \in Placements
    OBVIOUS
  <2> QED BY <1>1, <1>2, <1>3, <2>1, BakesAlike
<1> HIDE DEF n
<1>4. c[n] \in KeptTiles /\ g[n] = Page(c[n])
  BY <1>0, <1>1, <1>2, <1>3, Follows
<1> QED BY <1>1, <1>2, <1>4

\* The two layers of a replica are kept logs.
LEMMA ReplicasAreKept ==
  ASSUME NEW S \in SUBSET Placements
  PROVE  NewestTile(S) \in KeptTiles
<1>1. ASSUME NEW R \in SUBSET Placements, NEW c \in Nat PROVE Top(R, c) \in KeptLogs(c)
  <2>1. /\ Top(R, c) \in SUBSET R /\ Top(R, c) \in SUBSET Placements
        /\ Top(R, c) \subseteq Winners(R) /\ OneOfASlot(Winners(R))
    BY TopSubset, WinnersAreAlone DEF Top
  <2>2. ASSUME NEW x \in Top(R, c) PROVE Cardinality(NewerKeys(x, Top(R, c))) < c
    <3>1. Cardinality(NewerKeys(x, R)) < c
      BY DEF Top
    <3>2. /\ Cardinality(NewerKeys(x, Top(R, c))) <= Cardinality(NewerKeys(x, R))
          /\ Cardinality(NewerKeys(x, Top(R, c))) \in Nat
          /\ Cardinality(NewerKeys(x, R)) \in Nat
      BY <2>1, KeysMonotone, KeysFinite
    <3> QED BY <3>1, <3>2
  <2> QED BY <2>1, <2>2 DEF KeptLogs, OneOfASlot
<1>2. Rest(S) \in SUBSET Placements /\ LogCap \in Nat /\ BakedCap \in Nat
  BY TopSubset, CapAssumption DEF Rest
<1>3. Top(S, LogCap) \in KeptLogs(LogCap) /\ Top(Rest(S), BakedCap) \in KeptLogs(BakedCap)
  BY <1>1, <1>2
<1> QED BY <1>3, LayersSplit DEF KeptTiles

\* What a page writes is the tile that it holds.
LEMMA PageBytes ==
  ASSUME NEW tile \in KeptTiles
  PROVE  /\ EncodeTileState(Page(tile)) = Bytes(tile)
         /\ EntriesJs(Page(tile).placements) = tile.live
         /\ EntriesJs(Page(tile).baked) = tile.baked
<1>1. /\ tile.live \in SUBSET Placements /\ OneOfASlot(tile.live)
      /\ tile.baked \in SUBSET Placements /\ OneOfASlot(tile.baked)
  BY DEF KeptTiles, KeptLogs
<1>2. EntriesJs(Logs(tile.live)) = tile.live /\ EntriesJs(Logs(tile.baked)) = tile.baked
  BY <1>1, EntriesOfLogs
<1> QED BY <1>2 DEF EncodeTileState, Page, Bytes

\* Inserts of a tile's live log and bakes of its baked log, by page and by contract.
LEMMA MergesFollow ==
  ASSUME NEW tile \in KeptTiles, NEW other \in KeptTiles
  PROVE  /\ FoldLeft(BakeJs, FoldLeft(InsertJs, Page(tile), InOrder(other.live)),
                     InOrder(other.baked))
              = Page(Merge(tile, other))
         /\ Merge(tile, other) \in KeptTiles
<1> DEFINE live == InOrder(other.live)
           baked == InOrder(other.baked)
           mid == FoldLeft(Insert, tile, live)
<1>1. live \in Seq(Placements) /\ baked \in Seq(Placements)
  <2>1. /\ other.live \in SUBSET Placements /\ OneOfASlot(other.live)
        /\ other.baked \in SUBSET Placements /\ OneOfASlot(other.baked)
    BY DEF KeptTiles, KeptLogs
  <2> QED BY <2>1, InOrderFacts
<1> HIDE DEF live, baked
<1>2. FoldLeft(InsertJs, Page(tile), live) = Page(mid) /\ mid \in KeptTiles
  BY <1>1, InsertsFollow
<1> HIDE DEF mid
<1>3. /\ FoldLeft(BakeJs, Page(mid), baked) = Page(FoldLeft(Bake, mid, baked))
      /\ FoldLeft(Bake, mid, baked) \in KeptTiles
  BY <1>1, <1>2, BakesFollow
<1>4. Merge(tile, other) = FoldLeft(Bake, mid, baked)
  BY DEF Merge, live, baked, mid
<1> QED BY <1>2, <1>3, <1>4 DEF live, baked

\* A page read from a replica holds its two layers.
LEMMA DecodedPage ==
  ASSUME NEW S \in SUBSET Placements
  PROVE  PageOf(NewestTile(S)) = Page(NewestTile(S))
<1> DEFINE tile == NewestTile(S)
<1>1. /\ tile \in KeptTiles /\ EmptyTile \in KeptTiles
      /\ Entries(tile) \in SUBSET Placements
  <2>1. {} \in SUBSET Placements
    OBVIOUS
  <2>2. EmptyTile \in KeptTiles
    BY <2>1, EmptyLayers, ReplicasAreKept
  <2> QED BY <2>2, ReplicasAreKept, LayersFacts
<1>2. NewPage = Page(EmptyTile)
  <2>1. Logs({}) = NoLogs
    BY DEF Logs, NoLogs
  <2> QED BY <2>1 DEF NewPage, Page, EmptyTile
<1>3. Merge(EmptyTile, tile) = tile
  <2>1. Merge(NewestTile({}), NewestTile(S)) = NewestTile({} \cup Entries(NewestTile(S)))
    BY MergeKeepsLayers
  <2>2. {} \cup Entries(NewestTile(S)) = Entries(NewestTile(S))
    OBVIOUS
  <2> QED BY <2>1, <2>2, EmptyLayers, HeldSuffices
<1> HIDE DEF tile
<1>4. FoldLeft(BakeJs, FoldLeft(InsertJs, Page(EmptyTile), InOrder(tile.live)),
               InOrder(tile.baked)) = Page(tile)
  BY <1>1, <1>3, MergesFollow
<1>5. Bytes(tile).placements = InOrder(tile.live) /\ Bytes(tile).baked = InOrder(tile.baked)
  BY DEF Bytes
<1> QED BY <1>2, <1>4, <1>5 DEF PageOf, DecodeTileState, tile

\* What a page puts is what the update would have made, and what it has after a whole
\* state is what the contract would have merged, for all caps and placements.
THEOREM PagesMergeAlike == Spec => []PageMergesAlike
<1>1. ReplicaInv => PageMergesAlike
  <2> SUFFICES ASSUME ReplicaInv, NEW p \in Peers
               PROVE  /\ \A d \in ClientDeltas :
                           MergeTileState(Bytes(state[p]), d) = Bytes(ApplyDelta(state[p], d))
                      /\ \A q \in Peers \ {p} :
                           EncodeTileState(MergeTileInto(PageOf(state[p]), PageOf(state[q])))
                             = Bytes(Merge(state[p], state[q]))
    BY DEF PageMergesAlike
  <2>1. \A q \in Peers :
          state[q] \in KeptTiles /\ DecodeTileState(Bytes(state[q])) = Page(state[q])
    BY ReplicasAreKept, DecodedPage DEF PageOf, ReplicaInv, LayersAreNewest
  <2>2. ASSUME NEW d \in ClientDeltas
        PROVE  MergeTileState(Bytes(state[p]), d) = Bytes(ApplyDelta(state[p], d))
    <3>1. d \in Seq(Placements)
      <4>1. PICK x \in Placements : d = <<x>>
        BY DEF ClientDeltas
      <4> QED BY <4>1
    <3> DEFINE tile == state[p]
    <3> HIDE DEF tile
    <3>2. tile \in KeptTiles /\ DecodeTileState(Bytes(tile)) = Page(tile)
      BY <2>1 DEF tile
    <3>3. /\ FoldLeft(InsertJs, Page(tile), d) = Page(FoldLeft(Insert, tile, d))
          /\ FoldLeft(Insert, tile, d) \in KeptTiles
      BY <3>1, <3>2, InsertsFollow
    <3>4. EncodeTileState(Page(FoldLeft(Insert, tile, d))) = Bytes(FoldLeft(Insert, tile, d))
      BY <3>3, PageBytes
    <3>5. MergeTileState(Bytes(tile), d) = Bytes(ApplyDelta(tile, d))
      BY <3>2, <3>3, <3>4 DEF MergeTileState, ApplyDeltaJs, ApplyDelta
    <3> QED BY <3>5 DEF tile
  <2>3. ASSUME NEW q \in Peers
        PROVE  EncodeTileState(MergeTileInto(PageOf(state[p]), PageOf(state[q])))
                 = Bytes(Merge(state[p], state[q]))
    <3> DEFINE tile == state[p]
               other == state[q]
    <3> HIDE DEF tile, other
    <3>1. /\ tile \in KeptTiles /\ PageOf(tile) = Page(tile)
          /\ other \in KeptTiles /\ PageOf(other) = Page(other)
      BY <2>1 DEF tile, other, PageOf
    <3>2. /\ EntriesJs(Page(other).placements) = other.live
          /\ EntriesJs(Page(other).baked) = other.baked
      BY <3>1, PageBytes
    <3>3. MergeTileInto(PageOf(tile), PageOf(other)) = Page(Merge(tile, other))
          /\ Merge(tile, other) \in KeptTiles
      BY <3>1, <3>2, MergesFollow DEF MergeTileInto
    <3>4. EncodeTileState(Page(Merge(tile, other))) = Bytes(Merge(tile, other))
      BY <3>3, PageBytes
    <3> QED BY <3>3, <3>4 DEF tile, other
  <2> QED BY <2>2, <2>3
<1> QED BY <1>1, NetInvariant, PTL

-----------------------------------------------------------------------------
\* The placements of the authors who have a tier.
Tiered == {x \in Placements : x.author \in DOMAIN Cooldown}

Acs == INSTANCE Folding WITH Op <- AcceptJs, A <- Seq(Tiered), E <- Tiered,
                             Less <- Before

\* Adding the cooldown or subtracting the time is the same.
LEMMA AcceptsAlike ==
  ASSUME NEW chain \in Seq(Tiered), NEW x \in Tiered
  PROVE  AcceptJs(chain, x) = Accept(chain, x) /\ Accept(chain, x) \in Seq(Tiered)
<1>1. \A y \in Tiered : y.ts \in Nat
  <2>1. \A y \in Tiered : y.ts \in 0 .. MaxField
    BY PlacementAssumption DEF Tiered
  <2> QED BY <2>1
<1>2. Cooldown[x.author] \in Nat
  BY CooldownAssumption DEF Tiered
<1>3. chain # <<>> => Last(chain) \in Tiered
  BY DEF Last
<1>4. chain # <<>> => (x.ts - Last(chain).ts >= Cooldown[x.author]
                         <=> x.ts >= Last(chain).ts + Cooldown[x.author])
  BY <1>1, <1>2, <1>3
<1>5. AcceptJs(chain, x) = Accept(chain, x)
  BY <1>4 DEF AcceptJs, Accept
<1> QED BY <1>5 DEF Accept

\* What a fold of the page's filter goes through.
LEMMA AcceptJsSteps ==
  ASSUME NEW seq \in Seq(Tiered)
  PROVE  \E c \in [0 .. Len(seq) -> Seq(Tiered)] :
           /\ c[0] = <<>> /\ c[Len(seq)] = FoldLeft(AcceptJs, <<>>, seq)
           /\ \A k \in 1 .. Len(seq) : c[k] = AcceptJs(c[k - 1], seq[k])
<1>1. Acs!Closed /\ <<>> \in Seq(Tiered)
  BY AcceptsAlike DEF Acs!Closed
<1> QED BY <1>1, Acs!FoldLeftSteps
        DEF FoldLeft, Acs!FoldLeft, MapThenFoldSet, Acs!MapThenFoldSet, Max, Acs!Max

\* So the two filters accept the same of any sequence.
LEMMA ChainsAlike ==
  ASSUME NEW seq \in Seq(Tiered)
  PROVE  /\ FoldLeft(AcceptJs, <<>>, seq) = FoldLeft(Accept, <<>>, seq)
         /\ FoldLeft(Accept, <<>>, seq) \in Seq(Tiered)
<1> DEFINE n == Len(seq)
<1>0. n \in Nat /\ seq \in Seq(Placements)
  BY DEF Tiered
<1>1. PICK c \in [0 .. n -> Seq(Placements)] :
        /\ c[0] = <<>> /\ c[n] = FoldLeft(Accept, <<>>, seq)
        /\ \A k \in 1 .. n : c[k] = Accept(c[k - 1], seq[k])
  BY <1>0, AcceptSteps
<1>2. PICK g \in [0 .. n -> Seq(Tiered)] :
        /\ g[0] = <<>> /\ g[n] = FoldLeft(AcceptJs, <<>>, seq)
        /\ \A k \in 1 .. n : g[k] = AcceptJs(g[k - 1], seq[k])
  BY AcceptJsSteps
<1> DEFINE P == {k \in 0 .. n : c[k] = g[k]}
<1>3. 0 \in P
  BY <1>0, <1>1, <1>2
<1>4. ASSUME NEW k \in 1 .. n, k - 1 \in P PROVE k \in P
  <2>1. seq[k] \in Tiered /\ k \in 0 .. n /\ k - 1 \in 0 .. n
    OBVIOUS
  <2>2. g[k - 1] \in Seq(Tiered) /\ c[k - 1] = g[k - 1]
    BY <1>4, <2>1
  <2>3. AcceptJs(g[k - 1], seq[k]) = Accept(g[k - 1], seq[k])
    BY <2>1, <2>2, AcceptsAlike
  <2> QED BY <1>1, <1>2, <2>1, <2>2, <2>3
<1>5. c[n] = g[n] /\ n \in 0 .. n
  <2> HIDE DEF P, n
  <2>1. \A k \in 0 .. n : k \in P
    BY <1>0, <1>3, <1>4, I!Upto
  <2>2. n \in 0 .. n
    BY <1>0
  <2> QED BY <2>1, <2>2 DEF P
<1> QED BY <1>1, <1>2, <1>5

\* What a replica holds that is not newer than the cutoff.
CutTile(tile, cutoff) ==
  [live  |-> {x \in tile.live : x.ts <= cutoff},
   baked |-> {x \in tile.baked : x.ts <= cutoff}]

\* An author's chain on a page.
LEMMA ChainOnPage ==
  ASSUME NEW S \in SUBSET Placements, NEW a \in DOMAIN Cooldown, NEW cutoff
  PROVE  LET tile == NewestTile(S)
         IN  /\ ValidOfJs(Page(tile), a, cutoff) = Chain(CutTile(tile, cutoff), a)
             /\ Chain(CutTile(tile, cutoff), a) \in Seq(Placements)
             /\ {x \in Entries(CutTile(tile, cutoff)) : x.author = a} = {}
                  => ToSet(Chain(CutTile(tile, cutoff), a)) = {}
<1> DEFINE tile == NewestTile(S)
           Q == {x \in Entries(CutTile(tile, cutoff)) : x.author = a}
<1>1. /\ EntriesJs(Page(tile).placements) = tile.live
      /\ EntriesJs(Page(tile).baked) = tile.baked
  BY ReplicasAreKept, PageBytes
<1>2. Entries(tile) \in SUBSET Placements /\ OneOfASlot(Entries(tile))
  BY LayersFacts
<1> HIDE DEF tile
<1>3. Q = {x \in EntriesJs(Page(tile).baked) \cup EntriesJs(Page(tile).placements) :
             x.author = a /\ x.ts <= cutoff}
  BY <1>1 DEF Entries, CutTile
<1>4. Q \in SUBSET Placements /\ OneOfASlot(Q) /\ Q \subseteq Tiered
  BY <1>2 DEF Entries, CutTile, OneOfASlot, Tiered
<1> HIDE DEF Q
<1>5. InOrder(Q) \in Seq(Tiered)
  <2>1. InOrder(Q) \in Seq(Placements) /\ ToSet(InOrder(Q)) = Q
    BY <1>4, InOrderFacts
  <2> DEFINE s == InOrder(Q)
  <2>2. s \in Seq(Placements) /\ ToSet(s) = Q
    BY <2>1
  <2> HIDE DEF s
  <2>3. \A i \in 1 .. Len(s) : s[i] \in Tiered
    BY <1>4, <2>2 DEF ToSet
  <2>4. s \in Seq(Tiered)
    BY <2>2, <2>3
  <2> QED BY <2>4 DEF s
<1>6. /\ FoldLeft(AcceptJs, <<>>, InOrder(Q)) = FoldLeft(Accept, <<>>, InOrder(Q))
      /\ FoldLeft(Accept, <<>>, InOrder(Q)) \in Seq(Tiered)
  BY <1>5, ChainsAlike
<1>7. Chain(CutTile(tile, cutoff), a) = FoldLeft(Accept, <<>>, InOrder(Q))
  BY DEF Chain, Q
<1>8. ValidOfJs(Page(tile), a, cutoff) = FoldLeft(AcceptJs, <<>>, InOrder(Q))
  BY <1>3 DEF ValidOfJs
<1>9. FoldLeft(Accept, <<>>, InOrder(Q)) \in Seq(Placements)
  BY <1>6 DEF Tiered
<1>10. ASSUME Q = {} PROVE ToSet(FoldLeft(Accept, <<>>, InOrder(Q))) = {}
  <2> DEFINE V == ToSet(FoldLeft(Accept, <<>>, InOrder(Q)))
  <2>1. \A x \in Q : x.author = a
    BY DEF Q
  <2>2. V \subseteq Q
    BY <1>4, <2>1, ChainIsGreedy
  <2> QED BY <1>10, <2>2
<1> QED BY <1>6, <1>7, <1>8, <1>9, <1>10 DEF tile, Q

-----------------------------------------------------------------------------
Pus == INSTANCE Folding WITH Op <- PushAll, A <- Seq(Placements), E <- Seq(Placements),
                             Less <- Before

\* All chains, pushed one after the other.
LEMMA AllPushed ==
  ASSUME NEW cs \in Seq(Seq(Placements))
  PROVE  /\ FoldLeft(PushAll, <<>>, cs) \in Seq(Placements)
         /\ ToSet(FoldLeft(PushAll, <<>>, cs)) = UNION {ToSet(cs[i]) : i \in 1 .. Len(cs)}
<1> DEFINE n == Len(cs)
<1>0. n \in Nat
  OBVIOUS
<1>1. Pus!Closed /\ <<>> \in Seq(Placements)
  BY DEF Pus!Closed, PushAll
<1>2. PICK c \in [0 .. n -> Seq(Placements)] :
        /\ c[0] = <<>> /\ c[n] = FoldLeft(PushAll, <<>>, cs)
        /\ \A k \in 1 .. n : c[k] = PushAll(c[k - 1], cs[k])
  BY <1>1, Pus!FoldLeftSteps
     DEF FoldLeft, Pus!FoldLeft, MapThenFoldSet, Pus!MapThenFoldSet, Max, Pus!Max
<1> DEFINE U(k) == UNION {ToSet(cs[i]) : i \in 1 .. k}
           P == {k \in 0 .. n : ToSet(c[k]) = U(k)}
<1>3. 0 \in P
  <2>1. ToSet(<<>>) = {} /\ U(0) = {} /\ 0 \in 0 .. n
    BY <1>0 DEF ToSet
  <2> QED BY <1>2, <2>1
<1>4. ASSUME NEW k \in 1 .. n, k - 1 \in P PROVE k \in P
  <2>1. /\ k \in 0 .. n /\ k - 1 \in 0 .. n /\ 1 .. k = (1 .. (k - 1)) \cup {k}
        /\ cs[k] \in Seq(Placements)
    BY <1>0
  <2>2. U(k) = U(k - 1) \cup ToSet(cs[k])
    BY <2>1
  <2>3. c[k] = c[k - 1] \o cs[k] /\ c[k - 1] \in Seq(Placements)
    BY <1>2, <2>1 DEF PushAll
  <2>4. ToSet(c[k]) = ToSet(c[k - 1]) \cup ToSet(cs[k])
    BY <2>1, <2>3, ToSetOfBoth
  <2>5. ToSet(c[k - 1]) = U(k - 1)
    BY <1>4
  <2> HIDE DEF U
  <2> QED BY <2>1, <2>2, <2>4, <2>5
<1>5. ToSet(c[n]) = U(n) /\ c[n] \in Seq(Placements)
  <2> HIDE DEF P, n
  <2>1. \A k \in 0 .. n : k \in P
    BY <1>0, <1>3, <1>4, I!Upto
  <2>2. n \in 0 .. n
    BY <1>0
  <2> QED BY <2>1, <2>2 DEF P
<1> QED BY <1>2, <1>5

Aus == INSTANCE Folding WITH Op <- PushAll, A <- Seq(Placements), E <- Seq(Placements),
                             Less <- KeyBefore

\* The authors of a page who have a tier.
LEMMA PageAuthors ==
  ASSUME NEW tile \in KeptTiles
  PROVE  LET s == AuthorsJs(Page(tile))
         IN  /\ Len(s) \in Nat /\ DOMAIN s = 1 .. Len(s)
             /\ {s[i] : i \in 1 .. Len(s)}
                  = {x.author : x \in Entries(tile)} \cap DOMAIN Cooldown
<1> DEFINE all == {x.author : x \in Entries(tile)}
           T == all \cap DOMAIN Cooldown
           s == AuthorsJs(Page(tile))
<1>1. IsFiniteSet(T) /\ T \subseteq Nat
  <2>1. Entries(tile) \in SUBSET Placements /\ IsFiniteSet(Entries(tile))
    <3>1. Entries(tile) \in SUBSET Placements
      BY DEF KeptTiles, KeptLogs, Entries
    <3> QED BY <3>1, PlacementAssumption, FS_Subset
  <2>2. IsFiniteSet(all)
    <3> DEFINE f == [x \in Entries(tile) |-> x.author]
    <3>1. f \in Surjection(Entries(tile), all)
      BY DEF Surjection
    <3> HIDE DEF f, all
    <3> QED BY <2>1, <3>1, FS_Surjection
  <2> QED BY <2>2, FS_Subset, CooldownAssumption, PlacementAssumption
<1>2. (DOMAIN Page(tile).placements \cup DOMAIN Page(tile).baked) = all
  BY DEF Page, Logs, Entries
<1> HIDE DEF all
<1>3. s = Aus!Sorted(T)
  <2>1. s = Sort(T)
    BY <1>2 DEF AuthorsJs
  <2>2. \A R : Sort(R) = Aus!Sorted(R)
    BY DEF Sort, Aus!Sorted, Aus!Below, Cardinality, Aus!Cardinality
  <2> QED BY <2>1, <2>2
<1>4. Aus!StrictOrder(T)
  BY <1>1 DEF Aus!StrictOrder, KeyBefore
<1>5. Aus!IsFiniteSet(T)
  BY <1>1 DEF IsFiniteSet, Aus!IsFiniteSet
<1> HIDE DEF s, T
<1>6. s \in Seq(T) /\ \A a \in T : \E i \in 1 .. Len(s) : s[i] = a
  BY <1>3, <1>4, <1>5, Aus!SortedSeq
<1>7. Len(s) \in Nat /\ DOMAIN s = 1 .. Len(s) /\ \A i \in 1 .. Len(s) : s[i] \in T
  BY <1>6
<1>8. {s[i] : i \in 1 .. Len(s)} = T
  BY <1>6, <1>7
<1> QED BY <1>7, <1>8 DEF s, T, all

\* A page's valid placements are the contract's.
LEMMA ValidAlike ==
  ASSUME NEW S \in SUBSET Placements, NEW cutoff
  PROVE  LET tile == NewestTile(S)
             js == ValidPlacementsJs(Page(tile), cutoff)
         IN  /\ js \in Seq(Placements)
             /\ ToSet(js) = ValidPlacements(CutTile(tile, cutoff))
<1> DEFINE tile == NewestTile(S)
           page == Page(tile)
           s == AuthorsJs(page)
           cs == [i \in DOMAIN s |-> ValidOfJs(page, s[i], cutoff)]
           V(a) == ToSet(Chain(CutTile(tile, cutoff), a))
           T == {x.author : x \in Entries(tile)} \cap DOMAIN Cooldown
<1>1. Len(s) \in Nat /\ DOMAIN s = 1 .. Len(s) /\ {s[i] : i \in 1 .. Len(s)} = T
  BY ReplicasAreKept, PageAuthors
<1>2. ASSUME NEW a \in DOMAIN Cooldown
      PROVE  /\ ToSet(ValidOfJs(page, a, cutoff)) = V(a)
             /\ ValidOfJs(page, a, cutoff) \in Seq(Placements)
             /\ a \notin T => V(a) = {}
  <2>1. /\ ValidOfJs(page, a, cutoff) = Chain(CutTile(tile, cutoff), a)
        /\ Chain(CutTile(tile, cutoff), a) \in Seq(Placements)
        /\ {x \in Entries(CutTile(tile, cutoff)) : x.author = a} = {} => V(a) = {}
    BY ChainOnPage
  <2>2. a \notin T => {x \in Entries(CutTile(tile, cutoff)) : x.author = a} = {}
    <3> HIDE DEF tile
    <3> QED BY DEF Entries, CutTile
  <2> QED BY <2>1, <2>2
<1>3. ValidPlacementsJs(page, cutoff) = FoldLeft(PushAll, <<>>, cs)
  BY DEF ValidPlacementsJs
<1>4. T \subseteq DOMAIN Cooldown
  OBVIOUS
<1>5. ValidPlacements(CutTile(tile, cutoff)) = UNION {V(a) : a \in DOMAIN Cooldown}
  BY DEF ValidPlacements
<1> HIDE DEF tile, page, s, V, T
<1>6. ASSUME NEW i \in 1 .. Len(s)
      PROVE  s[i] \in T /\ cs[i] \in Seq(Placements) /\ ToSet(cs[i]) = V(s[i])
  BY <1>1, <1>2, <1>4
<1>7. DOMAIN cs = 1 .. Len(s)
  BY <1>1
<1> HIDE DEF cs
<1>8. cs \in Seq(Seq(Placements)) /\ Len(cs) = Len(s)
  <2>1. cs = [i \in 1 .. Len(s) |-> cs[i]]
    BY <1>7 DEF cs
  <2>2. cs \in [1 .. Len(s) -> Seq(Placements)]
    BY <1>6, <2>1
  <2> QED BY <1>1, <2>2
<1>9. UNION {ToSet(cs[i]) : i \in 1 .. Len(cs)} = UNION {V(a) : a \in T}
  BY <1>1, <1>6, <1>8
<1>10. UNION {V(a) : a \in T} = UNION {V(a) : a \in DOMAIN Cooldown}
  BY <1>2, <1>4
<1> QED BY <1>3, <1>5, <1>8, <1>9, <1>10, AllPushed DEF tile, page

-----------------------------------------------------------------------------
\* The maps of winners.
Boards == UNION {[K -> Placements] : K \in SUBSET {x.coord : x \in Placements}}

Ovs == INSTANCE Folding WITH Op <- Overwrite, A <- Boards, E <- Placements,
                             Less <- Before

\* What the fold over the valid placements goes through.
LEMMA OverwriteSteps ==
  ASSUME NEW seq \in Seq(Placements)
  PROVE  \E c \in [0 .. Len(seq) -> Boards] :
           /\ c[0] = [k \in {} |-> k] /\ c[Len(seq)] = FoldLeft(Overwrite, [k \in {} |-> k], seq)
           /\ \A k \in 1 .. Len(seq) : c[k] = Overwrite(c[k - 1], seq[k])
<1>1. ASSUME NEW w \in Boards, NEW x \in Placements PROVE Overwrite(w, x) \in Boards
  <2>1. PICK K \in SUBSET {y.coord : y \in Placements} : w \in [K -> Placements]
    BY DEF Boards
  <2>2. MapSet(w, x.coord, x) \in [K \cup {x.coord} -> Placements]
    BY <2>1 DEF MapSet
  <2>3. K \cup {x.coord} \in SUBSET {y.coord : y \in Placements}
    OBVIOUS
  <2>4. MapSet(w, x.coord, x) \in Boards
    BY <2>2, <2>3 DEF Boards
  <2> QED BY <2>4 DEF Overwrite
<1>2. Ovs!Closed
  BY <1>1 DEF Ovs!Closed
<1>3. [k \in {} |-> k] \in Boards
  <2>1. [k \in {} |-> k] \in [{} -> Placements]
    OBVIOUS
  <2> QED BY <2>1 DEF Boards
<1> QED BY <1>2, <1>3, Ovs!FoldLeftSteps
        DEF FoldLeft, Ovs!FoldLeft, MapThenFoldSet, Ovs!MapThenFoldSet, Max, Ovs!Max

\* The last writer of two placements, a total order.
LEMMA WriterOrder ==
  /\ \A x, y \in Placements : x = y \/ LwwGreater(x, y) \/ LwwGreater(y, x)
  /\ \A x \in Placements : ~LwwGreater(x, x)
  /\ \A x, y, z \in Placements :
       LwwGreater(x, y) /\ ~LwwGreater(z, y) => ~LwwGreater(z, x)
  /\ \A x \in Placements, V \in SUBSET Placements :
       LastWriter(x, V) <=> \A y \in V : y.coord = x.coord => ~LwwGreater(y, x)
<1>1. ASSUME NEW x \in Placements
      PROVE  x.ts \in Nat /\ x.author \in Nat /\ x.sig \in Nat
  <2>1. /\ x.author \in Authors /\ Authors \subseteq Nat
        /\ x.ts \in 0 .. MaxField /\ x.sig \in 0 .. MaxField
    BY PlacementAssumption
  <2>2. x.author \in Nat
    BY <2>1
  <2>3. x.ts \in Nat /\ x.sig \in Nat
    BY <2>1
  <2> QED BY <2>2, <2>3
<1>2. ASSUME NEW x \in Placements, NEW y \in Placements,
             ~LwwGreater(x, y), ~LwwGreater(y, x)
      PROVE  x = y
  <2>1. x.ts = y.ts /\ x.author = y.author /\ x.sig = y.sig
    BY <1>1, <1>2 DEF LwwGreater
  <2> QED BY <2>1, PlacementAssumption
<1>3. \A x \in Placements : ~LwwGreater(x, x)
  BY <1>1 DEF LwwGreater
<1>4. \A x, y, z \in Placements :
        LwwGreater(x, y) /\ ~LwwGreater(z, y) => ~LwwGreater(z, x)
  BY <1>1 DEF LwwGreater
<1>5. \A x \in Placements, V \in SUBSET Placements :
        LastWriter(x, V) <=> \A y \in V : y.coord = x.coord => ~LwwGreater(y, x)
  <2> SUFFICES ASSUME NEW x \in Placements, NEW y \in Placements
               PROVE  ~LwwGreater(y, x) <=>
                        \/ x.ts > y.ts
                        \/ x.ts = y.ts /\ x.author > y.author
                        \/ x.ts = y.ts /\ x.author = y.author /\ x.sig >= y.sig
    BY DEF LastWriter
  <2> QED BY <1>1 DEF LwwGreater
<1> QED BY <1>2, <1>3, <1>4, <1>5

\* The board after some placements: at each of their coordinates, one that no other is
\* greater than.
Winning(w, V) ==
  /\ DOMAIN w = {x.coord : x \in V}
  /\ \A k \in DOMAIN w : w[k] \in V /\ w[k].coord = k
  /\ \A y \in V : ~LwwGreater(y, w[y.coord])

LEMMA OverwriteWins ==
  ASSUME NEW V \in SUBSET Placements, NEW w, Winning(w, V), NEW x \in Placements
  PROVE  Winning(Overwrite(w, x), V \cup {x})
<1> DEFINE k == x.coord
           put == MapSet(w, k, x)
<1>1. /\ DOMAIN w = {y.coord : y \in V}
      /\ \A l \in DOMAIN w : w[l] \in V /\ w[l].coord = l
      /\ \A y \in V : ~LwwGreater(y, w[y.coord]) /\ y.coord \in DOMAIN w
  BY DEF Winning
<1>2. CASE k \notin DOMAIN w \/ LwwGreater(x, w[k])
  <2>1. Overwrite(w, x) = put
    BY <1>2 DEF Overwrite
  <2>2. /\ DOMAIN put = DOMAIN w \cup {k} /\ put[k] = x
        /\ \A l \in DOMAIN w : l # k => put[l] = w[l]
    BY DEF MapSet
  <2> HIDE DEF put
  <2>3. DOMAIN put = {y.coord : y \in V \cup {x}}
    BY <1>1, <2>2
  <2>4. \A l \in DOMAIN put : put[l] \in V \cup {x} /\ put[l].coord = l
    BY <1>1, <2>2
  <2>5. ASSUME NEW y \in V \cup {x} PROVE ~LwwGreater(y, put[y.coord])
    <3>1. CASE y = x
      BY <2>2, <3>1, WriterOrder
    <3>2. CASE y \in V /\ y.coord # k
      BY <1>1, <2>2, <3>2
    <3>3. CASE y \in V /\ y.coord = k
      <4>1. /\ k \in DOMAIN w /\ ~LwwGreater(y, w[k]) /\ w[k] \in Placements
            /\ LwwGreater(x, w[k])
        BY <1>1, <1>2, <3>3
      <4>2. ~LwwGreater(y, x)
        BY <3>3, <4>1, WriterOrder
      <4> QED BY <2>2, <3>3, <4>2
    <3> QED BY <3>1, <3>2, <3>3
  <2> QED BY <2>1, <2>3, <2>4, <2>5 DEF Winning
<1>3. CASE ~(k \notin DOMAIN w \/ LwwGreater(x, w[k]))
  <2>1. Overwrite(w, x) = w
    BY <1>3 DEF Overwrite
  <2>2. {y.coord : y \in V \cup {x}} = DOMAIN w
    BY <1>1, <1>3
  <2> QED BY <1>1, <1>3, <2>1, <2>2 DEF Winning
<1> QED BY <1>2, <1>3

\* The board at the end: the last writers.
LEMMA LastWriters ==
  ASSUME NEW V \in SUBSET Placements, NEW w, Winning(w, V)
  PROVE  {w[k] : k \in DOMAIN w} = {x \in V : LastWriter(x, V)}
<1>1. /\ DOMAIN w = {y.coord : y \in V}
      /\ \A k \in DOMAIN w : w[k] \in V /\ w[k].coord = k
      /\ \A y \in V : ~LwwGreater(y, w[y.coord]) /\ y.coord \in DOMAIN w
  BY DEF Winning
<1>2. ASSUME NEW k \in DOMAIN w PROVE w[k] \in V /\ LastWriter(w[k], V)
  BY <1>1, WriterOrder
<1>3. ASSUME NEW x \in V, LastWriter(x, V) PROVE w[x.coord] = x
  <2>1. w[x.coord] \in V /\ w[x.coord].coord = x.coord /\ x \in Placements
    BY <1>1
  <2>2. ~LwwGreater(w[x.coord], x) /\ ~LwwGreater(x, w[x.coord])
    BY <1>1, <1>3, <2>1, WriterOrder
  <2> QED BY <2>1, <2>2, WriterOrder
<1> QED BY <1>1, <1>2, <1>3

\* One placement after the other, the board keeps the winners.
LEMMA FoldWins ==
  ASSUME NEW seq \in Seq(Placements)
  PROVE  Winning(FoldLeft(Overwrite, [k \in {} |-> k], seq), ToSet(seq))
<1> DEFINE n == Len(seq)
           T(k) == {seq[i] : i \in 1 .. k}
<1>0. n \in Nat
  OBVIOUS
<1>1. PICK c \in [0 .. n -> Boards] :
        /\ c[0] = [k \in {} |-> k] /\ c[n] = FoldLeft(Overwrite, [k \in {} |-> k], seq)
        /\ \A k \in 1 .. n : c[k] = Overwrite(c[k - 1], seq[k])
  BY OverwriteSteps
<1> DEFINE P == {k \in 0 .. n : Winning(c[k], T(k))}
<1>2. 0 \in P
  <2>1. T(0) = {} /\ 0 \in 0 .. n
    BY <1>0
  <2>2. Winning([k \in {} |-> k], {})
    BY DEF Winning
  <2> HIDE DEF T
  <2> QED BY <1>1, <2>1, <2>2
<1>3. ASSUME NEW k \in 1 .. n, k - 1 \in P PROVE k \in P
  <2>1. T(k) = T(k - 1) \cup {seq[k]} /\ k \in 0 .. n /\ k - 1 \in 0 .. n
    <3>1. 1 .. k = (1 .. (k - 1)) \cup {k}
      BY <1>0
    <3> QED BY <1>0, <3>1
  <2>2. seq[k] \in Placements /\ T(k - 1) \in SUBSET Placements
    BY <1>0
  <2> HIDE DEF T
  <2>3. Winning(c[k - 1], T(k - 1))
    BY <1>3
  <2>4. Winning(Overwrite(c[k - 1], seq[k]), T(k - 1) \cup {seq[k]})
    BY <2>2, <2>3, OverwriteWins
  <2> QED BY <1>1, <2>1, <2>4
<1>4. Winning(c[n], T(n))
  <2> HIDE DEF P, n
  <2>1. \A k \in 0 .. n : k \in P
    BY <1>0, <1>2, <1>3, I!Upto
  <2>2. n \in 0 .. n
    BY <1>0
  <2> QED BY <2>1, <2>2 DEF P
<1>5. T(n) = ToSet(seq)
  BY DEF ToSet
<1> QED BY <1>1, <1>4, <1>5

\* A page that has read a replica shows what the contract's crate would derive of it,
\* at any cutoff, for all cooldowns and caps.
THEOREM PagesShowCanvas == Spec => []PageShowsCanvas
<1>1. ReplicaInv => PageShowsCanvas
  <2> SUFFICES ASSUME ReplicaInv, NEW p \in Peers, NEW cutoff \in 0 .. MaxField
               PROVE  LET winners == DeriveWinners(PageOf(state[p]), cutoff)
                      IN  {winners[c] : c \in DOMAIN winners}
                            = DeriveCanvas(CutTile(state[p], cutoff))
    BY DEF PageShowsCanvas, CutTile
  <2> DEFINE tile == NewestTile(heard[p])
             js == ValidPlacementsJs(Page(tile), cutoff)
             V == ValidPlacements(CutTile(tile, cutoff))
             winners == DeriveWinners(Page(tile), cutoff)
  <2>1. heard[p] \in SUBSET Placements /\ state[p] = tile
    BY DEF ReplicaInv, LayersAreNewest
  <2>2. js \in Seq(Placements) /\ ToSet(js) = V
    BY <2>1, ValidAlike
  <2>3. winners = FoldLeft(Overwrite, [c \in {} |-> c], js)
    BY DEF DeriveWinners
  <2>4. PageOf(state[p]) = Page(tile)
    BY <2>1, DecodedPage
  <2>5. DeriveCanvas(CutTile(state[p], cutoff)) = {x \in V : LastWriter(x, V)}
    BY <2>1 DEF DeriveCanvas
  <2>6. V \in SUBSET Placements
    <3> HIDE DEF js, V
    <3> QED BY <2>2 DEF ToSet
  <2> HIDE DEF js, V, tile
  <2>7. Winning(winners, V)
    BY <2>2, <2>3, FoldWins
  <2> HIDE DEF winners
  <2>8. {winners[c] : c \in DOMAIN winners} = {x \in V : LastWriter(x, V)}
    BY <2>6, <2>7, LastWriters
  <2> QED BY <2>4, <2>5, <2>8 DEF winners
<1> QED BY <1>1, NetInvariant, PTL
=============================================================================
