------------------------------ MODULE Folding -------------------------------
(***************************************************************************)
(* Facts about the two ways in which the contracts walk a set of entries:  *)
(* in the order of a map's keys (Sorted), and one after the other with an  *)
(* operation that takes what came before (FoldLeft of SequencesExt).       *)
(* Induction is by the least counterexample, on sets of numbers (Upto).    *)
(*                                                                         *)
(* The proofs about a component instantiate the module with its operation  *)
(* Op, from A and E to A, and with the order Less of its entries.          *)
(***************************************************************************)
EXTENDS Integers, Sequences, SequencesExt, FiniteSetTheorems,
        WellFoundedInduction, TLAPS

CONSTANTS Op(_, _), A, E, Less(_, _)

Closed == \A t \in A, e \in E : Op(t, e) \in A

\* Every nonempty set of numbers has a least element.
LEMMA Least ==
  ASSUME NEW T \in SUBSET Nat, T # {}
  PROVE  \E n \in T : \A m \in T : n <= m
<1> DEFINE R == OpToRel(<, Nat)
<1>1. R = {p \in Nat \X Nat : p[1] < p[2]}
  BY DEF OpToRel
<1>2. IsWellFoundedOn(R, Nat)
  BY NatLessThanWellFounded
<1>3. \A m, n \in Nat : <<m, n>> \in R <=> m < n
  BY <1>1
<1> HIDE DEF R
<1>4. PICK n \in T : \A m \in T : ~(<<m, n>> \in R)
  BY <1>2, WFMin
<1>5. ASSUME NEW m \in T PROVE n <= m
  <2>1. m \in Nat /\ n \in Nat
    OBVIOUS
  <2>2. ~(m < n)
    BY <1>3, <1>4, <2>1
  <2> QED BY <2>1, <2>2
<1> QED BY <1>5

\* Induction up to n: what holds of 0, and of each number if of the one before.
LEMMA Upto ==
  ASSUME NEW n \in Nat, NEW P, 0 \in P, \A k \in 1 .. n : k - 1 \in P => k \in P
  PROVE  \A k \in 0 .. n : k \in P
<1> SUFFICES ASSUME (0 .. n) \ P # {} PROVE FALSE
  OBVIOUS
<1>1. (0 .. n) \ P \in SUBSET Nat
  OBVIOUS
<1>2. PICK k \in (0 .. n) \ P : \A m \in (0 .. n) \ P : k <= m
  BY <1>1, Least
<1>0. k \in 0 .. n /\ k \notin P /\ k # 0
  OBVIOUS
<1>3. k \in 1 .. n /\ k - 1 \in 0 .. n /\ ~(k <= k - 1)
  BY <1>0
<1>4. k - 1 \in P
  BY <1>2, <1>3
<1> QED BY <1>2, <1>3, <1>4

\* The greatest of some numbers up to n.
LEMMA MaxUpto ==
  ASSUME NEW n \in Nat, NEW s \in SUBSET (1 .. n), s # {}
  PROVE  Max(s) \in s /\ \A m \in s : m <= Max(s)
<1> DEFINE U == {n - m : m \in s}
<1>1. U \in SUBSET Nat /\ U # {}
  <2>1. \A m \in s : m \in Nat /\ m <= n /\ n - m \in Nat
    OBVIOUS
  <2> QED BY <2>1
<1>2. PICK u \in U : \A v \in U : u <= v
  BY <1>1, Least
<1>3. PICK x \in s : u = n - x
  BY <1>2
<1>4. \A m \in s : x >= m
  <2> SUFFICES ASSUME NEW m \in s PROVE x >= m
    OBVIOUS
  <2>1. n - m \in U
    OBVIOUS
  <2> QED BY <1>2, <1>3, <2>1
<1>5. PICK z \in s : \A m \in s : z >= m
  BY <1>4
<1>6. Max(s) = CHOOSE y \in s : \A m \in s : y >= m
  BY DEF Max
<1>7. Max(s) \in s /\ \A m \in s : Max(s) >= m
  BY <1>5, <1>6
<1>8. \A m \in s : m \in Nat
  OBVIOUS
<1> QED BY <1>7, <1>8

\* A fold over the subsets of 1 .. n that takes the greatest element last is defined:
\* g[k] is what the k-th element does.
Folds(h, n, base, g) ==
  \A s \in SUBSET (1 .. n) : h[s] = IF s = {} THEN base ELSE g[Max(s)][h[s \ {Max(s)}]]

LEMMA FoldExists ==
  ASSUME NEW n \in Nat, NEW T, NEW base \in T, NEW g \in [1 .. n -> [T -> T]]
  PROVE  \E h \in [SUBSET (1 .. n) -> T] : Folds(h, n, base, g)
<1> DEFINE P == {m \in 0 .. n : \E h \in [SUBSET (1 .. m) -> T] : Folds(h, m, base, g)}
<1>1. 0 \in P
  <2> DEFINE h == [s \in SUBSET (1 .. 0) |-> base]
  <2>1. 1 .. 0 = {} /\ SUBSET (1 .. 0) = {{}}
    OBVIOUS
  <2>2. h \in [SUBSET (1 .. 0) -> T] /\ Folds(h, 0, base, g)
    BY <2>1 DEF Folds
  <2> HIDE DEF h
  <2>3. 0 \in 0 .. n
    OBVIOUS
  <2> QED BY <2>2, <2>3
<1>2. ASSUME NEW m \in 1 .. n, m - 1 \in P PROVE m \in P
  <2>1. PICK f \in [SUBSET (1 .. (m - 1)) -> T] : Folds(f, m - 1, base, g)
    BY <1>2
  <2> DEFINE h == [s \in SUBSET (1 .. m) |->
                     IF m \in s THEN g[m][f[s \ {m}]] ELSE f[s]]
  <2>2. \A s \in SUBSET (1 .. m) : s \ {m} \in SUBSET (1 .. (m - 1))
    OBVIOUS
  <2>3. \A s \in SUBSET (1 .. (m - 1)) : s \in SUBSET (1 .. m) /\ m \notin s /\ h[s] = f[s]
    OBVIOUS
  <2>4. h \in [SUBSET (1 .. m) -> T]
    <3> SUFFICES ASSUME NEW s \in SUBSET (1 .. m)
                 PROVE  (IF m \in s THEN g[m][f[s \ {m}]] ELSE f[s]) \in T
      OBVIOUS
    <3>1. CASE m \in s
      BY <2>2, <3>1
    <3>2. CASE m \notin s
      <4>1. s = s \ {m}
        BY <3>2
      <4>2. s \in SUBSET (1 .. (m - 1))
        BY <2>2, <4>1
      <4> QED BY <3>2, <4>2
    <3> QED BY <3>1, <3>2
  <2>5. ASSUME NEW s \in SUBSET (1 .. m)
        PROVE  h[s] = IF s = {} THEN base ELSE g[Max(s)][h[s \ {Max(s)}]]
    <3>1. CASE m \in s
      <4>1. Max(s) \in s /\ \A k \in s : k <= Max(s)
        <5>1. m \in Nat /\ s # {}
          BY <3>1
        <5> QED BY <5>1, MaxUpto
      <4>2. Max(s) = m
        <5>1. Max(s) \in 1 .. m /\ m <= Max(s)
          BY <3>1, <4>1
        <5> QED BY <5>1
      <4>3. h[s] = g[m][f[s \ {m}]] /\ h[s \ {m}] = f[s \ {m}]
        BY <2>2, <2>3, <3>1
      <4> HIDE DEF h
      <4> QED BY <3>1, <4>2, <4>3
    <3>2. CASE m \notin s
      <4>1. s = s \ {m}
        BY <3>2
      <4>2. s \in SUBSET (1 .. (m - 1)) /\ s \ {Max(s)} \in SUBSET (1 .. (m - 1))
        BY <2>2, <4>1
      <4>3. h[s] = f[s] /\ h[s \ {Max(s)}] = f[s \ {Max(s)}]
        BY <2>3, <4>2
      <4>4. f[s] = IF s = {} THEN base ELSE g[Max(s)][f[s \ {Max(s)}]]
        BY <2>1, <4>2 DEF Folds
      <4> HIDE DEF h
      <4> QED BY <4>3, <4>4
    <3> QED BY <3>1, <3>2
  <2> HIDE DEF h
  <2>6. Folds(h, m, base, g)
    BY <2>5 DEF Folds
  <2>7. m \in 0 .. n
    OBVIOUS
  <2> QED BY <2>4, <2>6, <2>7
<1> HIDE DEF P
<1>3. \A m \in 0 .. n : m \in P
  BY <1>1, <1>2, Upto
<1>4. n \in 0 .. n
  OBVIOUS
<1> QED BY <1>3, <1>4 DEF P

\* The numbers up to k are k, the greatest, and those up to k - 1.
LEMMA Prefix ==
  ASSUME NEW n \in Nat, NEW k \in 1 .. n
  PROVE  /\ 1 .. k \in SUBSET (1 .. n) /\ 1 .. k # {}
         /\ Max(1 .. k) = k /\ (1 .. k) \ {k} = 1 .. (k - 1)
         /\ k \in 0 .. n /\ k - 1 \in 0 .. n
<1>1. 1 .. k \in SUBSET (1 .. n) /\ k \in 1 .. k
  OBVIOUS
<1>2. Max(1 .. k) \in 1 .. k /\ k <= Max(1 .. k)
  BY <1>1, MaxUpto
<1> QED BY <1>1, <1>2


\* What FoldLeft does, step by step.
LEMMA FoldLeftSteps ==
  ASSUME NEW base \in A, NEW seq \in Seq(E), Closed
  PROVE  \E c \in [0 .. Len(seq) -> A] :
           /\ c[0] = base /\ c[Len(seq)] = FoldLeft(Op, base, seq)
           /\ \A k \in 1 .. Len(seq) : c[k] = Op(c[k - 1], seq[k])
<1> DEFINE n == Len(seq)
           g == [k \in 1 .. n |-> [t \in A |-> Op(t, seq[k])]]
           eq(f) == f = [s \in SUBSET DOMAIN seq |->
                           IF s = {} THEN base
                           ELSE Op(f[s \ {Max(s)}], seq[Max(s)])]
<1>1. n \in Nat /\ DOMAIN seq = 1 .. n /\ \A k \in 1 .. n : seq[k] \in E
  OBVIOUS
<1> HIDE DEF n
<1>2. g \in [1 .. n -> [A -> A]] /\ \A k \in 1 .. n, t \in A : g[k][t] = Op(t, seq[k])
  BY <1>1 DEF Closed
<1> HIDE DEF g
<1>3. PICK h \in [SUBSET (1 .. n) -> A] : Folds(h, n, base, g)
  BY <1>1, <1>2, FoldExists
<1>4. ASSUME NEW s \in SUBSET (1 .. n), s # {}
      PROVE  h[s] = Op(h[s \ {Max(s)}], seq[Max(s)])
  <2>1. Max(s) \in 1 .. n
    BY <1>1, <1>4, MaxUpto
  <2>2. h[s] = g[Max(s)][h[s \ {Max(s)}]]
    BY <1>3, <1>4 DEF Folds
  <2>3. h[s \ {Max(s)}] \in A
    OBVIOUS
  <2> QED BY <1>2, <2>1, <2>2, <2>3
<1>5. h[{}] = base
  BY <1>3 DEF Folds
<1>6. eq(h)
  BY <1>1, <1>4, <1>5
<1> DEFINE iter == CHOOSE f : eq(f)
<1>7. eq(iter)
  BY <1>6
<1>8. FoldLeft(Op, base, seq) = iter[DOMAIN seq]
  BY DEF FoldLeft, MapThenFoldSet
<1> HIDE DEF iter
<1>9. /\ iter[{}] = base
      /\ \A s \in SUBSET (1 .. n) : s # {} => iter[s] = Op(iter[s \ {Max(s)}], seq[Max(s)])
  BY <1>1, <1>7
<1> DEFINE c == [k \in 0 .. n |-> iter[1 .. k]]
<1>10. c[0] = base /\ c[n] = FoldLeft(Op, base, seq)
  <2>1. 1 .. 0 = {} /\ 0 \in 0 .. n /\ n \in 0 .. n
    BY <1>1
  <2> QED BY <1>1, <1>8, <1>9, <2>1
<1>11. ASSUME NEW k \in 1 .. n PROVE c[k] = Op(c[k - 1], seq[k])
  <2>1. /\ 1 .. k \in SUBSET (1 .. n) /\ 1 .. k # {}
        /\ Max(1 .. k) = k /\ (1 .. k) \ {k} = 1 .. (k - 1)
        /\ k \in 0 .. n /\ k - 1 \in 0 .. n
    BY <1>1, Prefix
  <2>2. iter[1 .. k] = Op(iter[1 .. (k - 1)], seq[k])
    BY <1>9, <2>1
  <2> QED BY <2>1, <2>2
<1>12. \A k \in 0 .. n : c[k] \in A
  <2> DEFINE P == {k \in 0 .. n : c[k] \in A}
  <2> HIDE DEF c
  <2>1. 0 \in P
    BY <1>1, <1>10
  <2>2. ASSUME NEW k \in 1 .. n, k - 1 \in P PROVE k \in P
    BY <1>1, <1>11, <2>2 DEF Closed
  <2>3. \A k \in 0 .. n : k \in P
    <3> HIDE DEF P
    <3> QED BY <1>1, <2>1, <2>2, Upto
  <2> QED BY <2>3
<1>13. c \in [0 .. n -> A]
  BY <1>12
<1> HIDE DEF c
<1> QED BY <1>10, <1>11, <1>13 DEF n
-----------------------------------------------------------------------------
Below(x, S) == {y \in S : Less(y, x)}

\* The elements of S from the least to the greatest: the i-th has i - 1 below it.
Sorted(S) ==
  [i \in 1 .. Cardinality(S) |-> CHOOSE x \in S : Cardinality(Below(x, S)) = i - 1]

StrictOrder(S) ==
  /\ \A x \in S : ~Less(x, x)
  /\ \A x, y, z \in S : Less(x, y) /\ Less(y, z) => Less(x, z)
  /\ \A x, y \in S : x = y \/ Less(x, y) \/ Less(y, x)

\* Every element has a rank of its own.
LEMMA Ranks ==
  ASSUME NEW S, IsFiniteSet(S), StrictOrder(S)
  PROVE  /\ \A x \in S : Cardinality(Below(x, S)) \in 0 .. (Cardinality(S) - 1)
         /\ \A x, y \in S : Less(x, y) =>
              Cardinality(Below(x, S)) < Cardinality(Below(y, S))
<1>0. Cardinality(S) \in Nat
  BY FS_CardinalityType
<1>1. ASSUME NEW x \in S
      PROVE  /\ IsFiniteSet(Below(x, S)) /\ Cardinality(Below(x, S)) \in Nat
             /\ Cardinality(Below(x, S)) + 1 <= Cardinality(S)
             /\ Cardinality(Below(x, S) \cup {x}) = Cardinality(Below(x, S)) + 1
  <2>1. Below(x, S) \in SUBSET S /\ x \notin Below(x, S)
    BY DEF Below, StrictOrder
  <2>2. IsFiniteSet(Below(x, S)) /\ Cardinality(Below(x, S)) \in Nat
    BY <2>1, FS_Subset, FS_CardinalityType
  <2>3. Cardinality(Below(x, S) \cup {x}) = Cardinality(Below(x, S)) + 1
    BY <2>1, <2>2, FS_AddElement
  <2>4. Below(x, S) \cup {x} \in SUBSET S
    BY <2>1
  <2>5. Cardinality(Below(x, S) \cup {x}) <= Cardinality(S)
    BY <2>4, FS_Subset
  <2> QED BY <2>2, <2>3, <2>5
<1>2. ASSUME NEW x \in S, NEW y \in S, Less(x, y)
      PROVE  Cardinality(Below(x, S)) < Cardinality(Below(y, S))
  <2>1. Below(x, S) \cup {x} \in SUBSET Below(y, S)
    BY <1>2 DEF Below, StrictOrder
  <2>2. Cardinality(Below(x, S) \cup {x}) <= Cardinality(Below(y, S))
    BY <1>1, <2>1, FS_Subset
  <2>3. /\ Cardinality(Below(x, S)) \in Nat /\ Cardinality(Below(y, S)) \in Nat
        /\ Cardinality(Below(x, S) \cup {x}) = Cardinality(Below(x, S)) + 1
    BY <1>1
  <2> QED BY <2>2, <2>3
<1>3. ASSUME NEW x \in S
      PROVE  Cardinality(Below(x, S)) \in 0 .. (Cardinality(S) - 1)
  <2>1. /\ Cardinality(Below(x, S)) \in Nat
        /\ Cardinality(Below(x, S)) + 1 <= Cardinality(S)
    BY <1>1
  <2> QED BY <1>0, <2>1
<1> QED BY <1>2, <1>3

\* Walking a set in order visits exactly its elements, each after those below it.
LEMMA SortedSeq ==
  ASSUME NEW S, IsFiniteSet(S), StrictOrder(S)
  PROVE  /\ Sorted(S) \in Seq(S) /\ Len(Sorted(S)) = Cardinality(S)
         /\ \A x \in S : \E i \in 1 .. Len(Sorted(S)) : Sorted(S)[i] = x
         /\ \A i, j \in 1 .. Len(Sorted(S)) :
              i < j => Less(Sorted(S)[i], Sorted(S)[j])
         /\ \A i \in 1 .. Len(Sorted(S)) : Cardinality(Below(Sorted(S)[i], S)) = i - 1
<1> DEFINE n == Cardinality(S)
           r == [x \in S |-> Cardinality(Below(x, S))]
           s == Sorted(S)
<1>0. n \in Nat
  BY FS_CardinalityType
<1>1. /\ \A x \in S : r[x] = Cardinality(Below(x, S)) /\ r[x] \in 0 .. (n - 1)
      /\ \A x, y \in S : Less(x, y) => r[x] < r[y]
      /\ r = [x \in S |-> r[x]]
  BY Ranks
<1> HIDE DEF r
<1>2. \A x, y \in S : r[x] = r[y] => x = y
  <2> SUFFICES ASSUME NEW x \in S, NEW y \in S, r[x] = r[y] PROVE x = y
    OBVIOUS
  <2>1. r[x] \in Int /\ r[y] \in Int /\ ~(r[x] < r[y]) /\ ~(r[y] < r[x])
    BY <1>0, <1>1
  <2> QED BY <1>1, <2>1 DEF StrictOrder
<1>3. r \in Injection(S, 0 .. (n - 1))
  BY <1>1, <1>2 DEF Injection, IsInjective
<1>4. IsFiniteSet(0 .. (n - 1)) /\ Cardinality(0 .. (n - 1)) = n
  <2>1. n - 1 \in Int /\ 0 \in Int
    BY <1>0
  <2> QED BY <1>0, <2>1, FS_Interval
<1>5. r \in Surjection(S, 0 .. (n - 1))
  BY <1>3, <1>4, FS_Injection
<1>6. ASSUME NEW i \in 1 .. n PROVE \E x \in S : r[x] = i - 1
  <2>1. i - 1 \in 0 .. (n - 1)
    BY <1>0
  <2> QED BY <1>5, <2>1 DEF Surjection
<1>7. ASSUME NEW i \in 1 .. n PROVE s[i] \in S /\ r[s[i]] = i - 1
  <2>1. s[i] = CHOOSE x \in S : Cardinality(Below(x, S)) = i - 1
    BY DEF Sorted
  <2>2. \E x \in S : Cardinality(Below(x, S)) = i - 1
    BY <1>1, <1>6
  <2>3. s[i] \in S /\ Cardinality(Below(s[i], S)) = i - 1
    BY <2>1, <2>2
  <2> QED BY <1>1, <2>3
<1>8. s = [i \in 1 .. n |-> s[i]]
  BY DEF Sorted
<1> HIDE DEF s, n
<1>9. s \in [1 .. n -> S]
  BY <1>7, <1>8
<1>10. s \in Seq(S) /\ Len(s) = n
  BY <1>0, <1>9
<1>11. ASSUME NEW x \in S PROVE \E i \in 1 .. n : s[i] = x
  <2>1. r[x] + 1 \in 1 .. n /\ (r[x] + 1) - 1 = r[x]
    BY <1>0, <1>1
  <2>2. s[r[x] + 1] \in S /\ r[s[r[x] + 1]] = r[x]
    BY <1>7, <2>1
  <2> QED BY <1>2, <2>1, <2>2
<1>12. ASSUME NEW i \in 1 .. n, NEW j \in 1 .. n, i < j PROVE Less(s[i], s[j])
  <2>1. s[i] \in S /\ s[j] \in S /\ r[s[i]] = i - 1 /\ r[s[j]] = j - 1
    BY <1>7
  <2>2. r[s[i]] < r[s[j]] /\ ~(r[s[j]] < r[s[i]]) /\ r[s[i]] # r[s[j]]
    BY <1>0, <1>12, <2>1
  <2> QED BY <1>1, <2>1, <2>2 DEF StrictOrder
<1>13. \A i \in 1 .. n : Cardinality(Below(s[i], S)) = i - 1
  BY <1>1, <1>7
<1> QED BY <1>10, <1>11, <1>12, <1>13 DEF s, n
=============================================================================
