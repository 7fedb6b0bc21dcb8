--------------------------- MODULE ChatNet_proofs ---------------------------
(***************************************************************************)
(* What holds of the replicas of the chat, for all messages, authors,      *)
(* caps, peers and clocks: each is a function of the set of messages that  *)
(* it was told (BufferIsNewest), although two caps evict.                  *)
(*                                                                         *)
(* NewestChat chooses from a set of messages.  What it keeps of a set, it  *)
(* keeps of every part that has it (Heritage), and it misses nothing that  *)
(* it has dropped (Outcast): so it does not matter when a message is       *)
(* dropped (PathsAgree), and an insert keeps a replica the newest of what  *)
(* was told (InsertKeepsNewest), and so do deltas and merges, which fold   *)
(* it.  Heritage is for the cap of all the harder part: more messages of   *)
(* one author may push others of his out, and then make no room.  From it, *)
(* also: what was dropped stays away (EvictedMessagesStayAway).            *)
(***************************************************************************)
EXTENDS WebChat, FiniteSetTheorems, TLAPS

\* The facts on folds and on walks in order, for the operations folded.
I == INSTANCE Folding WITH Op <- Insert, A <- SUBSET Messages, E <- Messages,
                           Less <- IdLess
D == INSTANCE Folding WITH Op <- Accept, A <- SUBSET Messages, E <- Messages,
                           Less <- IdLess

\* Any peer, and its replica as the abstract one: its chat is a function of the messages
\* it was told.
CONSTANT peer

IsNewestChat(chat, S) == chat = NewestChat(S)

Abstract == INSTANCE Replica WITH
  Facts <- Messages, IsJoin <- IsNewestChat, value <- state[peer], told <- heard[peer]

\* A page is a chat, keyed by its messages' ids.
OneOfAnId(S) == \A x, y \in S : SameId(x, y) => x = y

Kept == {C \in SUBSET Messages : OneOfAnId(C)}

KeysOf(C) == {MessageIdKey(x) : x \in C}

Page(C) == [k \in KeysOf(C) |-> CHOOSE x \in C : MessageIdKey(x) = k]

Pages == {Page(C) : C \in Kept}

J == INSTANCE Folding WITH Op <- InsertJs, A <- Pages, E <- Messages, Less <- IdLess

\* The fields of a message.
LEMMA Fields ==
  ASSUME NEW x \in Messages
  PROVE  x.author \in Authors /\ x.author \in Nat /\ x.ts \in Nat /\ x.seq \in Nat
         /\ x.sig \in Nat /\ x.ts \in 0 .. MaxField /\ x.seq \in 0 .. MaxField
<1>1. /\ x.author \in Authors /\ Authors \subseteq Nat
      /\ x.ts \in 0 .. MaxField /\ x.seq \in 0 .. MaxField /\ x.sig \in 0 .. MaxField
      /\ MaxField \in Nat
  BY MessageAssumption, ChatCapAssumption
<1>2. x.author \in Nat
  BY <1>1
<1> QED BY <1>1, <1>2

\* Ids are ordered.
LEMMA IdOrder ==
  ASSUME NEW x \in Messages, NEW y \in Messages
  PROVE  /\ SameId(x, y) \/ IdLess(x, y) \/ IdLess(y, x)
         /\ ~(SameId(x, y) /\ IdLess(x, y)) /\ ~(IdLess(x, y) /\ IdLess(y, x))
         /\ SameId(x, y) => SameId(y, x)
BY Fields DEF SameId, IdLess

LEMMA IdTransitive ==
  ASSUME NEW x \in Messages, NEW y \in Messages, NEW z \in Messages
  PROVE  /\ IdLess(x, y) /\ IdLess(y, z) => IdLess(x, z)
         /\ SameId(x, y) => /\ IdLess(x, z) <=> IdLess(y, z)
                            /\ IdLess(z, x) <=> IdLess(z, y)
                            /\ SameId(x, z) <=> SameId(y, z)
BY Fields DEF SameId, IdLess

\* Messages are finitely many.
LEMMA Finite ==
  ASSUME NEW S \in SUBSET Messages
  PROVE  IsFiniteSet(S) /\ Cardinality(S) \in Nat
BY MessageAssumption, FS_Subset, FS_CardinalityType

LEMMA SubsetCounts ==
  ASSUME NEW S \in SUBSET Messages, NEW R \in SUBSET S
  PROVE  Cardinality(R) <= Cardinality(S) /\ Cardinality(R) \in Nat
         /\ Cardinality(S) \in Nat
BY Finite, FS_Subset

Above(x, S) == {y \in S : IdLess(x, y)}

\* A nonempty set of messages has a newest.
LEMMA NewestExists ==
  ASSUME NEW Q \in SUBSET Messages, Q # {}
  PROVE  \E x \in Q : \A y \in Q : ~IdLess(x, y)
<1> DEFINE K == {Cardinality(Above(x, Q)) : x \in Q}
<1>1. K \in SUBSET Nat /\ K # {}
  <2>1. ASSUME NEW x PROVE Cardinality(Above(x, Q)) \in Nat
    BY Finite DEF Above
  <2> QED BY <2>1
<1>2. PICK n \in K : \A k \in K : n <= k
  BY <1>1, I!Least
<1>3. PICK x \in Q : Cardinality(Above(x, Q)) = n
  OBVIOUS
<1>4. ASSUME NEW y \in Q, IdLess(x, y) PROVE FALSE
  <2>1. Above(y, Q) \subseteq Above(x, Q) \ {y} /\ y \in Above(x, Q)
    BY <1>4, IdTransitive, IdOrder DEF Above
  <2>2. Above(x, Q) \in SUBSET Messages /\ IsFiniteSet(Above(x, Q))
    BY Finite DEF Above
  <2>3. Cardinality(Above(x, Q) \ {y}) = Cardinality(Above(x, Q)) - 1
    BY <2>1, <2>2, FS_RemoveElement
  <2>4. Above(x, Q) \ {y} \in SUBSET Messages
    BY <2>2
  <2>5. Cardinality(Above(y, Q)) <= Cardinality(Above(x, Q) \ {y})
        /\ Cardinality(Above(y, Q)) \in Nat /\ Cardinality(Above(x, Q)) \in Nat
    BY <2>1, <2>2, <2>4, SubsetCounts, Finite
  <2>6. n <= Cardinality(Above(y, Q))
    BY <1>2
  <2> QED BY <1>3, <2>3, <2>5, <2>6
<1> QED BY <1>4

\* Many that are newer than x: among the newest n there are n.
LEMMA NewestAreEnough ==
  ASSUME NEW T \in SUBSET Messages, NEW n \in Nat, NEW x \in Messages,
         Cardinality(Above(x, T)) >= n
  PROVE  Cardinality(Above(x, NewestOf(T, n))) >= n
<1> DEFINE N == NewestOf(T, n)
           gone == Above(x, T) \ N
<1>0. N \in SUBSET T /\ T \in SUBSET Messages /\ Above(x, N) \in SUBSET Messages
  BY DEF NewestOf, Above
<1>1. CASE gone = {}
  <2>1. Above(x, N) = Above(x, T)
    BY <1>0, <1>1 DEF Above
  <2> QED BY <2>1
<1>2. CASE gone # {}
  <2>1. gone \in SUBSET Messages
    BY DEF Above
  <2>2. PICK y \in gone : \A z \in gone : ~IdLess(y, z)
    <3> HIDE DEF gone
    <3> QED BY <1>2, <2>1, NewestExists
  <2>3. y \in T /\ y \in Messages /\ IdLess(x, y) /\ ~(Cardinality(Above(y, T)) < n)
    BY DEF Above, NewestOf
  <2>4. Above(y, T) \subseteq Above(x, N)
    <3>1. ASSUME NEW z \in Above(y, T) PROVE z \in Above(x, N)
      <4>1. z \in T /\ IdLess(y, z) /\ IdLess(x, z)
        BY <2>3, IdTransitive DEF Above
      <4>2. z \in N
        BY <2>2, <4>1 DEF Above
      <4> QED BY <4>1, <4>2 DEF Above
    <3> QED BY <3>1
  <2>5. Cardinality(Above(y, T)) <= Cardinality(Above(x, N))
        /\ Cardinality(Above(y, T)) \in Nat /\ Cardinality(Above(x, N)) \in Nat
    BY <1>0, <2>4, SubsetCounts
  <2> QED BY <2>3, <2>5
<1> QED BY <1>1, <1>2

-----------------------------------------------------------------------------
\* The ids of x's author in S that are newer than x.
NewerIds(x, S) ==
  {<<y.ts, y.seq>> : y \in {z \in S : z.author = x.author /\ IdLess(x, z)}}

LEMMA IdsFinite ==
  ASSUME NEW S \in SUBSET Messages, NEW x
  PROVE  /\ IsFiniteSet(NewerIds(x, S)) /\ Cardinality(NewerIds(x, S)) \in Nat
         /\ \A K \in SUBSET NewerIds(x, S) :
              Cardinality(K) \in Nat /\ Cardinality(K) <= Cardinality(NewerIds(x, S))
<1>1. NewerIds(x, S) \in SUBSET ((0 .. MaxField) \X (0 .. MaxField))
  BY Fields DEF NewerIds
<1>2. IsFiniteSet((0 .. MaxField) \X (0 .. MaxField))
  <2>1. 0 \in Int /\ MaxField \in Int
    BY ChatCapAssumption
  <2>2. IsFiniteSet(0 .. MaxField)
    BY <2>1, FS_Interval
  <2> QED BY <2>2, FS_Product
<1>3. IsFiniteSet(NewerIds(x, S))
  BY <1>1, <1>2, FS_Subset
<1> QED BY <1>3, FS_Subset, FS_CardinalityType

\* More messages, more ids.
LEMMA IdsMonotone ==
  ASSUME NEW S \in SUBSET Messages, NEW R \in SUBSET S, NEW x
  PROVE  /\ NewerIds(x, R) \subseteq NewerIds(x, S)
         /\ Cardinality(NewerIds(x, R)) <= Cardinality(NewerIds(x, S))
         /\ Cardinality(NewerIds(x, R)) \in Nat /\ Cardinality(NewerIds(x, S)) \in Nat
<1>1. NewerIds(x, R) \subseteq NewerIds(x, S)
  BY DEF NewerIds
<1> QED BY <1>1, IdsFinite

\* A newer message has fewer ids above it.
LEMMA IdsOfNewer ==
  ASSUME NEW S \in SUBSET Messages, NEW x \in Messages, NEW y \in Messages,
         x.author = y.author, IdLess(x, y)
  PROVE  /\ NewerIds(y, S) \subseteq NewerIds(x, S)
         /\ Cardinality(NewerIds(y, S)) <= Cardinality(NewerIds(x, S))
         /\ y \in S => Cardinality(NewerIds(y, S)) < Cardinality(NewerIds(x, S))
<1>1. NewerIds(y, S) \subseteq NewerIds(x, S)
  BY IdTransitive DEF NewerIds
<1>2. ASSUME y \in S PROVE Cardinality(NewerIds(y, S)) < Cardinality(NewerIds(x, S))
  <2> DEFINE id == <<y.ts, y.seq>>
  <2>1. id \in NewerIds(x, S)
    BY <1>2 DEF NewerIds
  <2>2. id \notin NewerIds(y, S)
    <3>1. ASSUME NEW z \in S, z.author = y.author, IdLess(y, z), <<z.ts, z.seq>> = id
          PROVE  FALSE
      BY <3>1, IdOrder DEF SameId
    <3> QED BY <3>1 DEF NewerIds
  <2>3. NewerIds(y, S) \subseteq NewerIds(x, S) \ {id}
    BY <1>1, <2>2
  <2>4. /\ Cardinality(NewerIds(x, S) \ {id}) = Cardinality(NewerIds(x, S)) - 1
        /\ IsFiniteSet(NewerIds(x, S) \ {id})
    BY <2>1, IdsFinite, FS_RemoveElement
  <2>5. Cardinality(NewerIds(y, S)) <= Cardinality(NewerIds(x, S) \ {id})
    BY <2>3, <2>4, FS_Subset
  <2> QED BY <2>4, <2>5, IdsFinite
<1> QED BY <1>1, <1>2, IdsFinite

\* Messages of one id have the same ids above them.
LEMMA IdsOfSameId ==
  ASSUME NEW S \in SUBSET Messages, NEW x \in Messages, NEW y \in Messages, SameId(x, y)
  PROVE  NewerIds(x, S) = NewerIds(y, S)
BY IdTransitive DEF NewerIds, SameId

\* What is left when each id keeps its winner.
LEMMA WinnersFacts ==
  ASSUME NEW S \in SUBSET Messages
  PROVE  Winners(S) \in SUBSET S /\ Winners(S) \in SUBSET Messages /\ OneOfAnId(Winners(S))
<1>1. ASSUME NEW x \in Winners(S), NEW y \in Winners(S), SameId(x, y) PROVE x = y
  <2>1. x \in Messages /\ y \in Messages /\ ~SlotBeats(x, y) /\ ~SlotBeats(y, x)
    BY <1>1, IdOrder DEF Winners
  <2>2. x.sig = y.sig
    BY <2>1, Fields DEF SlotBeats
  <2> QED BY <1>1, <2>1, <2>2, MessageAssumption DEF SameId
<1> QED BY <1>1 DEF Winners, OneOfAnId

\* Every id of S has a winner.
LEMMA WinnerExists ==
  ASSUME NEW S \in SUBSET Messages, NEW y \in S
  PROVE  \E w \in Winners(S) : SameId(w, y) /\ ~SlotBeats(y, w)
<1> DEFINE slot == {z \in S : SameId(z, y)}
           rest == {MaxField - z.sig : z \in slot}
<1>1. \A z \in slot : z \in Messages /\ z.sig \in 0 .. MaxField /\ MaxField - z.sig \in Nat
  BY MessageAssumption, ChatCapAssumption
<1>2. rest \in SUBSET Nat /\ rest # {}
  <2>1. y \in slot
    BY DEF SameId
  <2> QED BY <1>1, <2>1
<1>3. PICK n \in rest : \A m \in rest : n <= m
  BY <1>2, I!Least
<1>4. PICK w \in slot : MaxField - w.sig = n
  OBVIOUS
<1>5. \A z \in slot : ~SlotBeats(z, w)
  <2> SUFFICES ASSUME NEW z \in slot PROVE ~SlotBeats(z, w)
    OBVIOUS
  <2>1. MaxField - w.sig <= MaxField - z.sig
    BY <1>3, <1>4
  <2> QED BY <1>1, <2>1, ChatCapAssumption DEF SlotBeats
<1>6. w \in Winners(S)
  BY <1>5, IdTransitive DEF Winners, SameId
<1> QED BY <1>5, <1>6 DEF SameId

\* The losers of an id do not matter to the ids.
LEMMA IdsOfWinners ==
  ASSUME NEW S \in SUBSET Messages, NEW x \in Messages
  PROVE  NewerIds(x, Winners(S)) = NewerIds(x, S)
<1>1. NewerIds(x, Winners(S)) \subseteq NewerIds(x, S)
  BY DEF NewerIds, Winners
<1>2. ASSUME NEW k \in NewerIds(x, S) PROVE k \in NewerIds(x, Winners(S))
  <2>1. PICK y \in S : y.author = x.author /\ IdLess(x, y) /\ k = <<y.ts, y.seq>>
    BY DEF NewerIds
  <2>2. PICK w \in Winners(S) : SameId(w, y)
    BY WinnerExists
  <2>3. w \in Messages /\ y \in Messages
    BY WinnersFacts
  <2>4. IdLess(x, w) /\ w.author = x.author /\ k = <<w.ts, w.seq>>
    BY <2>1, <2>2, <2>3, IdTransitive DEF SameId
  <2> QED BY <2>4 DEF NewerIds
<1> QED BY <1>1, <1>2

\* When each id has one message, counting ids is counting messages.
LEMMA IdsAreMessages ==
  ASSUME NEW T \in SUBSET Messages, OneOfAnId(T), NEW x \in Messages
  PROVE  Cardinality(Above(x, OfAuthor(T, x.author))) = Cardinality(NewerIds(x, T))
<1> DEFINE A == Above(x, OfAuthor(T, x.author))
           f == [y \in A |-> <<y.ts, y.seq>>]
<1>1. A = {z \in T : z.author = x.author /\ IdLess(x, z)} /\ A \in SUBSET Messages
  BY DEF Above, OfAuthor
<1>2. NewerIds(x, T) = {f[y] : y \in A}
  BY <1>1 DEF NewerIds
<1>3. \A y, z \in A : f[y] = f[z] => y = z
  BY <1>1 DEF OneOfAnId, SameId
<1>4. f \in Bijection(A, NewerIds(x, T))
  BY <1>2, <1>3 DEF Bijection, Injection, Surjection, IsInjective
<1> HIDE DEF A, f
<1>5. Cardinality(A) = Cardinality(NewerIds(x, T))
  <2>1. IsFiniteSet(A) /\ ExistsBijection(A, NewerIds(x, T))
    BY <1>1, <1>4, Finite DEF ExistsBijection
  <2> QED BY <2>1, FS_Bijection
<1> QED BY <1>5 DEF A

\* What the authors' caps leave, by counting ids.
LEMMA FairCounts ==
  ASSUME NEW S \in SUBSET Messages
  PROVE  /\ Fair(S) = {x \in Winners(S) : Cardinality(NewerIds(x, S)) < AuthorCap}
         /\ Fair(S) \in SUBSET S /\ Fair(S) \in SUBSET Messages /\ OneOfAnId(Fair(S))
<1> DEFINE W == Winners(S)
<1>0. W \in SUBSET S /\ W \in SUBSET Messages /\ OneOfAnId(W)
  BY WinnersFacts
<1>1. ASSUME NEW x \in W
      PROVE  Cardinality({y \in OfAuthor(W, x.author) : IdLess(x, y)})
               = Cardinality(NewerIds(x, S))
  <2>1. x \in Messages
    BY <1>0
  <2>2. NewerIds(x, W) = NewerIds(x, S)
    BY <2>1, IdsOfWinners
  <2>3. Cardinality(Above(x, OfAuthor(W, x.author))) = Cardinality(NewerIds(x, W))
    BY <1>0, <2>1, IdsAreMessages
  <2> QED BY <2>2, <2>3 DEF Above
<1>2. ASSUME NEW x \in W
      PROVE  x \in Fair(S) <=> x \in NewestOf(OfAuthor(W, x.author), AuthorCap)
  <2>1. x.author \in Authors
    BY <1>0, Fields
  <2>2. ASSUME NEW a \in Authors, x \in NewestOf(OfAuthor(W, a), AuthorCap)
        PROVE  a = x.author
    BY <2>2 DEF NewestOf, OfAuthor
  <2>3. x \in Fair(S) <=> \E a \in Authors : x \in NewestOf(OfAuthor(W, a), AuthorCap)
    BY DEF Fair
  <2> QED BY <2>1, <2>2, <2>3
<1>3. Fair(S) \subseteq W
  BY DEF Fair, NewestOf, OfAuthor
<1>4. Fair(S) = {x \in W : Cardinality(NewerIds(x, S)) < AuthorCap}
  BY <1>1, <1>2, <1>3 DEF NewestOf, OfAuthor
<1> QED BY <1>0, <1>3, <1>4 DEF OneOfAnId

-----------------------------------------------------------------------------
\* With one more message d there are no ids but d's more.
LEMMA OneMoreId ==
  ASSUME NEW U \in SUBSET Messages, NEW d \in Messages, NEW y \in Messages
  PROVE  /\ NewerIds(y, U \cup {d}) \subseteq NewerIds(y, U) \cup {<<d.ts, d.seq>>}
         /\ ~(d.author = y.author /\ IdLess(y, d))
              => NewerIds(y, U \cup {d}) = NewerIds(y, U)
         /\ (\E z \in U : SameId(z, d)) => NewerIds(y, U \cup {d}) = NewerIds(y, U)
         /\ Cardinality(NewerIds(y, U \cup {d})) <= Cardinality(NewerIds(y, U)) + 1
<1> DEFINE V == U \cup {d}
           id == <<d.ts, d.seq>>
<1>1. NewerIds(y, V) \subseteq NewerIds(y, U) \cup {id} /\ NewerIds(y, U) \subseteq NewerIds(y, V)
  BY DEF NewerIds
<1>2. ASSUME ~(d.author = y.author /\ IdLess(y, d))
      PROVE  NewerIds(y, V) = NewerIds(y, U)
  BY <1>2 DEF NewerIds
<1>3. ASSUME NEW z \in U, SameId(z, d), d.author = y.author, IdLess(y, d)
      PROVE  id \in NewerIds(y, U)
  <2>1. IdLess(y, z) /\ z.author = y.author /\ id = <<z.ts, z.seq>>
    BY <1>3, IdTransitive DEF SameId
  <2> QED BY <2>1 DEF NewerIds
<1>4. ASSUME NEW z \in U, SameId(z, d) PROVE NewerIds(y, V) = NewerIds(y, U)
  BY <1>1, <1>2, <1>3, <1>4
<1>5. /\ IsFiniteSet(NewerIds(y, U) \cup {id})
      /\ Cardinality(NewerIds(y, U) \cup {id}) <= Cardinality(NewerIds(y, U)) + 1
      /\ Cardinality(NewerIds(y, U) \cup {id}) \in Nat /\ Cardinality(NewerIds(y, U)) \in Nat
  <2>1. /\ IsFiniteSet(NewerIds(y, U)) /\ Cardinality(NewerIds(y, U)) \in Nat
    BY IdsFinite
  <2>2. /\ IsFiniteSet(NewerIds(y, U) \cup {id})
        /\ Cardinality(NewerIds(y, U) \cup {id}) = Cardinality(NewerIds(y, U))
           \/ Cardinality(NewerIds(y, U) \cup {id}) = Cardinality(NewerIds(y, U)) + 1
    BY <2>1, FS_AddElement
  <2> QED BY <2>1, <2>2
<1>6. Cardinality(NewerIds(y, V)) <= Cardinality(NewerIds(y, U) \cup {id})
      /\ Cardinality(NewerIds(y, V)) \in Nat
  <2>1. V \in SUBSET Messages
    OBVIOUS
  <2>2. Cardinality(NewerIds(y, V)) \in Nat
    BY <2>1, IdsFinite
  <2> QED BY <1>1, <1>5, <2>2, FS_Subset
<1>7. Cardinality(NewerIds(y, V)) <= Cardinality(NewerIds(y, U)) + 1
  <2> HIDE DEF V, id
  <2> QED BY <1>5, <1>6
<1>8. (\E z \in U : SameId(z, d)) => NewerIds(y, V) = NewerIds(y, U)
  BY <1>4
<1> QED BY <1>1, <1>2, <1>7, <1>8

\* A message that one more message d pushes out makes room for d, which is newer.
LEMMA PushedOut ==
  ASSUME NEW U \in SUBSET Messages, NEW d \in Messages,
         NEW y \in Fair(U), y \notin Fair(U \cup {d})
  PROVE  /\ d \in Fair(U \cup {d}) /\ d \notin U /\ d.author = y.author
         /\ \/ SameId(y, d)
            \/ /\ IdLess(y, d) /\ \A z \in U : ~SameId(z, d)
               /\ Cardinality(NewerIds(y, U)) + 1 >= AuthorCap
<1> DEFINE V == U \cup {d}
<1>0. /\ V \in SUBSET Messages /\ y \in Messages /\ y \in U /\ y \in Winners(U)
      /\ Cardinality(NewerIds(y, U)) < AuthorCap /\ AuthorCap \in Nat
      /\ \A z : Cardinality(NewerIds(z, U)) \in Nat /\ Cardinality(NewerIds(z, V)) \in Nat
      /\ Fair(V) = {x \in Winners(V) : Cardinality(NewerIds(x, V)) < AuthorCap}
  BY FairCounts, IdsFinite, ChatCapAssumption
<1>1. CASE y \notin Winners(V)
  <2>1. SameId(y, d) /\ SlotBeats(d, y)
    BY <1>0, <1>1 DEF Winners
  <2>2. d \notin U
    BY <1>0, <2>1 DEF Winners
  <2>3. ASSUME NEW z \in V, SameId(d, z) PROVE ~SlotBeats(z, d)
    <3>1. CASE z = d
      BY <3>1, Fields DEF SlotBeats
    <3>2. CASE z \in U
      <4>1. SameId(y, z)
        BY <1>0, <2>1, <2>3, IdTransitive
      <4>2. ~SlotBeats(z, y)
        BY <1>0, <3>2, <4>1 DEF Winners
      <4>3. z \in Messages
        BY <1>0
      <4> QED BY <1>0, <2>1, <4>2, <4>3, Fields DEF SlotBeats
    <3> QED BY <3>1, <3>2
  <2>4. NewerIds(d, V) = NewerIds(y, U)
    <3>1. NewerIds(y, V) = NewerIds(y, U)
      BY <1>0, <2>1, IdOrder, OneMoreId
    <3> QED BY <1>0, <2>1, <3>1, IdsOfSameId
  <2>5. d \in Fair(V)
    BY <1>0, <2>3, <2>4 DEF Winners
  <2> QED BY <2>1, <2>2, <2>5 DEF SameId
<1>2. CASE y \in Winners(V)
  <2>1. Cardinality(NewerIds(y, V)) >= AuthorCap
    <3>1. Cardinality(NewerIds(y, V)) \in Nat /\ ~(Cardinality(NewerIds(y, V)) < AuthorCap)
      BY <1>0, <1>2
    <3> QED BY <1>0, <3>1
  <2>2. d.author = y.author /\ IdLess(y, d) /\ \A z \in U : ~SameId(z, d)
    <3>1. NewerIds(y, V) # NewerIds(y, U)
      <4> HIDE DEF V
      <4> QED BY <1>0, <2>1
    <3> QED BY <1>0, <3>1, OneMoreId
  <2>3. d \notin U /\ d \in Winners(V)
    <3>1. SameId(d, d) /\ ~SlotBeats(d, d)
      BY Fields DEF SameId, SlotBeats
    <3>2. \A z \in U : ~SameId(d, z)
      BY <1>0, <2>2, IdOrder
    <3> QED BY <3>1, <3>2 DEF Winners
  <2>4. NewerIds(d, V) \subseteq NewerIds(y, U)
    <3>1. NewerIds(d, V) = NewerIds(d, U)
      BY IdOrder, OneMoreId
    <3> QED BY <1>0, <2>2, <3>1, IdsOfNewer
  <2>5. Cardinality(NewerIds(d, V)) < AuthorCap
    BY <1>0, <2>4, IdsFinite
  <2>6. Cardinality(NewerIds(y, V)) <= Cardinality(NewerIds(y, U)) + 1
    BY <1>0, OneMoreId
  <2> QED BY <1>0, <2>1, <2>2, <2>3, <2>5, <2>6
<1> QED BY <1>1, <1>2

\* It pushes out one.
LEMMA PushesOne ==
  ASSUME NEW U \in SUBSET Messages, NEW d \in Messages,
         NEW y \in Fair(U) \ Fair(U \cup {d}), NEW z \in Fair(U) \ Fair(U \cup {d})
  PROVE  ~IdLess(y, z)
<1> SUFFICES ASSUME IdLess(y, z) PROVE FALSE
  OBVIOUS
<1>0. /\ y \in Messages /\ z \in Messages /\ z \in U
      /\ Cardinality(NewerIds(y, U)) < AuthorCap /\ AuthorCap \in Nat
      /\ Cardinality(NewerIds(y, U)) \in Nat /\ Cardinality(NewerIds(z, U)) \in Nat
  BY FairCounts, IdsFinite, ChatCapAssumption
<1>1. /\ d.author = y.author /\ d.author = z.author
      /\ \/ SameId(y, d)
         \/ IdLess(y, d) /\ \A x \in U : ~SameId(x, d)
      /\ \/ SameId(z, d)
         \/ IdLess(z, d) /\ Cardinality(NewerIds(z, U)) + 1 >= AuthorCap
  BY PushedOut
<1>2. ~SameId(y, d)
  BY <1>0, <1>1, IdTransitive, IdOrder
<1>3. ~SameId(z, d)
  BY <1>0, <1>1, <1>2
<1>4. Cardinality(NewerIds(z, U)) < Cardinality(NewerIds(y, U))
  BY <1>0, <1>1, IdsOfNewer
<1> QED BY <1>0, <1>1, <1>3, <1>4

\* So there are no fewer above x than before.
LEMMA OneMoreAbove ==
  ASSUME NEW U \in SUBSET Messages, NEW d \in Messages, NEW x \in Messages
  PROVE  Cardinality(Above(x, Fair(U))) <= Cardinality(Above(x, Fair(U \cup {d})))
<1> DEFINE V == U \cup {d}
           P == Above(x, Fair(U))
           Q == Above(x, Fair(V))
<1>0. /\ V \in SUBSET Messages /\ Fair(U) \in SUBSET U /\ Fair(U) \in SUBSET Messages
      /\ Fair(V) \in SUBSET Messages /\ OneOfAnId(Fair(U))
      /\ P \in SUBSET Messages /\ Q \in SUBSET Messages
  BY FairCounts DEF Above
<1>1. CASE P \subseteq Q
  BY <1>0, <1>1, SubsetCounts
<1>2. CASE ~(P \subseteq Q)
  <2>1. PICK y \in P : y \notin Q
    BY <1>2
  <2>2. y \in Fair(U) /\ y \notin Fair(V) /\ IdLess(x, y) /\ y \in Messages
    BY <1>0, <2>1 DEF Above
  <2>3. d \in Fair(V) /\ d \notin U /\ (SameId(y, d) \/ IdLess(y, d))
    BY <2>2, PushedOut
  <2>4. d \in Q /\ d \notin P
    BY <1>0, <2>2, <2>3, IdTransitive DEF Above
  <2>5. P \ {y} \subseteq Q \ {d}
    <3>1. ASSUME NEW z \in P, z \notin Q PROVE z = y
      <4>1. z \in Fair(U) \ Fair(V) /\ y \in Fair(U) \ Fair(V)
        BY <2>2, <3>1 DEF Above
      <4>2. ~IdLess(y, z) /\ ~IdLess(z, y)
        <5> HIDE DEF V
        <5> QED BY <4>1, PushesOne DEF V
      <4> QED BY <1>0, <4>1, <4>2, IdOrder DEF OneOfAnId
    <3> QED BY <2>4, <3>1
  <2>6. /\ Cardinality(P \ {y}) = Cardinality(P) - 1
        /\ Cardinality(Q \ {d}) = Cardinality(Q) - 1
    <3>1. IsFiniteSet(P) /\ IsFiniteSet(Q)
      BY <1>0, Finite
    <3> HIDE DEF P, Q
    <3> QED BY <2>1, <2>4, <3>1, FS_RemoveElement
  <2>7. Cardinality(P \ {y}) <= Cardinality(Q \ {d})
    BY <1>0, <2>5, SubsetCounts
  <2>8. Cardinality(P) \in Nat /\ Cardinality(Q) \in Nat
    BY <1>0, Finite
  <2>9. Cardinality(P) <= Cardinality(Q)
    <3> HIDE DEF P, Q
    <3> QED BY <2>6, <2>7, <2>8
  <2> QED BY <2>9
<1> QED BY <1>1, <1>2

\* With any number of messages more there are none fewer: one by one.
LEMMA MoreAbove ==
  ASSUME NEW V \in SUBSET Messages, NEW U \in SUBSET V, NEW x \in Messages
  PROVE  Cardinality(Above(x, Fair(U))) <= Cardinality(Above(x, Fair(V)))
<1> DEFINE n == Cardinality(V \ U)
           Count(S) == Cardinality(Above(x, Fair(S)))
           P == {k \in 0 .. n : \A E \in SUBSET Messages :
                   Cardinality(E) = k => Count(U) <= Count(U \cup E)}
<1>0. n \in Nat /\ \A S \in SUBSET Messages : Count(S) \in Nat
  <2>1. V \ U \in SUBSET Messages
    OBVIOUS
  <2>2. ASSUME NEW S \in SUBSET Messages PROVE Count(S) \in Nat
    <3>1. Above(x, Fair(S)) \in SUBSET Messages
      BY FairCounts DEF Above
    <3> QED BY <3>1, Finite
  <2> QED BY <2>1, <2>2, Finite
<1>1. ASSUME NEW S \in SUBSET Messages, NEW d \in Messages
      PROVE  Count(S) <= Count(S \cup {d})
  BY OneMoreAbove
<1> HIDE DEF Count
<1>2. 0 \in P
  <2>1. ASSUME NEW E \in SUBSET Messages, Cardinality(E) = 0
        PROVE  Count(U) <= Count(U \cup E)
    <3>1. E = {}
      BY <2>1, Finite, FS_EmptySet
    <3>2. U \cup E = U /\ Count(U) \in Nat
      BY <1>0, <3>1
    <3> QED BY <3>2
  <2>2. 0 \in 0 .. n
    BY <1>0
  <2> QED BY <2>1, <2>2
<1>3. ASSUME NEW k \in 1 .. n, k - 1 \in P PROVE k \in P
  <2>1. ASSUME NEW E \in SUBSET Messages, Cardinality(E) = k
        PROVE  Count(U) <= Count(U \cup E)
    <3>1. IsFiniteSet(E) /\ E # {}
      BY <1>0, <2>1, Finite, FS_EmptySet
    <3>2. PICK d \in E : TRUE
      BY <3>1
    <3>3. Cardinality(E \ {d}) = k - 1 /\ E \ {d} \in SUBSET Messages
      BY <2>1, <3>1, <3>2, FS_RemoveElement
    <3>4. Count(U) <= Count(U \cup (E \ {d}))
      BY <1>3, <3>3
    <3>5. U \cup E = (U \cup (E \ {d})) \cup {d}
      BY <3>2
    <3>6. /\ U \cup (E \ {d}) \in SUBSET Messages /\ d \in Messages
          /\ U \in SUBSET Messages /\ U \cup E \in SUBSET Messages
      OBVIOUS
    <3>7. Count(U \cup (E \ {d})) <= Count(U \cup E)
      BY <1>1, <3>5, <3>6
    <3> QED BY <1>0, <3>4, <3>6, <3>7
  <2> HIDE DEF n
  <2>2. k \in 0 .. n
    BY <1>0
  <2> QED BY <2>1, <2>2
<1>4. n \in P
  <2> HIDE DEF P, n
  <2>1. \A k \in 0 .. n : k \in P
    BY <1>0, <1>2, <1>3, I!Upto
  <2>2. n \in 0 .. n
    BY <1>0
  <2> QED BY <2>1, <2>2
<1>5. U \cup (V \ U) = V /\ V \ U \in SUBSET Messages
  OBVIOUS
<1>6. Count(U) <= Count(V)
  BY <1>4, <1>5
<1> QED BY <1>6 DEF Count

\* What a chat keeps, by counting.
LEMMA NewestCounts ==
  ASSUME NEW S \in SUBSET Messages
  PROVE  /\ NewestChat(S) =
              {x \in Winners(S) : /\ Cardinality(NewerIds(x, S)) < AuthorCap
                                  /\ Cardinality(Above(x, Fair(S))) < Cap}
         /\ NewestChat(S) \in SUBSET S /\ NewestChat(S) \in SUBSET Messages
         /\ NewestChat(S) \in SUBSET Fair(S) /\ OneOfAnId(NewestChat(S))
<1>1. NewestChat(S) = {x \in Fair(S) : Cardinality(Above(x, Fair(S))) < Cap}
  BY DEF NewestChat, NewestOf, Above
<1> QED BY <1>1, FairCounts DEF OneOfAnId

LEMMA CountTypes ==
  ASSUME NEW S \in SUBSET Messages, NEW x
  PROVE  /\ Cardinality(NewerIds(x, S)) \in Nat /\ Cardinality(Above(x, S)) \in Nat
         /\ Cardinality(Above(x, Fair(S))) \in Nat
         /\ Cap \in Nat /\ Cap # 0 /\ AuthorCap \in Nat /\ AuthorCap # 0
<1>1. Above(x, S) \in SUBSET Messages /\ Above(x, Fair(S)) \in SUBSET Messages
  BY FairCounts DEF Above
<1> QED BY <1>1, IdsFinite, Finite, ChatCapAssumption

\* What is kept of many is kept of the part it is in.
LEMMA Heritage ==
  ASSUME NEW V \in SUBSET Messages, NEW U \in SUBSET V, NEW x \in U
  PROVE  /\ x \in Fair(V) => x \in Fair(U)
         /\ x \in NewestChat(V) => x \in NewestChat(U)
<1>0. U \in SUBSET Messages /\ x \in Messages
  OBVIOUS
<1>1. x \in Winners(V) => x \in Winners(U)
  BY DEF Winners
<1>2. Cardinality(NewerIds(x, U)) <= Cardinality(NewerIds(x, V))
  BY IdsMonotone
<1>3. Cardinality(Above(x, Fair(U))) <= Cardinality(Above(x, Fair(V)))
  BY MoreAbove
<1>4. /\ Cardinality(NewerIds(x, U)) \in Nat /\ Cardinality(NewerIds(x, V)) \in Nat
      /\ Cardinality(Above(x, Fair(U))) \in Nat /\ Cardinality(Above(x, Fair(V))) \in Nat
      /\ Cap \in Nat /\ AuthorCap \in Nat
  BY <1>0, CountTypes
<1>5. /\ Cardinality(NewerIds(x, V)) < AuthorCap => Cardinality(NewerIds(x, U)) < AuthorCap
      /\ Cardinality(Above(x, Fair(V))) < Cap => Cardinality(Above(x, Fair(U))) < Cap
  BY <1>2, <1>3, <1>4
<1> QED BY <1>0, <1>1, <1>5, FairCounts, NewestCounts

\* A message below Cap fair ones of V is not kept of any part that has what is kept.
LEMMA BelowTheKept ==
  ASSUME NEW V \in SUBSET Messages, NEW U \in SUBSET V, NewestChat(V) \subseteq U,
         NEW w \in Messages, Cardinality(Above(w, Fair(V))) >= Cap,
         NEW x \in Messages, SameId(x, w) \/ IdLess(x, w)
  PROVE  Cardinality(Above(x, Fair(U))) >= Cap
<1> DEFINE K == NewestChat(V)
<1>0. /\ U \in SUBSET Messages /\ Fair(V) \in SUBSET Messages
      /\ K \in SUBSET Fair(V) /\ K \in SUBSET Messages
      /\ Fair(U) \in SUBSET Messages /\ Cap \in Nat
  BY FairCounts, NewestCounts, ChatCapAssumption
<1>1. Cardinality(Above(w, K)) >= Cap
  BY <1>0, NewestAreEnough DEF NewestChat
<1>2. K \subseteq Fair(U)
  BY <1>0, Heritage
<1>3. Above(w, K) \subseteq Above(x, Fair(U))
  BY <1>0, <1>2, IdTransitive DEF Above
<1>4. Above(x, Fair(U)) \in SUBSET Messages
  BY <1>0 DEF Above
<1>5. /\ Cardinality(Above(w, K)) <= Cardinality(Above(x, Fair(U)))
      /\ Cardinality(Above(w, K)) \in Nat /\ Cardinality(Above(x, Fair(U))) \in Nat
  BY <1>3, <1>4, SubsetCounts
<1> QED BY <1>0, <1>1, <1>5

\* A message is not kept of the part either if it has AuthorCap newer ids in V.
LEMMA BehindTheOwn ==
  ASSUME NEW V \in SUBSET Messages, NEW U \in SUBSET V, NewestChat(V) \subseteq U,
         NEW x \in U, Cardinality(NewerIds(x, V)) >= AuthorCap
  PROVE  x \notin NewestChat(U)
<1> DEFINE W == OfAuthor(Winners(V), x.author)
           N == NewestOf(W, AuthorCap)
<1>0. /\ U \in SUBSET Messages /\ x \in Messages /\ Cap \in Nat /\ AuthorCap \in Nat
      /\ Winners(V) \in SUBSET Messages /\ OneOfAnId(Winners(V))
      /\ W \in SUBSET Messages /\ N \in SUBSET W /\ OneOfAnId(N) /\ N \in SUBSET Messages
  BY WinnersFacts, ChatCapAssumption DEF OfAuthor, NewestOf, OneOfAnId
<1>1. N \subseteq Fair(V)
  BY <1>0, Fields DEF Fair
<1>2. Cardinality(Above(x, W)) >= AuthorCap
  BY <1>0, IdsAreMessages, IdsOfWinners
<1>3. Cardinality(Above(x, N)) >= AuthorCap
  BY <1>0, <1>2, NewestAreEnough
<1>4. CASE \A z \in Above(x, N) : z \in NewestChat(V)
  <2>1. Above(x, N) \subseteq Above(x, OfAuthor(N \cap U, x.author))
    BY <1>0, <1>4 DEF Above, OfAuthor
  <2>2. /\ N \cap U \in SUBSET Messages /\ OneOfAnId(N \cap U)
        /\ Above(x, OfAuthor(N \cap U, x.author)) \in SUBSET Messages
    BY <1>0 DEF OneOfAnId, Above, OfAuthor
  <2>3. Cardinality(Above(x, N)) <= Cardinality(Above(x, OfAuthor(N \cap U, x.author)))
        /\ Cardinality(Above(x, N)) \in Nat
    BY <2>1, <2>2, SubsetCounts
  <2>4. Cardinality(Above(x, OfAuthor(N \cap U, x.author))) = Cardinality(NewerIds(x, N \cap U))
    BY <1>0, <2>2, IdsAreMessages
  <2>5. /\ Cardinality(NewerIds(x, N \cap U)) <= Cardinality(NewerIds(x, U))
        /\ Cardinality(NewerIds(x, N \cap U)) \in Nat /\ Cardinality(NewerIds(x, U)) \in Nat
    BY <1>0, IdsMonotone
  <2>6. ~(Cardinality(NewerIds(x, U)) < AuthorCap)
    BY <1>0, <1>3, <2>3, <2>4, <2>5
  <2> QED BY <1>0, <2>6, NewestCounts
<1>5. CASE \E z \in Above(x, N) : z \notin NewestChat(V)
  <2>1. PICK z \in N : IdLess(x, z) /\ z \notin NewestChat(V)
    BY <1>5 DEF Above
  <2>2. z \in Messages /\ z \in Fair(V)
    BY <1>0, <1>1, <2>1
  <2>3. ~(Cardinality(Above(z, Fair(V))) < Cap)
    BY <2>1, <2>2, FairCounts, NewestCounts
  <2>4. Cardinality(Above(z, Fair(V))) >= Cap
    BY <2>3, CountTypes
  <2>5. Cardinality(Above(x, Fair(U))) >= Cap
    BY <1>0, <2>1, <2>2, <2>4, BelowTheKept
  <2>6. ~(Cardinality(Above(x, Fair(U))) < Cap)
    BY <1>0, <2>5, CountTypes
  <2> QED BY <1>0, <2>6, NewestCounts
<1> QED BY <1>4, <1>5

\* What is dropped is not missed.
LEMMA Outcast ==
  ASSUME NEW V \in SUBSET Messages, NEW U \in SUBSET V, NewestChat(V) \subseteq U
  PROVE  NewestChat(U) = NewestChat(V)
<1>0. U \in SUBSET Messages
  OBVIOUS
<1>1. NewestChat(V) \subseteq NewestChat(U)
  BY Heritage
<1>2. ASSUME NEW x \in NewestChat(U), x \notin NewestChat(V) PROVE FALSE
  <2>0. x \in U /\ x \in V /\ x \in Messages /\ x \in Winners(U)
        /\ Cardinality(Above(x, Fair(U))) < Cap
    BY <1>0, NewestCounts
  <2>1. PICK w \in Winners(V) : SameId(w, x) /\ ~SlotBeats(x, w)
    BY <2>0, WinnerExists
  <2>2. w \in V /\ w \in Messages /\ SameId(x, w)
    BY <2>0, <2>1, WinnersFacts, IdOrder
  <2>3. w \notin NewestChat(V)
    <3>1. SUFFICES ASSUME w \in NewestChat(V) PROVE FALSE
      OBVIOUS
    <3>2. w \in NewestChat(U)
      BY <1>1, <3>1
    <3> QED BY <1>0, <1>2, <2>2, <3>1, <3>2, NewestCounts DEF OneOfAnId
  <2>4. CASE ~(Cardinality(NewerIds(w, V)) < AuthorCap)
    <3>1. NewerIds(x, V) = NewerIds(w, V)
      BY <2>0, <2>2, IdsOfSameId
    <3>2. Cardinality(NewerIds(x, V)) >= AuthorCap
      BY <2>4, <3>1, CountTypes
    <3> QED BY <1>2, <2>0, <3>2, BehindTheOwn
  <2>5. CASE ~(Cardinality(Above(w, Fair(V))) < Cap)
    <3>1. Cardinality(Above(w, Fair(V))) >= Cap
      BY <2>5, CountTypes
    <3>2. Cardinality(Above(x, Fair(U))) >= Cap
      BY <2>0, <2>2, <3>1, BelowTheKept
    <3> QED BY <1>0, <2>0, <3>2, CountTypes
  <2> QED BY <2>3, <2>4, <2>5, NewestCounts
<1> QED BY <1>1, <1>2

\* It does not matter when a message is dropped.
LEMMA PathsAgree ==
  ASSUME NEW S \in SUBSET Messages, NEW T \in SUBSET Messages
  PROVE  NewestChat(NewestChat(S) \cup T) = NewestChat(S \cup T)
<1> DEFINE V == S \cup T
           U == NewestChat(S) \cup T
<1>1. V \in SUBSET Messages /\ U \in SUBSET V /\ S \in SUBSET V
  BY NewestCounts
<1>2. NewestChat(V) \subseteq U
  <2>1. ASSUME NEW x \in NewestChat(V), x \notin T PROVE x \in NewestChat(S)
    <3>1. x \in S
      BY <1>1, <2>1, NewestCounts
    <3> QED BY <1>1, <3>1, Heritage
  <2> QED BY <2>1
<1> HIDE DEF V, U
<1>3. NewestChat(U) = NewestChat(V)
  BY <1>1, <1>2, Outcast
<1> QED BY <1>3 DEF V, U

-----------------------------------------------------------------------------
\* An insert into what was kept keeps what is to be kept: of the other authors
\* there is none too many.
LEMMA InsertChooses ==
  ASSUME NEW S \in SUBSET Messages, NEW x \in Messages
  PROVE  LET C == NewestChat(S)
             slotted == Winners(C \cup {x})
             mine == OfAuthor(slotted, x.author)
         IN  /\ (slotted \ mine) \cup NewestOf(mine, AuthorCap) = Fair(C \cup {x})
             /\ Insert(C, x) = NewestChat(C \cup {x})
<1> DEFINE C == NewestChat(S)
           U == C \cup {x}
           slotted == Winners(U)
           mine == OfAuthor(slotted, x.author)
           fair == (slotted \ mine) \cup NewestOf(mine, AuthorCap)
<1>0. /\ C \in SUBSET S /\ C \in SUBSET Messages /\ U \in SUBSET Messages
      /\ slotted \in SUBSET U /\ slotted \in SUBSET Messages /\ OneOfAnId(slotted)
  BY NewestCounts, WinnersFacts
<1>1. ASSUME NEW y \in slotted, y.author = x.author
      PROVE  y \in NewestOf(mine, AuthorCap) <=> y \in Fair(U)
  <2>1. Cardinality(Above(y, OfAuthor(slotted, y.author))) = Cardinality(NewerIds(y, U))
    BY <1>0, IdsAreMessages, IdsOfWinners
  <2>2. y \in mine /\ mine = OfAuthor(slotted, y.author)
    BY <1>1 DEF OfAuthor
  <2>3. y \in NewestOf(mine, AuthorCap) <=> Cardinality(Above(y, mine)) < AuthorCap
    BY <2>2 DEF NewestOf, Above
  <2>4. y \in Fair(U) <=> Cardinality(NewerIds(y, U)) < AuthorCap
    BY <1>0, FairCounts
  <2> HIDE DEF mine
  <2> QED BY <2>1, <2>2, <2>3, <2>4
<1>2. ASSUME NEW y \in slotted, y.author # x.author
      PROVE  y \in Fair(U)
  <2>1. y \in C /\ y \in Messages
    BY <1>0, <1>2
  <2>2. NewerIds(y, U) = NewerIds(y, C)
    BY <1>0, <1>2, <2>1, OneMoreId
  <2>3. Cardinality(NewerIds(y, C)) <= Cardinality(NewerIds(y, S))
    BY <1>0, IdsMonotone
  <2>4. Cardinality(NewerIds(y, S)) < AuthorCap
    BY <2>1, NewestCounts
  <2>5. Cardinality(NewerIds(y, U)) < AuthorCap
    BY <1>0, <2>2, <2>3, <2>4, CountTypes
  <2> QED BY <1>0, <2>5, FairCounts
<1>3. Fair(U) \subseteq slotted /\ NewestOf(mine, AuthorCap) \subseteq mine
  BY <1>0, FairCounts DEF NewestOf
<1>4. fair = Fair(U)
  <2>1. ASSUME NEW y \in slotted PROVE y \in fair <=> y \in Fair(U)
    <3>1. y \in mine <=> y.author = x.author
      BY DEF OfAuthor
    <3> HIDE DEF mine, slotted, U
    <3> QED BY <1>1, <1>2, <1>3, <3>1
  <2>2. fair \subseteq slotted
    BY <1>3 DEF OfAuthor
  <2> HIDE DEF fair
  <2> QED BY <1>3, <2>1, <2>2
<1>5. Insert(C, x) = NewestOf(fair, Cap)
  BY DEF Insert
<1> HIDE DEF fair
<1>6. Insert(C, x) = NewestChat(U)
  BY <1>4, <1>5 DEF NewestChat
<1> QED BY <1>4, <1>6 DEF fair

\* An insert keeps a chat the newest of what it was told.
LEMMA InsertKeepsNewest ==
  ASSUME NEW S \in SUBSET Messages, NEW x \in Messages
  PROVE  Insert(NewestChat(S), x) = NewestChat(S \cup {x})
<1>1. Insert(NewestChat(S), x) = NewestChat(NewestChat(S) \cup {x})
  BY InsertChooses
<1> QED BY <1>1, PathsAgree

\* The chat that was told nothing is empty.
LEMMA EmptyChat == NewestChat({}) = {}
BY DEF NewestChat, NewestOf, Fair, Winners, OfAuthor

\* The instances count as this module does.
LEMMA SameCounts ==
  ASSUME NEW S
  PROVE  I!Cardinality(S) = Cardinality(S) /\ (I!IsFiniteSet(S) <=> IsFiniteSet(S))
BY DEF Cardinality, I!Cardinality, IsFiniteSet, I!IsFiniteSet

\* Iteration visits the messages of a map, each once, in the order of their ids.
LEMMA InOrderFacts ==
  ASSUME NEW S \in SUBSET Messages, OneOfAnId(S)
  PROVE  /\ InOrder(S) \in Seq(Messages) /\ ToSet(InOrder(S)) = S
         /\ Len(InOrder(S)) = Cardinality(S)
         /\ \A x \in S : \E i \in 1 .. Len(InOrder(S)) : InOrder(S)[i] = x
         /\ \A i \in 1 .. Len(InOrder(S)) : InOrder(S)[i] \in S
         /\ \A i, j \in 1 .. Len(InOrder(S)) :
              i < j => IdLess(InOrder(S)[i], InOrder(S)[j])
<1>1. I!StrictOrder(S)
  BY IdOrder, IdTransitive DEF I!StrictOrder, OneOfAnId
<1>2. InOrder(S) = I!Sorted(S)
  BY DEF InOrder, I!Sorted, I!Below, Cardinality, I!Cardinality
<1>3. /\ InOrder(S) \in Seq(S) /\ Len(InOrder(S)) = Cardinality(S)
      /\ \A x \in S : \E i \in 1 .. Len(InOrder(S)) : InOrder(S)[i] = x
      /\ \A i, j \in 1 .. Len(InOrder(S)) :
           i < j => IdLess(InOrder(S)[i], InOrder(S)[j])
  BY <1>1, <1>2, I!SortedSeq, SameCounts, Finite
<1>4. ToSet(InOrder(S)) = S
  BY <1>3 DEF ToSet
<1> QED BY <1>3, <1>4

\* What a fold of insert goes through.
LEMMA InsertSteps ==
  ASSUME NEW chat \in SUBSET Messages, NEW seq \in Seq(Messages)
  PROVE  \E c \in [0 .. Len(seq) -> SUBSET Messages] :
           /\ c[0] = chat /\ c[Len(seq)] = FoldLeft(Insert, chat, seq)
           /\ \A k \in 1 .. Len(seq) : c[k] = Insert(c[k - 1], seq[k])
<1>1. I!Closed
  BY DEF I!Closed, Insert, NewestOf, OfAuthor, Winners
<1> QED BY <1>1, I!FoldLeftSteps
        DEF FoldLeft, I!FoldLeft, MapThenFoldSet, I!MapThenFoldSet, Max, I!Max

\* Inserting messages one after the other keeps a chat the newest.
LEMMA InsertAll ==
  ASSUME NEW S \in SUBSET Messages, NEW seq \in Seq(Messages)
  PROVE  FoldLeft(Insert, NewestChat(S), seq) = NewestChat(S \cup ToSet(seq))
<1> DEFINE n == Len(seq)
           T(k) == S \cup {seq[i] : i \in 1 .. k}
<1>0. \A R \in SUBSET Messages : NewestChat(R) \in SUBSET Messages
  BY NewestCounts
<1>2. PICK c \in [0 .. n -> SUBSET Messages] :
        /\ c[0] = NewestChat(S) /\ c[n] = FoldLeft(Insert, NewestChat(S), seq)
        /\ \A k \in 1 .. n : c[k] = Insert(c[k - 1], seq[k])
  BY <1>0, InsertSteps
<1> DEFINE P == {k \in 0 .. n : c[k] = NewestChat(T(k))}
<1>3. 0 \in P
  <2>1. T(0) = S /\ 0 \in 0 .. n
    OBVIOUS
  <2> QED BY <1>2, <2>1
<1>4. ASSUME NEW k \in 1 .. n, k - 1 \in P PROVE k \in P
  <2>1. T(k) = T(k - 1) \cup {seq[k]} /\ k \in 0 .. n
    <3>1. 1 .. k = (1 .. (k - 1)) \cup {k}
      OBVIOUS
    <3> QED BY <3>1
  <2>2. seq[k] \in Messages /\ T(k - 1) \in SUBSET Messages
    OBVIOUS
  <2>3. Insert(NewestChat(T(k - 1)), seq[k]) = NewestChat(T(k - 1) \cup {seq[k]})
    BY <2>2, InsertKeepsNewest
  <2> HIDE DEF T
  <2> QED BY <1>2, <1>4, <2>1, <2>3
<1>5. n \in P
  <2>1. n \in Nat /\ n \in 0 .. n
    OBVIOUS
  <2> HIDE DEF P, n
  <2>2. \A k \in 0 .. n : k \in P
    BY <1>3, <1>4, <2>1, I!Upto
  <2> QED BY <2>1, <2>2
<1>6. T(n) = S \cup ToSet(seq)
  BY DEF ToSet
<1> QED BY <1>2, <1>5, <1>6

\* A merge with another replica tells all that the other holds.
LEMMA MergeKeepsNewest ==
  ASSUME NEW S \in SUBSET Messages, NEW T \in SUBSET Messages
  PROVE  Merge(NewestChat(S), NewestChat(T)) = NewestChat(S \cup NewestChat(T))
<1>1. NewestChat(T) \in SUBSET Messages /\ OneOfAnId(NewestChat(T))
  BY NewestCounts
<1>2. InOrder(NewestChat(T)) \in Seq(Messages) /\ ToSet(InOrder(NewestChat(T))) = NewestChat(T)
  BY <1>1, InOrderFacts
<1> QED BY <1>2, InsertAll DEF Merge, ApplyDelta

\* The messages that a replica has for a summary, whatever the summary says.
LEMMA DeltaFacts ==
  ASSUME NEW S \in SUBSET Messages, NEW marks
  PROVE  Delta(NewestChat(S), marks) \in Seq(Messages)
<1> DEFINE After(x, w) == x.ts > w.ts \/ (x.ts = w.ts /\ x.seq > w.seq)
           missing == {x \in NewestChat(S) :
                         x.author \in DOMAIN marks => After(x, marks[x.author])}
<1>1. missing \in SUBSET Messages /\ OneOfAnId(missing)
  BY NewestCounts DEF OneOfAnId
<1> HIDE DEF missing
<1>2. InOrder(missing) \in Seq(Messages)
  BY <1>1, InOrderFacts
<1> QED BY <1>2 DEF Delta, missing

-----------------------------------------------------------------------------
\* The chats that replicas may have.
Reached == {NewestChat(S) : S \in SUBSET Messages}

Payload == [kind : {"state", "delta", "both"}, from : Peers, to : Peers,
            state : Reached, delta : Seq(Messages)]

\* A delta is made of any summary, whose marks need no type then.
MessageOK(m) ==
  \/ m.kind = "summary" /\ m.from \in Peers /\ m.to \in Peers
  \/ m \in Payload

NetInv ==
  /\ IsFiniteSet(net) /\ Cardinality(net) <= MaxMsgs
  /\ \A m \in net : MessageOK(m)

\* A replica is a function of its history, which is from no later than its clock's
\* skew allows.
ReplicaInv ==
  /\ state \in [Peers -> SUBSET Messages] /\ heard \in [Peers -> SUBSET Messages]
  /\ clock \in [Peers -> 0 .. MaxClock]
  /\ BufferIsNewest
  /\ \A p \in Peers : InTime(heard[p], clock[p])

\* An update of a replica tells what its history has afterwards.
LEMMA UpdatedKeepsNewest ==
  ASSUME NEW S \in SUBSET Messages, NEW m \in Payload
  PROVE  /\ Told(NewestChat(S), m) \in SUBSET Messages
         /\ Updated(NewestChat(S), m) = NewestChat(S \cup Told(NewestChat(S), m))
<1>1. m.kind \in {"state", "delta", "both"} /\ m.delta \in Seq(Messages)
  BY DEF Payload
<1>2. PICK T \in SUBSET Messages : m.state = NewestChat(T)
  BY DEF Payload, Reached
<1> DEFINE told == NewestChat(T)
<1>3. told \in SUBSET Messages /\ ToSet(m.delta) \in SUBSET Messages
  BY <1>1, NewestCounts DEF ToSet
<1>4. Merge(NewestChat(S), m.state) = NewestChat(S \cup told)
  BY <1>2, MergeKeepsNewest
<1>5. CASE m.kind = "state"
  BY <1>2, <1>3, <1>4, <1>5 DEF Updated, Told
<1>6. CASE m.kind = "delta"
  <2>1. FoldLeft(Insert, NewestChat(S), m.delta) = NewestChat(S \cup ToSet(m.delta))
    BY <1>1, InsertAll
  <2> QED BY <1>3, <1>6, <2>1 DEF Updated, Told, ApplyDelta, ToldBy
<1>7. CASE m.kind = "both"
  <2>1. Told(NewestChat(S), m) = told \cup ToSet(m.delta)
    BY <1>2, <1>7 DEF Told, ToldBy
  <2>2. FoldLeft(Insert, NewestChat(S \cup told), m.delta)
          = NewestChat((S \cup told) \cup ToSet(m.delta))
    BY <1>1, <1>3, InsertAll
  <2>3. (S \cup told) \cup ToSet(m.delta) = S \cup (told \cup ToSet(m.delta))
    OBVIOUS
  <2> QED BY <1>3, <1>4, <1>7, <2>1, <2>2, <2>3 DEF Updated, ApplyDelta
<1> QED BY <1>1, <1>5, <1>6, <1>7

\* What is accepted is from no later than the clock's skew allows.
LEMMA AcceptedInTime ==
  ASSUME NEW s, NEW m \in Payload, NEW t, Accepted(m, t)
  PROVE  InTime(Told(s, m), t)
<1>1. m.kind \in {"state", "delta", "both"}
  BY DEF Payload
<1> QED BY <1>1 DEF Accepted, Told, ToldBy, VerifyState, VerifyDelta, InTime

\* An update, accepted or not, keeps the replicas' invariant.
LEMMA UpdateKeepsReplicas ==
  ASSUME ReplicaInv, NEW p \in Peers, NEW m \in Payload, Update(p, m),
         UNCHANGED clock
  PROVE  ReplicaInv'
<1>1. CASE ~Accepted(m, clock[p])
  BY <1>1 DEF Update, ReplicaInv, BufferIsNewest, InTime
<1>2. CASE Accepted(m, clock[p])
  <2> DEFINE S == heard[p]
             told == Told(state[p], m)
  <2>1. S \in SUBSET Messages /\ state[p] = NewestChat(S) /\ InTime(S, clock[p])
    BY DEF ReplicaInv, BufferIsNewest
  <2>2. /\ state' = [state EXCEPT ![p] = Updated(state[p], m)]
        /\ heard' = [heard EXCEPT ![p] = S \cup told]
    BY <1>2 DEF Update
  <2>3. told \in SUBSET Messages /\ Updated(state[p], m) = NewestChat(S \cup told)
    BY <2>1, UpdatedKeepsNewest
  <2>4. InTime(S \cup told, clock[p])
    BY <1>2, <2>1, AcceptedInTime DEF InTime
  <2>5. NewestChat(S \cup told) \in SUBSET Messages /\ S \cup told \in SUBSET Messages
    BY <2>1, <2>3, NewestCounts
  <2> HIDE DEF S, told
  <2>6. /\ state' \in [Peers -> SUBSET Messages] /\ heard' \in [Peers -> SUBSET Messages]
        /\ clock' \in [Peers -> 0 .. MaxClock]
    BY <2>2, <2>3, <2>5 DEF ReplicaInv
  <2>7. ASSUME NEW q \in Peers
        PROVE  state'[q] = NewestChat(heard'[q]) /\ InTime(heard'[q], clock'[q])
    <3>1. CASE q = p
      BY <2>2, <2>3, <2>4, <3>1 DEF ReplicaInv
    <3>2. CASE q # p
      <4>1. state'[q] = state[q] /\ heard'[q] = heard[q] /\ clock'[q] = clock[q]
        BY <2>2, <3>2 DEF ReplicaInv
      <4> QED BY <4>1 DEF ReplicaInv, BufferIsNewest
    <3> QED BY <3>1, <3>2
  <2> QED BY <2>6, <2>7 DEF ReplicaInv, BufferIsNewest, InTime
<1> QED BY <1>1, <1>2

\* All that changes a replica or its history is an update.
LEMMA StepsAreUpdates ==
  ASSUME NetInv, [Next]_vars
  PROVE  \/ UNCHANGED <<state, heard, clock>>
         \/ \E p \in Peers : Tick(p)
         \/ UNCHANGED clock /\ \E p \in Peers, m \in Payload : Update(p, m)
<1>2. ASSUME NEW p \in Peers, NEW d \in ClientDeltas, Submit(p, d)
      PROVE  UNCHANGED clock /\ \E m \in Payload : Update(p, m)
  <2>1. {} \in Reached
    BY EmptyChat DEF Reached
  <2>2. d \in Seq(Messages)
    <3>1. PICK x \in Messages : d = <<x>>
      BY DEF ClientDeltas
    <3> QED BY <3>1
  <2>3. Delivery(p, p, "delta", {}, d) \in Payload
    BY <2>1, <2>2 DEF Delivery, Payload
  <2> QED BY <1>2, <2>3 DEF Submit
<1>3. CASE \E p, q \in Peers : Ask(p, q) \/ PushState(p, q) \/ PushBoth(p, q)
  BY <1>3 DEF Ask, PushState, PushBoth, Send
<1>4. ASSUME NEW m \in net, Receive(m)
      PROVE  UNCHANGED clock /\ \E p \in Peers, n \in Payload : Update(p, n)
  <2>1. m \in Payload /\ m.to \in Peers
    BY <1>4 DEF Receive, NetInv, MessageOK, Payload
  <2> QED BY <1>4, <2>1 DEF Receive
<1>5. CASE \E m \in net : Answer(m) \/ Lose(m)
  BY <1>5 DEF Answer, Lose
<1>6. CASE UNCHANGED vars
  BY <1>6 DEF vars
<1> QED BY <1>2, <1>3, <1>4, <1>5, <1>6 DEF Next

\* Time only passes.
LEMMA TickKeepsReplicas ==
  ASSUME ReplicaInv, NEW p \in Peers, Tick(p)
  PROVE  ReplicaInv'
<1>1. /\ clock[p] \in 0 .. MaxClock /\ clock[p] < MaxClock
      /\ clock' = [clock EXCEPT ![p] = clock[p] + 1]
      /\ UNCHANGED <<state, heard>> /\ clock \in [Peers -> 0 .. MaxClock]
  BY DEF Tick, ReplicaInv
<1>2. clock' \in [Peers -> 0 .. MaxClock] /\ clock'[p] = clock[p] + 1
  BY <1>1, BoundAssumption
<1>3. ASSUME NEW q \in Peers PROVE InTime(heard'[q], clock'[q])
  <2>1. CASE q = p
    <3>1. ASSUME NEW x \in heard[p] PROVE x.ts <= clock'[p] + Skew
      <4>1. x \in Messages /\ x.ts <= clock[p] + Skew
        BY DEF ReplicaInv, InTime
      <4>2. x.ts \in 0 .. MaxField
        BY <4>1, Fields
      <4> QED BY <1>1, <1>2, <4>1, <4>2, BoundAssumption
    <3> QED BY <1>1, <2>1, <3>1 DEF InTime
  <2>2. CASE q # p
    BY <1>1, <2>2 DEF ReplicaInv, InTime
  <2> QED BY <2>1, <2>2
<1> QED BY <1>1, <1>2, <1>3 DEF ReplicaInv, BufferIsNewest

\* What is in flight are summaries and payloads, no more than there is room for.
LEMMA NetStep == ReplicaInv /\ NetInv /\ [Next]_vars => NetInv'
<1> SUFFICES ASSUME ReplicaInv, NetInv, [Next]_vars PROVE NetInv'
  OBVIOUS
<1>0. /\ \A p \in Peers : \E S \in SUBSET Messages : state[p] = NewestChat(S)
      /\ \A p \in Peers : state[p] \in Reached
      /\ {} \in Reached /\ <<>> \in Seq(Messages)
      /\ IsFiniteSet(net) /\ Cardinality(net) \in Nat /\ Cardinality(net) <= MaxMsgs
  BY EmptyChat, FS_CardinalityType DEF ReplicaInv, BufferIsNewest, NetInv, Reached
<1>1. ASSUME NEW p \in Peers, NEW marks PROVE Delta(state[p], marks) \in Seq(Messages)
  BY <1>0, DeltaFacts
<1>2. ASSUME NEW m, MessageOK(m), Send(m) PROVE NetInv'
  <2>1. IsFiniteSet(net \cup {m}) /\ Cardinality(net \cup {m}) <= MaxMsgs
    BY <1>0, <1>2, FS_AddElement, BoundAssumption DEF Send
  <2> QED BY <1>2, <2>1 DEF Send, NetInv
<1>3. ASSUME NEW p \in Peers, NEW q \in Peers \ {p},
             Ask(p, q) \/ PushState(p, q) \/ PushBoth(p, q)
      PROVE  NetInv'
  <2>1. MessageOK(Summary(p, q))
    BY DEF Summary, MessageOK
  <2>2. MessageOK(Delivery(p, q, "state", state[p], <<>>))
    BY <1>0 DEF Delivery, MessageOK, Payload
  <2>3. MessageOK(Delivery(p, q, "both", state[p],
                           Delta(state[p], Summarize({}))))
    BY <1>0, <1>1 DEF Delivery, MessageOK, Payload
  <2> QED BY <1>2, <1>3, <2>1, <2>2, <2>3 DEF Ask, PushState, PushBoth
<1>4. ASSUME NEW m \in net, Answer(m) PROVE NetInv'
  <2>1. /\ IsFiniteSet(net \ {m})
        /\ Cardinality(net \ {m}) = Cardinality(net) - 1
    BY <1>0, FS_RemoveElement
  <2> DEFINE d == Delta(state[m.to], m.marks)
             answer == Delivery(m.to, m.from, "delta", {}, d)
  <2>2. MessageOK(m) /\ m.kind = "summary"
    BY <1>4 DEF NetInv, Answer
  <2>3. m.from \in Peers /\ m.to \in Peers
    BY <2>2 DEF MessageOK, Payload
  <2>4. MessageOK(answer)
    BY <1>0, <1>1, <2>3 DEF Delivery, MessageOK, Payload
  <2>5. net' = net \ {m} \/ net' = (net \ {m}) \cup {answer}
    BY <1>4 DEF Answer
  <2> HIDE DEF answer
  <2>6. IsFiniteSet(net') /\ Cardinality(net') <= Cardinality(net)
        /\ Cardinality(net') \in Nat
    <3>1. CASE net' = net \ {m}
      BY <1>0, <2>1, <3>1, FS_CardinalityType
    <3>2. CASE net' = (net \ {m}) \cup {answer}
      <4>1. /\ IsFiniteSet((net \ {m}) \cup {answer})
            /\ Cardinality((net \ {m}) \cup {answer}) <= Cardinality(net \ {m}) + 1
            /\ Cardinality(net \ {m}) \in Nat
        BY <2>1, FS_AddElement, FS_CardinalityType
      <4> QED BY <1>0, <2>1, <3>2, <4>1, FS_CardinalityType
    <3> QED BY <2>5, <3>1, <3>2
  <2>7. Cardinality(net') <= MaxMsgs
    BY <1>0, <2>6, BoundAssumption
  <2> QED BY <2>4, <2>5, <2>6, <2>7 DEF NetInv
<1>5. ASSUME NEW m \in net, Lose(m) PROVE NetInv'
  <2>1. IsFiniteSet(net \ {m}) /\ Cardinality(net \ {m}) = Cardinality(net) - 1
    BY <1>0, FS_RemoveElement
  <2>2. Cardinality(net \ {m}) <= MaxMsgs
    BY <1>0, <2>1, BoundAssumption
  <2> QED BY <1>5, <2>1, <2>2 DEF Lose, NetInv
<1>6. CASE UNCHANGED net
  BY <1>6 DEF NetInv, MessageOK, Payload, Reached
<1> QED BY <1>3, <1>4, <1>5, <1>6 DEF Next, vars, Tick, Submit, Receive

\* Both hold in every reachable state.
LEMMA NetInvariant == Spec => [](ReplicaInv /\ NetInv)
<1>1. Init => ReplicaInv /\ NetInv
  <2> SUFFICES ASSUME Init PROVE ReplicaInv /\ NetInv
    OBVIOUS
  <2>1. {} \in SUBSET Messages
    OBVIOUS
  <2>2. ReplicaInv
    BY <2>1, EmptyChat, BoundAssumption DEF Init, ReplicaInv, BufferIsNewest, InTime
  <2>3. NetInv
    BY FS_EmptySet, BoundAssumption DEF Init, NetInv
  <2> QED BY <2>2, <2>3
<1>2. ReplicaInv /\ NetInv /\ [Next]_vars => ReplicaInv'
  <2> SUFFICES ASSUME ReplicaInv, NetInv, [Next]_vars PROVE ReplicaInv'
    OBVIOUS
  <2>1. CASE UNCHANGED <<state, heard, clock>>
    BY <2>1 DEF ReplicaInv, BufferIsNewest, InTime
  <2> QED BY <2>1, StepsAreUpdates, UpdateKeepsReplicas, TickKeepsReplicas
<1> QED BY <1>1, <1>2, NetStep, PTL DEF Spec

\* Whatever the order in which messages, deltas and states arrive, and however
\* often, a replica is a function of the messages it was told: no order of
\* arrival shows (chat.rs,
\* insert_bounded).
THEOREM BuffersAreDetermined == Spec => []BufferIsNewest
<1>1. ReplicaInv => BufferIsNewest
  BY DEF ReplicaInv
<1> QED BY <1>1, NetInvariant, PTL

\* No step takes back what a replica was told.
LEMMA HistoriesGrow ==
  ASSUME ReplicaInv, NetInv, [Next]_vars, NEW p \in Peers
  PROVE  heard[p] \subseteq heard'[p]
<1>1. CASE UNCHANGED heard
  BY <1>1
<1>2. CASE \E q \in Peers, m \in Payload : Update(q, m)
  <2>1. PICK q \in Peers, m \in Payload : Update(q, m)
    BY <1>2
  <2> QED BY <2>1 DEF Update, ReplicaInv
<1> QED BY <1>1, <1>2, StepsAreUpdates DEF Tick

\* The chat replica of every peer implements the abstract one: it starts empty, and each
\* step of the network is for it a step of learning, or none (ChatState::merge and
\* apply_delta).
THEOREM ReplicaLearns == peer \in Peers => (Spec => Abstract!Spec)
<1> SUFFICES ASSUME peer \in Peers PROVE Spec => Abstract!Spec
  OBVIOUS
<1>1. Init => Abstract!Init
  BY EmptyChat DEF Init, Abstract!Init, IsNewestChat
<1>2. ReplicaInv /\ ReplicaInv' /\ NetInv /\ [Next]_vars
        => [Abstract!Learn]_(Abstract!vars)
  <2> SUFFICES ASSUME ReplicaInv, ReplicaInv', NetInv, [Next]_vars
               PROVE  Abstract!Learn \/ UNCHANGED <<state[peer], heard[peer]>>
    BY DEF Abstract!vars
  <2>1. heard[peer] \subseteq heard'[peer] /\ heard'[peer] \in SUBSET Messages
    BY HistoriesGrow DEF ReplicaInv
  <2>2. IsNewestChat(state'[peer], heard'[peer])
    BY DEF ReplicaInv, BufferIsNewest, IsNewestChat
  <2> QED BY <2>1, <2>2 DEF Abstract!Learn
<1> QED BY <1>1, <1>2, NetInvariant, PTL DEF Spec, Abstract!Spec

\* A message that a replica has dropped, for either cap or for a larger signature, does not
\* come back, whatever stale states and deltas still bring it, and whatever else is
\* dropped later: no eviction makes room for it.  (chat.rs: insert_bounded.)
EvictionIsForGood ==
  [][\A p \in Peers : \A x \in heard[p] : x \in state'[p] => x \in state[p]]_vars

THEOREM EvictedMessagesStayAway == Spec => EvictionIsForGood
<1>1. ReplicaInv /\ ReplicaInv' /\ NetInv /\ [Next]_vars
        => \A p \in Peers : \A x \in heard[p] : x \in state'[p] => x \in state[p]
  <2> SUFFICES ASSUME ReplicaInv, ReplicaInv', NetInv, [Next]_vars,
                      NEW p \in Peers, NEW x \in heard[p], x \in state'[p]
               PROVE  x \in state[p]
    OBVIOUS
  <2>1. /\ heard[p] \subseteq heard'[p] /\ heard'[p] \in SUBSET Messages
        /\ state[p] = NewestChat(heard[p]) /\ state'[p] = NewestChat(heard'[p])
    BY HistoriesGrow DEF ReplicaInv, BufferIsNewest
  <2> QED BY <2>1, Heritage
<1> QED BY <1>1, NetInvariant, PTL DEF Spec, EvictionIsForGood

-----------------------------------------------------------------------------
\* The merge of two replicas is what a replica holds that was told what either was, though
\* neither hands on what its caps dropped.
LEMMA MergeJoinsHistories ==
  ASSUME NEW S \in SUBSET Messages, NEW T \in SUBSET Messages
  PROVE  Merge(NewestChat(S), NewestChat(T)) = NewestChat(S \cup T)
<1>1. Merge(NewestChat(S), NewestChat(T)) = NewestChat(S \cup NewestChat(T))
  BY MergeKeepsNewest
<1>2. /\ NewestChat(NewestChat(T) \cup S) = NewestChat(T \cup S)
      /\ S \cup NewestChat(T) = NewestChat(T) \cup S /\ S \cup T = T \cup S
  BY PathsAgree
<1> QED BY <1>1, <1>2

\* Merges of chats are joins: of two replicas' histories, and so it does not matter which
\* peer merges, in what order, or how often, whatever the two caps have dropped on the
\* way.  (MessageId: an order "which makes eviction itself commutative".)
MergesAreJoins ==
  \A p, q, r \in Peers :
    /\ Merge(state[p], state[q]) = NewestChat(heard[p] \cup heard[q])
    /\ Merge(state[p], state[q]) = Merge(state[q], state[p])
    /\ Merge(state[p], Merge(state[q], state[r])) = Merge(Merge(state[p], state[q]), state[r])
    /\ Merge(state[p], state[p]) = state[p]

THEOREM ChatsFormASemilattice == Spec => []MergesAreJoins
<1>1. ASSUME NEW S \in SUBSET Messages, NEW T \in SUBSET Messages, NEW U \in SUBSET Messages
      PROVE  /\ Merge(NewestChat(S), NewestChat(T)) = NewestChat(S \cup T)
             /\ Merge(NewestChat(S), NewestChat(T)) = Merge(NewestChat(T), NewestChat(S))
             /\ Merge(NewestChat(S), Merge(NewestChat(T), NewestChat(U)))
                  = Merge(Merge(NewestChat(S), NewestChat(T)), NewestChat(U))
             /\ Merge(NewestChat(S), NewestChat(S)) = NewestChat(S)
  <2>1. /\ S \cup T = T \cup S /\ S \cup S = S /\ S \cup (T \cup U) = (S \cup T) \cup U
        /\ S \cup T \in SUBSET Messages /\ T \cup U \in SUBSET Messages
    OBVIOUS
  <2>2. /\ Merge(NewestChat(S), NewestChat(T)) = NewestChat(S \cup T) /\ Merge(NewestChat(T), NewestChat(S)) = NewestChat(T \cup S)
        /\ Merge(NewestChat(S), NewestChat(S)) = NewestChat(S \cup S) /\ Merge(NewestChat(T), NewestChat(U)) = NewestChat(T \cup U)
    BY MergeJoinsHistories
  <2>3. /\ Merge(NewestChat(S), NewestChat(T \cup U)) = NewestChat(S \cup (T \cup U))
        /\ Merge(NewestChat(S \cup T), NewestChat(U)) = NewestChat((S \cup T) \cup U)
    BY <2>1, MergeJoinsHistories
  <2> QED BY <2>1, <2>2, <2>3
<1>2. ReplicaInv => MergesAreJoins
  <2> SUFFICES ASSUME ReplicaInv, NEW p \in Peers, NEW q \in Peers, NEW r \in Peers
               PROVE  /\ Merge(state[p], state[q]) = NewestChat(heard[p] \cup heard[q])
                      /\ Merge(state[p], state[q]) = Merge(state[q], state[p])
                      /\ Merge(state[p], Merge(state[q], state[r]))
                           = Merge(Merge(state[p], state[q]), state[r])
                      /\ Merge(state[p], state[p]) = state[p]
    BY DEF MergesAreJoins
  <2>1. /\ heard[p] \in SUBSET Messages /\ heard[q] \in SUBSET Messages
        /\ heard[r] \in SUBSET Messages
        /\ state[p] = NewestChat(heard[p]) /\ state[q] = NewestChat(heard[q]) /\ state[r] = NewestChat(heard[r])
    BY DEF ReplicaInv, BufferIsNewest
  <2> QED BY <1>1, <2>1
<1> QED BY <1>2, NetInvariant, PTL

-----------------------------------------------------------------------------
\* The newest n are no more than n.
LEMMA NewestBound ==
  ASSUME NEW T \in SUBSET Messages, OneOfAnId(T), NEW n \in Nat
  PROVE  Cardinality(NewestOf(T, n)) <= n
<1> DEFINE N == NewestOf(T, n)
           s == InOrder(N)
<1>0. N \in SUBSET T /\ N \in SUBSET Messages /\ OneOfAnId(N)
      /\ IsFiniteSet(N) /\ Cardinality(N) \in Nat
  <2>1. N \in SUBSET T /\ N \in SUBSET Messages
    BY DEF NewestOf
  <2> QED BY <2>1, Finite DEF OneOfAnId
<1>1. CASE N = {}
  BY <1>1, FS_EmptySet
<1>2. CASE N # {}
  <2>1. /\ Len(s) = Cardinality(N) /\ \A y \in N : \E i \in 1 .. Len(s) : s[i] = y
        /\ \A i \in 1 .. Len(s) : s[i] \in N
        /\ \A i, j \in 1 .. Len(s) : i < j => IdLess(s[i], s[j])
    BY <1>0, InOrderFacts
  <2> HIDE DEF s
  <2>2. 1 \in 1 .. Len(s)
    BY <1>0, <1>2, <2>1
  <2> DEFINE x == s[1]
  <2>3. ASSUME NEW y \in N, y # x PROVE IdLess(x, y)
    <3>1. PICK j \in 1 .. Len(s) : s[j] = y
      BY <2>1
    <3>2. 1 < j
      BY <1>0, <2>1, <2>3, <3>1
    <3> QED BY <2>1, <2>2, <3>1, <3>2
  <2>4. x \in N /\ N \ {x} \subseteq Above(x, T)
    BY <1>0, <2>1, <2>2, <2>3 DEF Above
  <2>5. Cardinality(Above(x, T)) < n
    BY <2>4 DEF NewestOf, Above
  <2>6. Cardinality(N \ {x}) <= Cardinality(Above(x, T)) /\ Cardinality(Above(x, T)) \in Nat
        /\ Cardinality(N \ {x}) \in Nat
    <3>1. Above(x, T) \in SUBSET Messages
      BY DEF Above
    <3> QED BY <2>4, <3>1, SubsetCounts
  <2>7. Cardinality(N \ {x}) = Cardinality(N) - 1
    <3> HIDE DEF N, x
    <3> QED BY <1>0, <2>4, FS_RemoveElement
  <2> HIDE DEF N, x
  <2>8. Cardinality(N) <= n
    BY <1>0, <2>5, <2>6, <2>7
  <2> QED BY <2>8 DEF N
<1> QED BY <1>1, <1>2

\* A chat keeps to both caps.
LEMMA CapsAreKept ==
  ASSUME NEW S \in SUBSET Messages
  PROVE  /\ Cardinality(NewestChat(S)) <= Cap
         /\ \A a \in Authors : Cardinality(OfAuthor(NewestChat(S), a)) <= AuthorCap
<1>1. Cardinality(NewestChat(S)) <= Cap
  BY FairCounts, NewestBound, ChatCapAssumption DEF NewestChat
<1>2. ASSUME NEW a \in Authors
      PROVE  Cardinality(OfAuthor(NewestChat(S), a)) <= AuthorCap
  <2> DEFINE T == OfAuthor(Winners(S), a)
             N == NewestOf(T, AuthorCap)
  <2>1. T \in SUBSET Messages /\ OneOfAnId(T) /\ N \in SUBSET Messages /\ AuthorCap \in Nat
    BY WinnersFacts, ChatCapAssumption DEF OfAuthor, OneOfAnId, NewestOf
  <2>2. Cardinality(N) <= AuthorCap
    BY <2>1, NewestBound
  <2>3. OfAuthor(NewestChat(S), a) \subseteq N
    <3>1. ASSUME NEW x \in Fair(S), x.author = a PROVE x \in N
      <4>1. PICK b \in Authors : x \in NewestOf(OfAuthor(Winners(S), b), AuthorCap)
        BY DEF Fair
      <4>2. b = a
        BY <3>1, <4>1 DEF NewestOf, OfAuthor
      <4> QED BY <4>1, <4>2
    <3> QED BY <3>1, NewestCounts DEF OfAuthor
  <2>4. /\ Cardinality(OfAuthor(NewestChat(S), a)) <= Cardinality(N)
        /\ Cardinality(OfAuthor(NewestChat(S), a)) \in Nat /\ Cardinality(N) \in Nat
    BY <2>1, <2>3, SubsetCounts
  <2> QED BY <2>1, <2>2, <2>4
<1> QED BY <1>1, <1>2

\* The types of the replicas; and validate_state accepts whatever update_state
\* makes: both caps are kept, and no message is from beyond the clock's skew.
THEOREM TypeCorrect == Spec => []TypeOK
<1>1. ReplicaInv /\ NetInv => TypeOK
  <2> SUFFICES ASSUME ReplicaInv, NetInv PROVE TypeOK
    OBVIOUS
  <2>1. ASSUME NEW p \in Peers, NEW r \in {<<>>, <<Authors>>}
        PROVE  ValidateState(state[p], r, clock[p])
    <3> DEFINE S == heard[p]
    <3>1. S \in SUBSET Messages /\ state[p] = NewestChat(S) /\ InTime(S, clock[p])
      BY DEF ReplicaInv, BufferIsNewest
    <3>2. state[p] \in SUBSET Messages /\ InTime(state[p], clock[p])
      BY <3>1, NewestCounts DEF InTime
    <3>3. VerifyStructure(state[p], clock[p])
      BY <3>1, <3>2, CapsAreKept DEF VerifyStructure
    <3>4. r = <<>> \/ \A x \in state[p] : x.author \in r[1]
      BY <3>2, Fields
    <3> QED BY <3>3, <3>4 DEF ValidateState
  <2>2. /\ DOMAIN state = Peers /\ DOMAIN heard = Peers
        /\ \A p \in Peers : state[p] \subseteq Messages /\ heard[p] \subseteq Messages
    BY DEF ReplicaInv
  <2> QED BY <2>1, <2>2 DEF TypeOK, ReplicaInv, NetInv
<1> QED BY <1>1, NetInvariant, PTL

-----------------------------------------------------------------------------
\* What the display filter goes through.
LEMMA AcceptSteps ==
  ASSUME NEW seq \in Seq(Messages)
  PROVE  \E c \in [0 .. Len(seq) -> SUBSET Messages] :
           /\ c[0] = {} /\ c[Len(seq)] = FoldLeft(Accept, {}, seq)
           /\ \A k \in 1 .. Len(seq) : c[k] = Accept(c[k - 1], seq[k])
<1>1. D!Closed
  BY DEF D!Closed, Accept
<1>2. {} \in SUBSET Messages
  OBVIOUS
<1> QED BY <1>1, <1>2, D!FoldLeftSteps
        DEF FoldLeft, D!FoldLeft, MapThenFoldSet, D!MapThenFoldSet, Max, D!Max

\* Whether x may come after what is on display.
Spaced(shown, x) == \A y \in shown : y.author = x.author => x.ts - y.ts >= Interval

\* Of what is held, in order, a message is shown if and only if it is an interval
\* after every shown one before it.
LEMMA ShownAreSpaced ==
  ASSUME NEW C \in SUBSET Messages, OneOfAnId(C)
  PROVE  /\ ValidMessages(C) \in SUBSET C
         /\ \A x \in C : x \in ValidMessages(C) <=>
              Spaced({y \in ValidMessages(C) : IdLess(y, x)}, x)
<1> DEFINE s == InOrder(C)
           n == Len(s)
<1>1. /\ s \in Seq(Messages) /\ n \in Nat
      /\ \A x \in C : \E i \in 1 .. n : s[i] = x
      /\ \A i \in 1 .. n : s[i] \in C
      /\ \A i, j \in 1 .. n : i < j => IdLess(s[i], s[j])
  BY InOrderFacts
<1> HIDE DEF s
<1>2. PICK c \in [0 .. n -> SUBSET Messages] :
        /\ c[0] = {} /\ c[n] = FoldLeft(Accept, {}, s)
        /\ \A k \in 1 .. n : c[k] = Accept(c[k - 1], s[k])
  BY <1>1, AcceptSteps
<1> HIDE DEF n
<1>3. \A i, j \in 1 .. n : (IdLess(s[i], s[j]) <=> i < j) /\ (s[i] = s[j] <=> i = j)
  <2> SUFFICES ASSUME NEW i \in 1 .. n, NEW j \in 1 .. n
               PROVE  (IdLess(s[i], s[j]) <=> i < j) /\ (s[i] = s[j] <=> i = j)
    OBVIOUS
  <2>1. s[i] \in Messages /\ s[j] \in Messages
    BY <1>1
  <2>2. CASE i < j
    BY <1>1, <2>1, <2>2, IdOrder
  <2>3. CASE j < i
    BY <1>1, <2>1, <2>3, IdOrder
  <2>4. CASE i = j
    BY <2>1, <2>4, IdOrder DEF SameId
  <2> QED BY <2>2, <2>3, <2>4
<1>4. \A k \in 1 .. n : c[k] = IF Spaced(c[k - 1], s[k]) THEN c[k - 1] \cup {s[k]} ELSE c[k - 1]
  BY <1>2 DEF Accept, OfAuthor, Spaced
<1> DEFINE Good(k) == /\ c[k] \subseteq {s[i] : i \in 1 .. k}
                      /\ \A i \in 1 .. k : s[i] \in c[k] <=>
                           Spaced({y \in c[k] : IdLess(y, s[i])}, s[i])
           P == {k \in 0 .. n : Good(k)}
<1>5. 0 \in P
  BY <1>1, <1>2
<1>6. ASSUME NEW k \in 1 .. n, k - 1 \in P PROVE k \in P
  <2>0. /\ k \in 0 .. n /\ k - 1 \in 0 .. n /\ k \in Nat
        /\ Good(k - 1)
        /\ 1 .. k = (1 .. (k - 1)) \cup {k} /\ 1 .. k \subseteq 1 .. n
    <3>1. Good(k - 1)
      BY <1>6
    <3>2. /\ k \in 0 .. n /\ k - 1 \in 0 .. n /\ k \in Nat
          /\ 1 .. k = (1 .. (k - 1)) \cup {k} /\ 1 .. k \subseteq 1 .. n
      BY <1>1
    <3> QED BY <3>1, <3>2
  <2>1. c[k] \subseteq {s[i] : i \in 1 .. k}
    <3>1. c[k - 1] \subseteq {s[i] : i \in 1 .. (k - 1)}
      BY <2>0
    <3>2. {s[i] : i \in 1 .. k} = {s[i] : i \in 1 .. (k - 1)} \cup {s[k]}
      BY <2>0
    <3>3. c[k] \subseteq c[k - 1] \cup {s[k]}
      BY <1>4
    <3> QED BY <3>1, <3>2, <3>3
  <2>2. {y \in c[k] : IdLess(y, s[k])} = c[k - 1]
    <3>1. \A y \in c[k - 1] : IdLess(y, s[k])
      BY <1>3, <2>0
    <3>2. ~IdLess(s[k], s[k])
      BY <1>3, <2>0
    <3> QED BY <1>4, <3>1, <3>2
  <2>3. s[k] \notin c[k - 1]
    BY <1>3, <2>0
  <2>4. s[k] \in c[k] <=> Spaced({y \in c[k] : IdLess(y, s[k])}, s[k])
    BY <1>4, <2>2, <2>3
  <2>5. ASSUME NEW i \in 1 .. (k - 1)
        PROVE  s[i] \in c[k] <=> Spaced({y \in c[k] : IdLess(y, s[i])}, s[i])
    <3>1. i \in 1 .. n /\ i # k /\ ~(k < i)
      BY <2>0
    <3>2. s[i] # s[k] /\ ~IdLess(s[k], s[i])
      BY <1>3, <3>1
    <3>3. (s[i] \in c[k] <=> s[i] \in c[k - 1])
          /\ {y \in c[k] : IdLess(y, s[i])} = {y \in c[k - 1] : IdLess(y, s[i])}
      BY <1>4, <3>2
    <3> QED BY <2>0, <3>3
  <2> QED BY <2>0, <2>1, <2>4, <2>5
<1>7. n \in P
  <2> HIDE DEF P
  <2>1. \A k \in 0 .. n : k \in P
    BY <1>1, <1>5, <1>6, D!Upto
  <2>2. n \in 0 .. n
    BY <1>1
  <2> QED BY <2>1, <2>2
<1>8. c[n] = ValidMessages(C)
  BY <1>2 DEF ValidMessages, s
<1>9. c[n] \subseteq C
  BY <1>1, <1>7
<1>10. ASSUME NEW x \in C
       PROVE  x \in c[n] <=> Spaced({y \in c[n] : IdLess(y, x)}, x)
  <2>1. PICK i \in 1 .. n : s[i] = x
    BY <1>1
  <2> QED BY <1>7, <2>1
<1> QED BY <1>8, <1>9, <1>10

\* On every replica an author's messages on display are an interval apart, and none
\* is hidden but behind another.
THEOREM DisplaysAreSpaced == Spec => []DisplayIsSpaced
<1>1. ReplicaInv => DisplayIsSpaced
  <2> SUFFICES ASSUME ReplicaInv, NEW p \in Peers, NEW a \in Authors,
                      NEW x \in OfAuthor(state[p], a)
               PROVE  LET shown == OfAuthor(ValidMessages(state[p]), a)
                      IN  x \in shown <=>
                            \A y \in shown : IdLess(y, x) => x.ts - y.ts >= Interval
    BY DEF DisplayIsSpaced
  <2>1. heard[p] \in SUBSET Messages /\ state[p] = NewestChat(heard[p])
    BY DEF ReplicaInv, BufferIsNewest
  <2>2. state[p] \in SUBSET Messages /\ OneOfAnId(state[p])
    BY <2>1, NewestCounts
  <2>3. x \in state[p] /\ x.author = a
    BY DEF OfAuthor
  <2>4. x \in ValidMessages(state[p]) <=>
          Spaced({y \in ValidMessages(state[p]) : IdLess(y, x)}, x)
    BY <2>2, <2>3, ShownAreSpaced
  <2> QED BY <2>3, <2>4 DEF Spaced, OfAuthor
<1> QED BY <1>1, NetInvariant, PTL

-----------------------------------------------------------------------------
\* Keys are ids, in the order of ids.
LEMMA KeysAreIds ==
  ASSUME NEW x \in Messages, NEW y \in Messages
  PROVE  /\ MessageIdKey(x) = MessageIdKey(y) <=> SameId(x, y)
         /\ KeyLess(MessageIdKey(x), MessageIdKey(y)) <=> IdLess(x, y)
         /\ MessageIdKey(x)[2] = x.author
BY DEF MessageIdKey, KeyLess, SameId, IdLess

LEMMA PageFacts ==
  ASSUME NEW C \in Kept
  PROVE  /\ DOMAIN Page(C) = KeysOf(C) /\ EncodeChatState(Page(C)) = C
         /\ \A x \in C : MessageIdKey(x) \in KeysOf(C) /\ Page(C)[MessageIdKey(x)] = x
         /\ \A T \in SUBSET C : T \in Kept /\ [k \in KeysOf(T) |-> Page(C)[k]] = Page(T)
<1>0. C \in SUBSET Messages /\ OneOfAnId(C)
  BY DEF Kept
<1>1. ASSUME NEW T \in SUBSET C, NEW x \in T
      PROVE  MessageIdKey(x) \in KeysOf(T) /\ Page(T)[MessageIdKey(x)] = x
  <2>1. MessageIdKey(x) \in KeysOf(T)
    BY DEF KeysOf
  <2>2. \A y \in T : MessageIdKey(y) = MessageIdKey(x) => y = x
    BY <1>0, KeysAreIds DEF OneOfAnId
  <2>3. Page(T)[MessageIdKey(x)] = CHOOSE y \in T : MessageIdKey(y) = MessageIdKey(x)
    BY <2>1 DEF Page
  <2> QED BY <2>1, <2>2, <2>3
<1>2. \A x \in C : MessageIdKey(x) \in KeysOf(C) /\ Page(C)[MessageIdKey(x)] = x
  BY <1>1
<1>3. DOMAIN Page(C) = KeysOf(C)
  BY DEF Page
<1>4. EncodeChatState(Page(C)) = C
  <2>1. ASSUME NEW k \in KeysOf(C) PROVE Page(C)[k] \in C
    BY <1>2 DEF KeysOf
  <2> QED BY <1>2, <1>3, <2>1 DEF EncodeChatState
<1>5. ASSUME NEW T \in SUBSET C
      PROVE  T \in Kept /\ [k \in KeysOf(T) |-> Page(C)[k]] = Page(T)
  <2>1. T \in Kept
    BY <1>0 DEF Kept, OneOfAnId
  <2>2. ASSUME NEW k \in KeysOf(T) PROVE Page(C)[k] = Page(T)[k]
    <3>1. PICK x \in T : k = MessageIdKey(x)
      BY DEF KeysOf
    <3> QED BY <1>1, <1>2, <3>1
  <2>3. Page(T) = [k \in KeysOf(T) |-> Page(T)[k]]
    BY DEF Page
  <2> QED BY <2>1, <2>2, <2>3
<1> QED BY <1>2, <1>3, <1>4, <1>5

\* As many keys are newer as messages are.
LEMMA KeysCount ==
  ASSUME NEW M \in Kept, NEW x \in M
  PROVE  Cardinality({l \in KeysOf(M) : KeyLess(MessageIdKey(x), l)}) = Cardinality(Above(x, M))
<1> DEFINE A == Above(x, M)
           B == {l \in KeysOf(M) : KeyLess(MessageIdKey(x), l)}
           f == [y \in A |-> MessageIdKey(y)]
<1>0. M \in SUBSET Messages /\ OneOfAnId(M) /\ A \in SUBSET M
  BY DEF Kept, Above
<1>1. \A y \in A : f[y] \in B
  BY <1>0, KeysAreIds DEF KeysOf, Above
<1>2. \A l \in B : \E y \in A : f[y] = l
  <2> SUFFICES ASSUME NEW l \in B PROVE \E y \in A : f[y] = l
    OBVIOUS
  <2>1. PICK y \in M : l = MessageIdKey(y)
    BY DEF KeysOf
  <2> QED BY <1>0, <2>1, KeysAreIds DEF Above
<1>3. \A y, z \in A : f[y] = f[z] => y = z
  BY <1>0, KeysAreIds DEF OneOfAnId
<1>4. f \in Bijection(A, B)
  BY <1>1, <1>2, <1>3 DEF Bijection, Injection, Surjection, IsInjective
<1>5. IsFiniteSet(A)
  BY <1>0, Finite
<1> HIDE DEF A, B, f
<1>6. Cardinality(A) = Cardinality(B)
  BY <1>4, <1>5, FS_Bijection DEF ExistsBijection
<1> QED BY <1>6 DEF A, B

\* Slicing sorted keys drops what is not the newest n.
LEMMA SliceDrops ==
  ASSUME NEW M \in Kept, NEW n \in Nat
  PROVE  AllButNewest(KeysOf(M), n) = KeysOf(M \ NewestOf(M, n))
<1> DEFINE K == KeysOf(M)
           Late(k) == {l \in K : KeyLess(k, l)}
<1>0. M \in SUBSET Messages /\ OneOfAnId(M) /\ IsFiniteSet(M)
  BY Finite DEF Kept
<1>1. IsFiniteSet(K) /\ Cardinality(K) = Cardinality(M)
  <2> DEFINE f == [x \in M |-> MessageIdKey(x)]
  <2>1. f \in Bijection(M, K)
    BY <1>0, KeysAreIds DEF Bijection, Injection, Surjection, IsInjective, KeysOf, OneOfAnId
  <2> HIDE DEF f, K
  <2> QED BY <1>0, <2>1, FS_Bijection DEF ExistsBijection
<1>2. ASSUME NEW k \in K
      PROVE  Cardinality(Late(k)) \in Nat /\ Cardinality(Late(k)) < Cardinality(K)
             /\ Cardinality(K) \in Nat
  <2>1. PICK x \in M : k = MessageIdKey(x)
    BY DEF KeysOf
  <2>2. k \notin Late(k)
    BY <1>0, <2>1, KeysAreIds, IdOrder DEF SameId
  <2>3. Late(k) \subseteq K \ {k} /\ Cardinality(K) \in Nat
        /\ IsFiniteSet(K \ {k}) /\ Cardinality(K \ {k}) = Cardinality(K) - 1
    <3> HIDE DEF K
    <3> QED BY <1>1, <2>2, FS_RemoveElement, FS_CardinalityType
  <2>4. Cardinality(Late(k)) <= Cardinality(K \ {k}) /\ IsFiniteSet(Late(k))
    <3> HIDE DEF Late, K
    <3> QED BY <2>3, FS_Subset
  <2>5. Cardinality(Late(k)) \in Nat
    <3> HIDE DEF Late, K
    <3> QED BY <2>4, FS_CardinalityType
  <2> HIDE DEF Late, K
  <2> QED BY <2>3, <2>4, <2>5
<1>3. AllButNewest(K, n) = {k \in K : Cardinality(Late(k)) >= n}
  <2>1. CASE Cardinality(K) <= n
    <3>1. \A k \in K : ~(Cardinality(Late(k)) >= n)
      <4> HIDE DEF Late, K
      <4> QED BY <1>2, <2>1
    <3> QED BY <2>1, <3>1 DEF AllButNewest
  <2>2. CASE ~(Cardinality(K) <= n)
    BY <2>2 DEF AllButNewest
  <2> QED BY <2>1, <2>2
<1>4. ASSUME NEW x \in M
      PROVE  Cardinality(Late(MessageIdKey(x))) >= n <=> x \notin NewestOf(M, n)
  <2>1. Cardinality(Late(MessageIdKey(x))) = Cardinality(Above(x, M))
    BY KeysCount
  <2>2. Cardinality(Above(x, M)) \in Nat
    BY <1>0, CountTypes
  <2>3. x \in NewestOf(M, n) <=> Cardinality(Above(x, M)) < n
    BY DEF NewestOf, Above
  <2> HIDE DEF Late
  <2> QED BY <2>1, <2>2, <2>3
<1> HIDE DEF Late
<1> QED BY <1>3, <1>4 DEF KeysOf

\* So what is left is the page of what is left.
LEMMA RingKeeps ==
  ASSUME NEW C \in Kept, NEW M \in SUBSET C, NEW n \in Nat
  PROVE  Without(Page(C), AllButNewest(KeysOf(M), n)) = Page((C \ M) \cup NewestOf(M, n))
<1> DEFINE L == (C \ M) \cup NewestOf(M, n)
           out == M \ NewestOf(M, n)
<1>1. /\ C \in SUBSET Messages /\ OneOfAnId(C) /\ M \in Kept /\ L = C \ out
      /\ out \in SUBSET C
  BY PageFacts DEF Kept, NewestOf
<1>2. AllButNewest(KeysOf(M), n) = KeysOf(out)
  BY <1>1, SliceDrops
<1> HIDE DEF out, L
<1>3. KeysOf(C) \ KeysOf(out) = KeysOf(L)
  <2>1. \A x, y \in C : MessageIdKey(x) = MessageIdKey(y) => x = y
    BY <1>1, KeysAreIds DEF OneOfAnId
  <2> QED BY <1>1, <2>1 DEF KeysOf
<1>4. L \in SUBSET C
  BY <1>1
<1>5. Without(Page(C), KeysOf(out)) = [k \in KeysOf(L) |-> Page(C)[k]]
  BY <1>3, PageFacts DEF Without, Restrict
<1>6. Without(Page(C), KeysOf(out)) = Page(L)
  BY <1>4, <1>5, PageFacts
<1> QED BY <1>2, <1>6 DEF L

\* The map's slot keeps the winner.
LEMMA SlotKeeps ==
  ASSUME NEW C \in Kept, NEW x \in Messages
  PROVE  Slotted(Page(C), x) = Page(Winners(C \cup {x})) /\ Winners(C \cup {x}) \in Kept
<1> DEFINE key == MessageIdKey(x)
           W == Winners(C \cup {x})
           put == MapSet(Page(C), key, x)
<1>0. C \in SUBSET Messages /\ OneOfAnId(C) /\ C \cup {x} \in SUBSET Messages
      /\ SameId(x, x) /\ ~SlotBeats(x, x)
  BY Fields DEF Kept, SameId, SlotBeats
<1>1. W \in Kept /\ W \in SUBSET (C \cup {x}) /\ OneOfAnId(W)
  BY <1>0, WinnersFacts DEF Kept
<1>2. /\ DOMAIN put = KeysOf(C) \cup {key} /\ put[key] = x
      /\ \A k \in KeysOf(C) : k # key => put[k] = Page(C)[k]
      /\ put = [k \in KeysOf(C) \cup {key} |-> put[k]]
  BY PageFacts DEF MapSet
<1>3. \A y \in C : MessageIdKey(y) = key <=> SameId(x, y)
  BY <1>0, KeysAreIds, IdOrder
<1> HIDE DEF put
<1>4. ASSUME KeysOf(W) = KeysOf(C) \cup {key}, x \in W, W \subseteq C \cup {x}
      PROVE  put = Page(W)
  <2>1. ASSUME NEW k \in KeysOf(W) PROVE put[k] = Page(W)[k]
    <3>1. PICK y \in W : k = MessageIdKey(y)
      BY DEF KeysOf
    <3>2. Page(W)[k] = y
      BY <1>1, <3>1, PageFacts
    <3>3. CASE y = x
      BY <1>2, <3>1, <3>2, <3>3
    <3>4. CASE y # x
      <4>1. y \in C /\ k # key
        <5>1. ~SameId(x, y)
          BY <1>1, <1>4, <3>4 DEF OneOfAnId
        <5> QED BY <1>3, <1>4, <3>1, <3>4, <5>1
      <4>2. Page(C)[k] = y /\ k \in KeysOf(C)
        BY <3>1, <4>1, PageFacts
      <4> QED BY <1>2, <3>2, <4>1, <4>2
    <3> QED BY <3>3, <3>4
  <2>2. Page(W) = [k \in KeysOf(W) |-> Page(W)[k]]
    <3> HIDE DEF W, key
    <3> QED BY DEF Page
  <2>3. put = [k \in KeysOf(W) |-> put[k]]
    BY <1>2, <1>4
  <2>4. [k \in KeysOf(W) |-> put[k]] = [k \in KeysOf(W) |-> Page(W)[k]]
    BY <2>1
  <2> HIDE DEF W
  <2> QED BY <2>2, <2>3, <2>4
<1>5. CASE \A y \in C : ~SameId(x, y)
  <2>1. W = C \cup {x}
    <3>1. \A y \in C : ~SameId(y, x)
      BY <1>0, <1>5, IdOrder
    <3>2. \A y, z \in C : SameId(y, z) => ~SlotBeats(z, y)
      BY <1>0, Fields DEF OneOfAnId, SlotBeats
    <3> QED BY <1>0, <1>5, <3>1, <3>2 DEF Winners
  <2>2. KeysOf(W) = KeysOf(C) \cup {key}
    BY <2>1 DEF KeysOf
  <2>3. key \notin DOMAIN Page(C)
    <3>1. key \notin KeysOf(C)
      BY <1>3, <1>5 DEF KeysOf
    <3> QED BY <3>1, PageFacts
  <2>4. put = Page(W)
    <3> HIDE DEF W, key
    <3> QED BY <1>4, <2>1, <2>2
  <2>5. Slotted(Page(C), x) = put
    BY <2>3 DEF Slotted, put
  <2> QED BY <1>1, <2>4, <2>5
<1>6. CASE \E y \in C : SameId(x, y)
  <2>1. PICK y \in C : SameId(x, y)
    BY <1>6
  <2>2. key = MessageIdKey(y) /\ key \in DOMAIN Page(C) /\ Page(C)[key] = y /\ y \in Messages
    BY <1>0, <1>3, <2>1, PageFacts
  <2>3. \A z \in C : SameId(x, z) => z = y
    BY <1>0, <2>1, IdTransitive DEF OneOfAnId
  <2>4. ASSUME NEW z \in C, z # y PROVE z \in W
    <3>1. \A v \in C : SameId(z, v) => ~SlotBeats(v, z)
      BY <1>0, Fields DEF OneOfAnId, SlotBeats
    <3>2. ~SameId(z, x)
      BY <1>0, <2>3, <2>4, IdOrder
    <3> QED BY <3>1, <3>2 DEF Winners
  <2>5. CASE SlotBeats(x, y)
    <3>1. y \notin W
      BY <1>0, <2>1, <2>2, <2>5, IdOrder DEF Winners
    <3>2. x \in W
      <4>1. \A z \in C \cup {x} : SameId(x, z) => ~SlotBeats(z, x)
        BY <1>0, <2>2, <2>3, <2>5, Fields DEF SlotBeats
      <4> QED BY <4>1 DEF Winners
    <3>3. W = (C \ {y}) \cup {x}
      BY <1>1, <2>4, <3>1, <3>2
    <3>4. KeysOf(W) = KeysOf(C) \cup {key}
      <4>1. KeysOf(C) = KeysOf(C \ {y}) \cup {key}
        BY <2>2 DEF KeysOf
      <4>2. KeysOf(W) = KeysOf(C \ {y}) \cup {key}
        BY <3>3 DEF KeysOf
      <4> QED BY <4>1, <4>2
    <3>5. put = Page(W)
      <4> HIDE DEF W, key
      <4> QED BY <1>1, <1>4, <3>2, <3>4
    <3>6. Slotted(Page(C), x) = put
      BY <2>2, <2>5 DEF Slotted, put
    <3> QED BY <1>1, <3>5, <3>6
  <2>6. CASE ~SlotBeats(x, y)
    <3>1. y \in W
      <4>1. \A z \in C \cup {x} : SameId(y, z) => ~SlotBeats(z, y)
        BY <1>0, <2>2, <2>6, Fields DEF OneOfAnId, SlotBeats
      <4> QED BY <4>1 DEF Winners
    <3>2. x \in C \/ x \notin W
      <4>1. SUFFICES ASSUME x \in W PROVE x \in C
        OBVIOUS
      <4> QED BY <1>1, <2>1, <3>1, <4>1 DEF OneOfAnId
    <3>3. W = C
      BY <1>1, <2>4, <3>1, <3>2
    <3>4. Slotted(Page(C), x) = Page(C)
      BY <2>2, <2>6 DEF Slotted
    <3> QED BY <1>1, <3>3, <3>4
  <2> QED BY <2>5, <2>6
<1> QED BY <1>5, <1>6

\* The page inserts as the contract's crate does.
LEMMA InsertsAlike ==
  ASSUME NEW C \in Kept, NEW x \in Messages
  PROVE  InsertJs(Page(C), x) = Page(Insert(C, x)) /\ Insert(C, x) \in Kept
<1> DEFINE W == Winners(C \cup {x})
           mine == OfAuthor(W, x.author)
           F == (W \ mine) \cup NewestOf(mine, AuthorCap)
           js == {k \in KeysOf(W) : k[2] = x.author}
<1>1. W \in Kept /\ Slotted(Page(C), x) = Page(W) /\ W \in SUBSET Messages
  BY SlotKeeps DEF Kept
<1>2. js = KeysOf(mine)
  <2>1. \A y \in W : MessageIdKey(y)[2] = y.author
    BY <1>1, KeysAreIds
  <2> HIDE DEF W
  <2> QED BY <2>1 DEF KeysOf, OfAuthor
<1>3. mine \in SUBSET W /\ F \in SUBSET W
  BY DEF OfAuthor, NewestOf
<1>4. F \in Kept /\ F \in SUBSET F /\ NewestOf(F, Cap) \in SUBSET F
      /\ NewestOf(F, Cap) \in Kept /\ (F \ F) \cup NewestOf(F, Cap) = NewestOf(F, Cap)
  <2>1. F \in Kept
    BY <1>1, <1>3 DEF Kept, OneOfAnId
  <2> HIDE DEF F
  <2> QED BY <2>1 DEF Kept, OneOfAnId, NewestOf
<1>5. Insert(C, x) = NewestOf(F, Cap)
  BY DEF Insert
<1> HIDE DEF W, mine, F
<1>6. Without(Page(W), AllButNewest(KeysOf(mine), AuthorCap)) = Page(F)
  BY <1>1, <1>3, RingKeeps, ChatCapAssumption DEF F
<1>7. Without(Page(F), AllButNewest(KeysOf(F), Cap)) = Page(NewestOf(F, Cap))
  <2>1. Cap \in Nat
    BY ChatCapAssumption
  <2> QED BY <1>4, <2>1, RingKeeps
<1>8. DOMAIN Page(W) = KeysOf(W) /\ DOMAIN Page(F) = KeysOf(F)
  BY <1>1, <1>4, PageFacts
<1>9. InsertJs(Page(C), x) = Page(NewestOf(F, Cap))
  BY <1>1, <1>2, <1>6, <1>7, <1>8 DEF InsertJs
<1> QED BY <1>4, <1>5, <1>9

\* What a fold of the page's insert goes through.
LEMMA InsertJsSteps ==
  ASSUME NEW page \in Pages, NEW seq \in Seq(Messages)
  PROVE  \E c \in [0 .. Len(seq) -> Pages] :
           /\ c[0] = page /\ c[Len(seq)] = FoldLeft(InsertJs, page, seq)
           /\ \A k \in 1 .. Len(seq) : c[k] = InsertJs(c[k - 1], seq[k])
<1>1. J!Closed
  BY InsertsAlike DEF J!Closed, Pages
<1> QED BY <1>1, J!FoldLeftSteps
        DEF FoldLeft, J!FoldLeft, MapThenFoldSet, J!MapThenFoldSet, Max, J!Max

\* A page that takes in messages one by one stays the page of the chat that does.
LEMMA PagesFollow ==
  ASSUME NEW C \in Kept, NEW seq \in Seq(Messages)
  PROVE  /\ FoldLeft(InsertJs, Page(C), seq) = Page(FoldLeft(Insert, C, seq))
         /\ FoldLeft(Insert, C, seq) \in Kept
<1> DEFINE n == Len(seq)
<1>0. C \in SUBSET Messages /\ Page(C) \in Pages /\ n \in Nat
  BY DEF Kept, Pages
<1>1. PICK c \in [0 .. n -> SUBSET Messages] :
        /\ c[0] = C /\ c[n] = FoldLeft(Insert, C, seq)
        /\ \A k \in 1 .. n : c[k] = Insert(c[k - 1], seq[k])
  BY <1>0, InsertSteps
<1>2. PICK g \in [0 .. n -> Pages] :
        /\ g[0] = Page(C) /\ g[n] = FoldLeft(InsertJs, Page(C), seq)
        /\ \A k \in 1 .. n : g[k] = InsertJs(g[k - 1], seq[k])
  BY <1>0, InsertJsSteps
<1> DEFINE P == {k \in 0 .. n : c[k] \in Kept /\ g[k] = Page(c[k])}
<1>3. 0 \in P
  BY <1>0, <1>1, <1>2
<1>4. ASSUME NEW k \in 1 .. n, k - 1 \in P PROVE k \in P
  <2>1. seq[k] \in Messages /\ k \in 0 .. n
    OBVIOUS
  <2>2. c[k - 1] \in Kept /\ g[k - 1] = Page(c[k - 1])
    BY <1>4
  <2>3. /\ InsertJs(Page(c[k - 1]), seq[k]) = Page(Insert(c[k - 1], seq[k]))
        /\ Insert(c[k - 1], seq[k]) \in Kept
    BY <2>1, <2>2, InsertsAlike
  <2> QED BY <1>1, <1>2, <2>1, <2>2, <2>3
<1>5. n \in P
  <2> HIDE DEF P, n
  <2>1. \A k \in 0 .. n : k \in P
    BY <1>0, <1>3, <1>4, I!Upto
  <2>2. n \in 0 .. n
    BY <1>0
  <2> QED BY <2>1, <2>2
<1> QED BY <1>1, <1>2, <1>5

\* A page read from a replica holds its messages.
LEMMA DecodedPage ==
  ASSUME NEW S \in SUBSET Messages
  PROVE  /\ NewestChat(S) \in Kept
         /\ DecodeChatState(NewestChat(S)) = Page(NewestChat(S))
<1> DEFINE C == NewestChat(S)
<1>1. C \in Kept /\ C \in SUBSET Messages /\ OneOfAnId(C)
  BY NewestCounts DEF Kept
<1>2. InOrder(C) \in Seq(Messages) /\ ToSet(InOrder(C)) = C
  BY <1>1, InOrderFacts
<1>3. {} \in Kept /\ Page({}) = NewPage
  BY DEF Kept, OneOfAnId, Page, KeysOf, NewPage
<1>4. FoldLeft(InsertJs, Page({}), InOrder(C)) = Page(FoldLeft(Insert, {}, InOrder(C)))
  BY <1>2, <1>3, PagesFollow
<1>5. FoldLeft(Insert, {}, InOrder(C)) = C
  <2>1. FoldLeft(Insert, NewestChat({}), InOrder(C)) = NewestChat({} \cup C)
    BY <1>2, InsertAll
  <2>2. NewestChat(NewestChat(S) \cup {}) = NewestChat(S \cup {})
    BY PathsAgree
  <2>3. {} \cup C = C /\ C \cup {} = C /\ S \cup {} = S
    OBVIOUS
  <2> QED BY <2>1, <2>2, <2>3, EmptyChat
<1> HIDE DEF C
<1>6. DecodeChatState(C) = Page(C)
  BY <1>3, <1>4, <1>5 DEF DecodeChatState
<1> QED BY <1>1, <1>6 DEF C

\* The state that a page puts is the one that the update would have made, for every
\* two replicas and any caps.
THEOREM PutsAreUpdates == Spec => []PutsLikeUpdates
<1>1. ReplicaInv => PutsLikeUpdates
  <2> SUFFICES ASSUME ReplicaInv, NEW p \in Peers, NEW q \in Peers
               PROVE  MergeChatState(state[p], InOrder(state[q]))
                        = ApplyDelta(state[p], InOrder(state[q]))
    BY DEF PutsLikeUpdates
  <2>1. /\ heard[p] \in SUBSET Messages /\ state[p] = NewestChat(heard[p])
        /\ heard[q] \in SUBSET Messages /\ state[q] = NewestChat(heard[q])
    BY DEF ReplicaInv, BufferIsNewest
  <2>2. state[p] \in Kept /\ DecodeChatState(state[p]) = Page(state[p])
    BY <2>1, DecodedPage
  <2>3. InOrder(state[q]) \in Seq(Messages)
    BY <2>1, NewestCounts, InOrderFacts
  <2> DEFINE seq == InOrder(state[q])
             C == state[p]
  <2> HIDE DEF seq, C
  <2>4. /\ FoldLeft(InsertJs, Page(C), seq) = Page(FoldLeft(Insert, C, seq))
        /\ FoldLeft(Insert, C, seq) \in Kept
    BY <2>2, <2>3, PagesFollow DEF seq, C
  <2>5. EncodeChatState(Page(FoldLeft(Insert, C, seq))) = FoldLeft(Insert, C, seq)
    BY <2>4, PageFacts
  <2>6. MergeChatState(C, seq) = ApplyDelta(C, seq)
    BY <2>2, <2>4, <2>5 DEF MergeChatState, ApplyDelta, ApplyDeltaJs, C
  <2> QED BY <2>6 DEF seq, C
<1> QED BY <1>1, NetInvariant, PTL

-----------------------------------------------------------------------------
\* What comes after all of a set comes last in its order.
LEMMA InOrderAppends ==
  ASSUME NEW V \in SUBSET Messages, OneOfAnId(V), NEW x \in Messages,
         \A y \in V : IdLess(y, x)
  PROVE  /\ OneOfAnId(V \cup {x}) /\ InOrder(V) \in Seq(Messages)
         /\ InOrder(V \cup {x}) = Append(InOrder(V), x)
<1> DEFINE W == V \cup {x}
           n == Cardinality(V)
<1>1. OneOfAnId(W) /\ W \in SUBSET Messages
  BY IdOrder DEF OneOfAnId
<1>2. I!StrictOrder(V) /\ I!StrictOrder(W)
  BY <1>1, IdOrder, IdTransitive DEF I!StrictOrder, OneOfAnId
<1>3. IsFiniteSet(V) /\ IsFiniteSet(W) /\ n \in Nat /\ Cardinality(W) = n + 1
  <2>1. x \notin V
    BY IdOrder DEF SameId
  <2>2. IsFiniteSet(V) /\ IsFiniteSet(W)
    BY <1>1, Finite
  <2> QED BY <2>1, <2>2, FS_CardinalityType, FS_AddElement
<1>4. \A S : InOrder(S) = I!Sorted(S)
  BY DEF InOrder, I!Sorted, I!Below, Cardinality, I!Cardinality
<1>5. /\ InOrder(V) \in Seq(V) /\ Len(InOrder(V)) = n
      /\ \A i \in 1 .. n : I!Cardinality(I!Below(InOrder(V)[i], V)) = i - 1
  BY <1>2, <1>3, <1>4, I!SortedSeq, SameCounts
<1> HIDE DEF W, n
<1>6. /\ InOrder(W) \in Seq(W) /\ Len(InOrder(W)) = n + 1
      /\ \A i \in 1 .. n + 1 : I!Cardinality(I!Below(InOrder(W)[i], W)) = i - 1
  <2>1. I!IsFiniteSet(W) /\ I!Cardinality(W) = n + 1
    BY <1>3, SameCounts
  <2>2. /\ I!Sorted(W) \in Seq(W) /\ Len(I!Sorted(W)) = n + 1
        /\ \A i \in 1 .. Len(I!Sorted(W)) :
             I!Cardinality(I!Below(I!Sorted(W)[i], W)) = i - 1
    BY <1>2, <2>1, I!SortedSeq
  <2>3. InOrder(W) = I!Sorted(W)
    BY <1>4
  <2> QED BY <2>2, <2>3
<1>7. /\ \A z \in V : I!Below(z, W) = I!Below(z, V)
      /\ I!Below(x, W) = V
  BY IdOrder DEF I!Below, SameId, W
<1>8. \A y, z \in W : IdLess(y, z) =>
        I!Cardinality(I!Below(y, W)) < I!Cardinality(I!Below(z, W))
  BY <1>2, <1>3, I!Ranks, SameCounts
<1>9. \A z \in W : I!Cardinality(I!Below(z, W)) \in Nat
  <2>1. \A z \in W : I!Cardinality(I!Below(z, W)) \in 0 .. (I!Cardinality(W) - 1)
    BY <1>2, <1>3, I!Ranks, SameCounts
  <2>2. I!Cardinality(W) = n + 1
    BY <1>3, SameCounts
  <2> QED BY <1>3, <2>1, <2>2
<1>10. \A y, z \in W : I!Cardinality(I!Below(y, W)) = I!Cardinality(I!Below(z, W)) => y = z
  <2> SUFFICES ASSUME NEW y \in W, NEW z \in W,
                      I!Cardinality(I!Below(y, W)) = I!Cardinality(I!Below(z, W))
               PROVE  y = z
    OBVIOUS
  <2>1. ~IdLess(y, z) /\ ~IdLess(z, y)
    BY <1>8, <1>9
  <2> QED BY <1>2, <2>1 DEF I!StrictOrder
<1>11. I!Cardinality(V) = n
  BY SameCounts DEF n
<1>12. ASSUME NEW i \in 1 .. n PROVE InOrder(W)[i] = InOrder(V)[i]
  <2>1. i \in 1 .. n + 1
    BY <1>3
  <2>2. InOrder(V)[i] \in V /\ InOrder(W)[i] \in W
    BY <1>5, <1>6, <2>1
  <2>3. I!Cardinality(I!Below(InOrder(V)[i], W)) = i - 1
    BY <1>5, <1>7, <2>2
  <2>4. InOrder(V)[i] \in W
    BY <2>2 DEF W
  <2> QED BY <1>6, <1>10, <2>1, <2>2, <2>3, <2>4
<1>13. InOrder(W)[n + 1] = x
  <2>1. n + 1 \in 1 .. n + 1 /\ (n + 1) - 1 = n
    BY <1>3
  <2>2. InOrder(W)[n + 1] \in W /\ x \in W
    BY <1>6, <2>1 DEF W
  <2> QED BY <1>6, <1>7, <1>10, <1>11, <2>1, <2>2
<1>14. InOrder(V) \in Seq(Messages)
  BY <1>5
<1>15. InOrder(W) = Append(InOrder(V), x)
  <2>1. InOrder(W) \in Seq(Messages)
    BY <1>1, <1>6
  <2>2. Append(InOrder(V), x) \in Seq(Messages) /\ Len(Append(InOrder(V), x)) = n + 1
    BY <1>5, <1>14
  <2>3. ASSUME NEW i \in 1 .. n + 1 PROVE InOrder(W)[i] = Append(InOrder(V), x)[i]
    <3>1. CASE i \in 1 .. n
      BY <1>5, <1>12, <1>14, <3>1
    <3>2. CASE i = n + 1
      BY <1>5, <1>13, <1>14, <3>2
    <3>3. i \in 1 .. n \/ i = n + 1
      BY <1>3
    <3> QED BY <3>1, <3>2, <3>3
  <2> QED BY <1>6, <2>1, <2>2, <2>3
<1> QED BY <1>1, <1>14, <1>15 DEF W

\* What validMessages goes through: what is on display, and the authors' last times.
Times == UNION {[B -> Nat] : B \in SUBSET Authors}

Displays == [shown : Seq(Messages), lastAccepted : Times]

V == INSTANCE Folding WITH Op <- Show, A <- Displays, E <- Messages, Less <- IdLess

LEMMA ShowSteps ==
  ASSUME NEW out \in Displays, NEW seq \in Seq(Messages)
  PROVE  \E d \in [0 .. Len(seq) -> Displays] :
           /\ d[0] = out /\ d[Len(seq)] = FoldLeft(Show, out, seq)
           /\ \A k \in 1 .. Len(seq) : d[k] = Show(d[k - 1], seq[k])
<1>1. ASSUME NEW o \in Displays, NEW x \in Messages PROVE Show(o, x) \in Displays
  <2>1. Append(o.shown, x) \in Seq(Messages)
    BY DEF Displays
  <2>2. PICK B \in SUBSET Authors : o.lastAccepted \in [B -> Nat]
    BY DEF Displays, Times
  <2>3. MapSet(o.lastAccepted, x.author, x.ts) \in [B \cup {x.author} -> Nat]
    BY <2>2, Fields DEF MapSet
  <2>4. B \cup {x.author} \in SUBSET Authors
    BY Fields
  <2>5. MapSet(o.lastAccepted, x.author, x.ts) \in Times
    BY <2>3, <2>4 DEF Times
  <2>6. Shown(o, x) \in Displays
    BY <2>1, <2>5 DEF Shown, Displays
  <2> QED BY <2>6 DEF Show
<1>2. V!Closed
  BY <1>1 DEF V!Closed
<1> QED BY <1>2, V!FoldLeftSteps
        DEF FoldLeft, V!FoldLeft, MapThenFoldSet, V!MapThenFoldSet, Max, V!Max

\* A display shows S in order, and knows the last time of each author in S.
ShowsAll(out, S) ==
  /\ out.shown = InOrder(S)
  /\ DOMAIN out.lastAccepted = {y.author : y \in S}
  /\ \A y \in S : /\ y.ts <= out.lastAccepted[y.author]
                  /\ \E z \in S : z.author = y.author /\ z.ts = out.lastAccepted[y.author]

\* The author's last time decides as his messages on display do, for a message after
\* them all.
LEMMA ShowAccepts ==
  ASSUME NEW S \in SUBSET Messages, OneOfAnId(S), NEW x \in Messages,
         \A y \in S : IdLess(y, x), NEW out \in Displays, ShowsAll(out, S)
  PROVE  ShowsAll(Show(out, x), Accept(S, x)) /\ OneOfAnId(Accept(S, x))
<1> DEFINE la == out.lastAccepted
           ok == x.author \in DOMAIN la => x.ts - la[x.author] >= Interval
<1>1. /\ DOMAIN la = {y.author : y \in S}
      /\ \A y \in S : la[y.author] \in Nat /\ y.ts <= la[y.author]
                      /\ \E z \in S : z.author = y.author /\ z.ts = la[y.author]
  <2>1. /\ DOMAIN la = {y.author : y \in S}
        /\ \A y \in S : y.ts <= la[y.author]
                        /\ \E z \in S : z.author = y.author /\ z.ts = la[y.author]
    BY DEF ShowsAll
  <2>2. \A y \in S : la[y.author] \in Nat
    BY <2>1, Fields
  <2> QED BY <2>1, <2>2
<1>2. \A y \in S : y \in Messages /\ y.ts \in Nat /\ y.ts <= x.ts
  BY Fields DEF IdLess
<1>0. x.ts \in Nat /\ Interval \in Nat
  BY Fields, BoundAssumption
<1>3. ok <=> Spaced(S, x)
  <2>1. ASSUME ok, NEW y \in S, y.author = x.author PROVE x.ts - y.ts >= Interval
    <3>1. x.ts - la[x.author] >= Interval /\ y.ts <= la[x.author] /\ la[x.author] \in Nat
      BY <1>1, <2>1
    <3>2. y.ts \in Nat
      BY <1>2
    <3> QED BY <1>0, <3>1, <3>2
  <2>2. ASSUME Spaced(S, x) PROVE ok
    BY <1>1, <2>2 DEF Spaced
  <2> QED BY <2>1, <2>2 DEF Spaced
<1>4. Accept(S, x) = IF ok THEN S \cup {x} ELSE S
  BY <1>3 DEF Accept, OfAuthor, Spaced
<1>5. Show(out, x) = IF ok THEN Shown(out, x) ELSE out
  BY DEF Show
<1>6. CASE ~ok
  BY <1>4, <1>5, <1>6
<1>7. CASE ok
  <2>1. InOrder(S \cup {x}) = Append(InOrder(S), x) /\ OneOfAnId(S \cup {x})
    BY InOrderAppends
  <2> DEFINE nl == MapSet(la, x.author, x.ts)
  <2>2. /\ DOMAIN nl = DOMAIN la \cup {x.author}
        /\ \A a \in DOMAIN nl : nl[a] = IF a = x.author THEN x.ts ELSE la[a]
    BY DEF MapSet
  <2>3. Show(out, x).shown = Append(out.shown, x) /\ Show(out, x).lastAccepted = nl
    BY <1>5, <1>7 DEF Shown
  <2> HIDE DEF nl, ok
  <2>4. DOMAIN nl = {y.author : y \in S \cup {x}}
    BY <1>1, <2>2
  <2>5. ASSUME NEW y \in S \cup {x}
        PROVE  /\ y.ts <= nl[y.author]
               /\ \E z \in S \cup {x} : z.author = y.author /\ z.ts = nl[y.author]
    <3>1. CASE y.author = x.author
      BY <1>0, <1>2, <2>2, <2>4, <3>1
    <3>2. CASE y.author # x.author
      <4>1. y \in S /\ nl[y.author] = la[y.author]
        BY <2>2, <2>4, <3>2
      <4> QED BY <1>1, <4>1
    <3> QED BY <3>1, <3>2
  <2>6. Accept(S, x) = S \cup {x}
    BY <1>4, <1>7
  <2>7. out.shown = InOrder(S)
    BY DEF ShowsAll
  <2> HIDE DEF la
  <2> QED BY <2>1, <2>3, <2>4, <2>5, <2>6, <2>7 DEF ShowsAll
<1> QED BY <1>6, <1>7

\* A page shows of a chat what the contract's filter leaves, in order.
LEMMA ShownAlike ==
  ASSUME NEW C \in Kept
  PROVE  ValidMessagesJs(Page(C)) = InOrder(ValidMessages(C))
<1> DEFINE s == InOrder(C)
           n == Len(s)
           none == [shown |-> <<>>, lastAccepted |-> [a \in {} |-> a]]
<1>1. /\ s \in Seq(Messages) /\ n \in Nat
      /\ \A i \in 1 .. n : s[i] \in C
      /\ \A i, j \in 1 .. n : i < j => IdLess(s[i], s[j])
  BY InOrderFacts DEF Kept
<1>2. none \in Displays /\ ShowsAll(none, {})
  <2>1. [a \in {} |-> a] \in [{} -> Nat] /\ {} \in SUBSET Authors
    OBVIOUS
  <2>2. [a \in {} |-> a] \in Times
    BY <2>1 DEF Times
  <2>3. <<>> \in Seq(Messages)
    OBVIOUS
  <2>4. InOrder({}) = <<>>
    <3>1. Len(InOrder({})) = 0 /\ InOrder({}) \in Seq(Messages)
      <4>1. OneOfAnId({}) /\ {} \in SUBSET Messages
        BY DEF OneOfAnId
      <4> QED BY <4>1, InOrderFacts, FS_EmptySet
    <3> QED BY <3>1
  <2> QED BY <2>2, <2>3, <2>4 DEF Displays, ShowsAll
<1>3. ValidMessages(C) = FoldLeft(Accept, {}, s)
  BY DEF ValidMessages
<1>4. ValidMessagesJs(Page(C)) = FoldLeft(Show, none, s).shown
  BY PageFacts DEF ValidMessagesJs
<1> HIDE DEF s, none
<1>5. PICK c \in [0 .. n -> SUBSET Messages] :
        /\ c[0] = {} /\ c[n] = FoldLeft(Accept, {}, s)
        /\ \A k \in 1 .. n : c[k] = Accept(c[k - 1], s[k])
  BY <1>1, AcceptSteps
<1>6. PICK d \in [0 .. n -> Displays] :
        /\ d[0] = none /\ d[n] = FoldLeft(Show, none, s)
        /\ \A k \in 1 .. n : d[k] = Show(d[k - 1], s[k])
  BY <1>1, <1>2, ShowSteps
<1> HIDE DEF n
<1> DEFINE Good(k) == /\ c[k] \subseteq {s[i] : i \in 1 .. k}
                      /\ OneOfAnId(c[k]) /\ ShowsAll(d[k], c[k])
           P == {k \in 0 .. n : Good(k)}
<1>7. 0 \in P
  <2>1. 0 \in 0 .. n /\ c[0] = {} /\ d[0] = none
    BY <1>1, <1>5, <1>6
  <2>2. Good(0)
    BY <1>2, <2>1 DEF OneOfAnId
  <2> QED BY <2>1, <2>2
<1>8. ASSUME NEW k \in 1 .. n, k - 1 \in P PROVE k \in P
  <2>1. /\ k \in 0 .. n /\ k - 1 \in 0 .. n
        /\ 1 .. k = (1 .. (k - 1)) \cup {k} /\ 1 .. k \subseteq 1 .. n
        /\ \A i \in 1 .. (k - 1) : i < k
    BY <1>1
  <2>2. Good(k - 1)
    BY <1>8
  <2>3. s[k] \in Messages /\ c[k - 1] \in SUBSET Messages /\ d[k - 1] \in Displays
    <3>1. C \in SUBSET Messages
      BY DEF Kept
    <3> QED BY <1>1, <2>1, <3>1
  <2>4. \A y \in c[k - 1] : IdLess(y, s[k])
    BY <1>1, <2>1, <2>2
  <2>5. ShowsAll(d[k], c[k]) /\ OneOfAnId(c[k])
    BY <1>5, <1>6, <2>2, <2>3, <2>4, ShowAccepts
  <2>6. c[k] \subseteq {s[i] : i \in 1 .. k}
    <3>1. c[k] \subseteq c[k - 1] \cup {s[k]}
      BY <1>5 DEF Accept
    <3>2. {s[i] : i \in 1 .. k} = {s[i] : i \in 1 .. (k - 1)} \cup {s[k]}
      BY <2>1
    <3> QED BY <2>2, <3>1, <3>2
  <2> QED BY <2>1, <2>5, <2>6
<1>9. ShowsAll(d[n], c[n])
  <2> HIDE DEF P
  <2>1. \A k \in 0 .. n : k \in P
    BY <1>1, <1>7, <1>8, V!Upto
  <2>2. n \in 0 .. n
    BY <1>1
  <2> QED BY <2>1, <2>2 DEF P
<1> QED BY <1>3, <1>4, <1>5, <1>6, <1>9 DEF ShowsAll

\* Every page that has read a replica shows what the contract's crate would, for any
\* interval.
THEOREM PagesShowChats == Spec => []PageShowsChat
<1>1. ReplicaInv => PageShowsChat
  <2> SUFFICES ASSUME ReplicaInv, NEW p \in Peers
               PROVE  ValidMessagesJs(DecodeChatState(state[p]))
                        = InOrder(ValidMessages(state[p]))
    BY DEF PageShowsChat
  <2>1. heard[p] \in SUBSET Messages /\ state[p] = NewestChat(heard[p])
    BY DEF ReplicaInv, BufferIsNewest
  <2>2. state[p] \in Kept /\ DecodeChatState(state[p]) = Page(state[p])
    BY <2>1, DecodedPage
  <2> QED BY <2>2, ShownAlike
<1> QED BY <1>1, NetInvariant, PTL
=============================================================================
