-------------------------- MODULE WebRegistry_proofs --------------------------
(***************************************************************************)
(* What the runs of RegistryNet and WebRegistry check on two peers and one *)
(* author, proved for all sets of peers, authors, admissions and nicknames *)
(* and for all bounds: first the replicas of the contract, then the page's *)
(* two implementations against them.  merge.ts computes what an update     *)
(* would, and the view of state.ts follows but for ties.                   *)
(*                                                                         *)
(* Then Admission: what the page asks two delegates to sign, sends and     *)
(* shows of its own user, for all edits, names and bounds, and what it     *)
(* never takes back of anybody.                                            *)
(***************************************************************************)
EXTENDS WebRegistry, Admission, SequenceTheorems, TLAPS

\* Any peer.
CONSTANT peer

USE DEF EmptyRegistry, NoDelta, Admitted

\* The operators on a single author's record stay within the records.
LEMMA RecordOps ==
  ASSUME NEW mine \in Records \cup {NotAdmitted}, NEW r \in Records,
         NEW n \in Nicknames \cup {NoNickname}
  PROVE  /\ InsertRecord(mine, r) \in Records
         /\ ApplyNickname(mine, n) \in Records \cup {NotAdmitted}
         /\ Admitted(r)
BY CoreAssumption
   DEF Records, NotAdmitted, NoCore, InsertRecord, ApplyNickname, BetterNickname

\* The merge of two registries is one.
LEMMA MergeType ==
  ASSUME NEW reg \in Registries, NEW other \in Registries
  PROVE  Merge(reg, other) \in Registries
<1> SUFFICES ASSUME NEW a \in Authors
             PROVE  Merge(reg, other)[a] \in Records \cup {NotAdmitted}
  BY DEF Merge, Registries
<1>1. /\ reg[a] \in Records \cup {NotAdmitted}
      /\ other[a] \in Records \cup {NotAdmitted}
  BY DEF Registries
<1>2. CASE Admitted(other[a])
  <2>1. other[a] \in Records
    BY <1>1, <1>2 DEF NotAdmitted, NoCore
  <2>2. InsertRecord(reg[a], other[a]) \in Records
    BY <1>1, <2>1, RecordOps
  <2> QED BY <1>2, <2>2 DEF Merge
<1>3. CASE ~Admitted(other[a])
  BY <1>1, <1>3 DEF Merge
<1> QED BY <1>2, <1>3

\* A registry to which a delta was applied is one.
LEMMA ApplyDeltaType ==
  ASSUME NEW reg \in Registries, NEW d \in Deltas
  PROVE  ApplyDelta(reg, d) \in Registries
<1>1. Merge(reg, d.admissions) \in Registries
  BY MergeType DEF Deltas
<1>2. ASSUME NEW a \in Authors
      PROVE  ApplyNickname(Merge(reg, d.admissions)[a], d.nicknames[a])
               \in Records \cup {NotAdmitted}
  <2>1. Merge(reg, d.admissions)[a] \in Records \cup {NotAdmitted}
    BY <1>1 DEF Registries
  <2>2. d.nicknames[a] \in Nicknames \cup {NoNickname}
    BY DEF Deltas
  <2>3. CASE Merge(reg, d.admissions)[a] = NotAdmitted
    BY <2>3 DEF ApplyNickname, NotAdmitted
  <2>4. CASE Merge(reg, d.admissions)[a] \in Records
    BY <2>2, <2>4 DEF ApplyNickname, Records, BetterNickname
  <2> QED BY <2>1, <2>3, <2>4
<1> QED BY <1>2 DEF ApplyDelta, Registries

\* What delta() computes is a delta, whatever the summary.
LEMMA DeltaType ==
  ASSUME NEW reg \in Registries, NEW summary
  PROVE  Delta(reg, summary) \in Deltas
<1>1. ASSUME NEW a \in Authors
      PROVE  reg[a].nickname \in Nicknames \cup {NoNickname}
  BY DEF Registries, Records, NotAdmitted
<1> QED BY <1>1 DEF Delta, Deltas, Registries

\* The empty registry and the empty delta are well typed.
LEMMA EmptyType == EmptyRegistry \in Registries /\ NoDelta \in Deltas
BY DEF Registries, Deltas

\* So are the deltas that a browser signs.
LEMMA ClientDeltaType == ClientDeltas \subseteq Deltas
<1>1. ASSUME NEW a \in Authors, NEW r \in Records
      PROVE  AdmissionOf(a, r) \in Deltas
  <2>1. [EmptyRegistry EXCEPT ![a] = r] \in Registries
    BY EmptyType DEF Registries
  <2>2. AdmissionOf(a, r) = [admissions |-> [EmptyRegistry EXCEPT ![a] = r],
                             nicknames  |-> [b \in Authors |-> NoNickname]]
    BY DEF AdmissionOf
  <2> QED BY <2>1, <2>2 DEF Deltas
<1>2. ASSUME NEW a \in Authors, NEW n \in Nicknames
      PROVE  NicknameOf(a, n) \in Deltas
  <2>1. NicknameOf(a, n) =
          [admissions |-> EmptyRegistry,
           nicknames  |-> [b \in Authors |-> IF b = a THEN n ELSE NoNickname]]
    BY DEF NicknameOf
  <2> QED BY <2>1, EmptyType DEF Deltas
<1> QED BY <1>1, <1>2 DEF ClientDeltas

\* What update_state returns is a registry, for each kind of message.
LEMMA UpdatedType ==
  ASSUME NEW s \in Registries, NEW m, m.kind \in {"state", "delta", "both"},
         m.state \in Registries, m.delta \in Deltas
  PROVE  Updated(s, m) \in Registries
<1>1. Merge(s, m.state) \in Registries
  BY MergeType
<1> QED BY <1>1, ApplyDeltaType DEF Updated

\* The admissions and nicknames of a registry are entries.
LEMMA EntriesType ==
  ASSUME NEW reg \in Registries
  PROVE  EntriesOf(reg) \subseteq Entries
<1> SUFFICES ASSUME NEW a \in Authors PROVE RecordOf(a, reg[a]) \subseteq Entries
  BY DEF EntriesOf
<1>1. reg[a] \in Records \cup {NotAdmitted}
  BY DEF Registries
<1> QED BY <1>1 DEF RecordOf, NamesOf, CoreOf, NameOf, Records, NotAdmitted, Entries

\* So are those that a message tells.
LEMMA ToldType ==
  ASSUME NEW s \in Registries, NEW m, m.kind \in {"state", "delta", "both"},
         m.state \in Registries, m.delta \in Deltas
  PROVE  Told(s, m) \subseteq Entries
<1>1. EntriesOf(m.delta.admissions) \subseteq Entries
  BY EntriesType DEF Deltas
<1>2. \A a \in Authors : NamesOf(a, m.delta.nicknames[a]) \subseteq Entries
  BY DEF NamesOf, NameOf, Deltas, Entries
<1>3. ToldBy(m.delta, Updated(s, m)) \subseteq Entries
  BY <1>1, <1>2 DEF ToldBy
<1> QED BY <1>3, EntriesType DEF Told

\* An update, whoever sent it, keeps a replica and its history well typed.
LEMMA UpdateType ==
  ASSUME TypeOK, NEW p \in Peers, NEW m, m.kind \in {"state", "delta", "both"},
         m.state \in Registries, m.delta \in Deltas, Update(p, m)
  PROVE  /\ state' \in [Peers -> Registries]
         /\ heard' \in [Peers -> SUBSET Entries]
<1>1. CASE Accepted(m, clock[p])
  <2>1. Updated(state[p], m) \in Registries
    BY UpdatedType DEF TypeOK
  <2>2. Told(state[p], m) \subseteq Entries
    BY ToldType DEF TypeOK
  <2> QED BY <1>1, <2>1, <2>2 DEF Update, TypeOK
<1>2. CASE ~Accepted(m, clock[p])
  BY <1>2 DEF Update, TypeOK
<1> QED BY <1>1, <1>2

\* A message put on the network keeps the types.
LEMMA SendType ==
  ASSUME TypeOK, NEW m, MessageOK(m), Send(m)
  PROVE  TypeOK'
BY DEF TypeOK, Send, MessageOK

\* Everything that is sent, stored or heard is a registry, a delta or an entry
\* of one: in particular a nickname never stands without an admission.
THEOREM TypeCorrect == Spec => []TypeOK
<1>1. Init => TypeOK
  BY BoundAssumption, EmptyType DEF Init, TypeOK
<1>2. TypeOK /\ [Next]_vars => TypeOK'
  <2> SUFFICES ASSUME TypeOK, [Next]_vars PROVE TypeOK'
    OBVIOUS
  <2>1. ASSUME NEW p \in Peers, Tick(p) PROVE TypeOK'
    BY <2>1, BoundAssumption DEF Tick, TypeOK
  <2>2. ASSUME NEW p \in Peers, NEW d \in ClientDeltas, Submit(p, d) PROVE TypeOK'
    <3> DEFINE m == Delivery(p, p, "delta", EmptyRegistry, d)
    <3>1. m.kind = "delta" /\ m.state \in Registries /\ m.delta \in Deltas
      BY EmptyType, ClientDeltaType DEF Delivery
    <3>2. Update(p, m)
      BY <2>2 DEF Submit
    <3> HIDE DEF m
    <3>3. /\ state' \in [Peers -> Registries]
          /\ heard' \in [Peers -> SUBSET Entries]
      BY <3>1, <3>2, UpdateType
    <3> QED BY <2>2, <3>3 DEF Submit, TypeOK
  <2>3. ASSUME NEW p \in Peers, NEW q \in Peers,
               Ask(p, q) \/ PushState(p, q) \/ PushBoth(p, q)
        PROVE  TypeOK'
    <3>1. state[p] \in Registries
      BY DEF TypeOK
    <3>2. CASE Ask(p, q)
      BY <3>2, SendType DEF Ask, Summary, MessageOK
    <3>3. CASE PushState(p, q)
      BY <3>1, <3>3, SendType, EmptyType DEF PushState, Delivery, MessageOK
    <3>4. CASE PushBoth(p, q)
      <4>1. Delta(state[p], Summarize(EmptyRegistry)) \in Deltas
        BY <3>1, DeltaType
      <4> QED BY <3>1, <3>4, <4>1, SendType DEF PushBoth, Delivery, MessageOK
    <3> QED BY <2>3, <3>2, <3>3, <3>4
  <2>4. ASSUME NEW m \in net, Answer(m) PROVE TypeOK'
    <3> DEFINE d == Delta(state[m.to], m.marks)
    <3>1. m.from \in Peers /\ m.to \in Peers
      BY <2>4 DEF TypeOK, MessageOK, Answer
    <3>2. d \in Deltas
      BY <3>1, DeltaType DEF TypeOK
    <3> HIDE DEF d
    <3>3. MessageOK(Delivery(m.to, m.from, "delta", EmptyRegistry, d))
      BY <3>1, <3>2, EmptyType DEF MessageOK, Delivery
    <3>4. net' \subseteq net \cup {Delivery(m.to, m.from, "delta", EmptyRegistry, d)}
      BY <2>4 DEF Answer, d
    <3> QED BY <2>4, <3>3, <3>4 DEF Answer, TypeOK, MessageOK
  <2>5. ASSUME NEW m \in net, Receive(m) PROVE TypeOK'
    <3>1. /\ m.kind \in {"state", "delta", "both"} /\ m.to \in Peers
          /\ m.state \in Registries /\ m.delta \in Deltas
      BY <2>5 DEF TypeOK, MessageOK, Receive
    <3>2. /\ state' \in [Peers -> Registries]
          /\ heard' \in [Peers -> SUBSET Entries]
      BY <2>5, <3>1, UpdateType DEF Receive
    <3> QED BY <2>5, <3>2 DEF Receive, TypeOK, MessageOK
  <2>6. ASSUME NEW m \in net, Lose(m) PROVE TypeOK'
    BY <2>6 DEF Lose, TypeOK, MessageOK
  <2>7. CASE UNCHANGED vars
    BY <2>7 DEF vars, TypeOK, MessageOK
  <2> QED BY <2>1, <2>2, <2>3, <2>4, <2>5, <2>6, <2>7 DEF Next
<1> QED BY <1>1, <1>2, PTL DEF Spec

-----------------------------------------------------------------------------
(***************************************************************************)
(* The registry of a peer is the join of all it was told.  The argument    *)
(* is about one author at a time: each operation on the author's record    *)
(* joins exactly the entries that the operation is said to tell.           *)
(***************************************************************************)
Join(r, a, H) == HoldsEarliest(r, a, H) /\ HoldsNewest(r, a, H)

\* insert_record keeps a record the join of what was told.
LEMMA InsertJoins ==
  ASSUME NEW a \in Authors, NEW H \in SUBSET Entries,
         NEW r \in Records \cup {NotAdmitted}, NEW x \in Records, Join(r, a, H)
  PROVE  Join(InsertRecord(r, x), a, H \cup RecordOf(a, x))
<1> DEFINE y == InsertRecord(r, x)
           G == H \cup RecordOf(a, x)
           Cs(S) == {e \in S : e.author = a /\ e.core # NoCore}
           Ns(S) == {e \in S : e.author = a /\ e.core = NoCore}
<1>1. x.core \in Cores /\ x.core # NoCore /\ x.nickname \in Nicknames \cup {NoNickname}
  BY CoreAssumption DEF Records, NoCore
<1>2. Cs(G) = Cs(H) \cup {CoreOf(a, x.core)}
  BY <1>1 DEF RecordOf, CoreOf, NamesOf, NameOf
<1>3. Ns(G) = Ns(H) \cup NamesOf(a, x.nickname)
  BY <1>1 DEF RecordOf, CoreOf, NamesOf, NameOf
<1>4. HoldsEarliest(y, a, G)
  <2>1. CASE Cs(H) = {}
    BY <1>1, <1>2, <2>1, CoreAssumption
       DEF Join, HoldsEarliest, InsertRecord, NotAdmitted, CoreOf, CoreLess
  <2>2. CASE Cs(H) # {}
    <3>1. /\ CoreOf(a, r.core) \in Cs(H)
          /\ \A e \in Cs(H) : ~CoreLess(e.core, r.core)
      BY <2>2 DEF Join, HoldsEarliest
    <3>2. r.core \in Cores /\ r.core # NoCore
      BY <3>1 DEF CoreOf, Entries
    <3>3. y.core = IF CoreLess(x.core, r.core) THEN x.core ELSE r.core
      BY <3>2 DEF InsertRecord
    <3>4. \A e \in Cs(H) : e.core \in Cores
      BY DEF Entries
    <3>5. CoreOf(a, y.core) \in Cs(G)
      BY <1>2, <3>1, <3>3
    <3>6. \A e \in Cs(G) : ~CoreLess(e.core, y.core)
      <4>1. ~CoreLess(x.core, y.core)
        BY <1>1, <3>2, <3>3, CoreAssumption DEF CoreLess
      <4>2. ASSUME NEW e \in Cs(H) PROVE ~CoreLess(e.core, y.core)
        BY <1>1, <3>1, <3>2, <3>3, <3>4, CoreAssumption DEF CoreLess
      <4> QED BY <1>2, <4>1, <4>2 DEF CoreOf
    <3> QED BY <3>5, <3>6 DEF HoldsEarliest
  <2> QED BY <2>1, <2>2
<1>5. HoldsNewest(y, a, G)
  <2>1. r.nickname \in Nicknames \cup {NoNickname}
    BY DEF Records, NotAdmitted
  <2>2. y.nickname = BetterNickname(r.nickname, x.nickname)
    <3>1. CASE r.core = NoCore
      <4>1. r = NotAdmitted
        BY <3>1, CoreAssumption DEF Records, NoCore
      <4> QED BY <1>1, <3>1, <4>1, NicknameAssumption
              DEF InsertRecord, NotAdmitted, BetterNickname, NicknameLess, NoNickname
    <3> QED BY <3>1 DEF InsertRecord
  <2>3. CASE x.nickname = NoNickname
    <3>1. y.nickname = r.nickname
      BY <2>1, <2>2, <2>3, NicknameAssumption DEF BetterNickname, NicknameLess, NoNickname
    <3> QED BY <1>3, <2>3, <3>1 DEF Join, HoldsNewest, NamesOf
  <2>4. CASE x.nickname # NoNickname
    <3>1. Ns(G) = Ns(H) \cup {NameOf(a, x.nickname)}
      BY <1>3, <2>4 DEF NamesOf
    <3>2. \A e \in Ns(H) : ~NicknameLess(r.nickname, e.nickname)
      BY DEF Join, HoldsNewest
    <3>3. \A e \in Ns(H) : e.nickname \in Nicknames \cup {NoNickname}
      BY DEF Entries
    <3>4. Ns(H) # {} => NameOf(a, r.nickname) \in Ns(H)
      BY DEF Join, HoldsNewest
    <3>5. Ns(H) = {} => r.nickname = NoNickname
      BY DEF Join, HoldsNewest
    <3>6. NameOf(a, y.nickname) \in Ns(G)
      BY <1>1, <2>2, <2>4, <3>1, <3>4, <3>5, NicknameAssumption
         DEF BetterNickname, NicknameLess, NoNickname
    <3>7. ~NicknameLess(y.nickname, x.nickname)
      BY <1>1, <2>1, <2>2, NicknameAssumption DEF BetterNickname, NicknameLess, NoNickname
    <3>8. ASSUME NEW e \in Ns(H) PROVE ~NicknameLess(y.nickname, e.nickname)
      BY <1>1, <2>1, <2>2, <3>2, <3>3, NicknameAssumption
         DEF BetterNickname, NicknameLess, NoNickname
    <3> QED BY <3>1, <3>6, <3>7, <3>8 DEF HoldsNewest, NameOf
  <2> QED BY <2>3, <2>4
<1> QED BY <1>4, <1>5 DEF Join

\* So does apply_nickname, which drops the name of an unknown author.
LEMMA NameJoins ==
  ASSUME NEW a \in Authors, NEW H \in SUBSET Entries,
         NEW r \in Records \cup {NotAdmitted}, NEW n \in Nicknames \cup {NoNickname},
         Join(r, a, H)
  PROVE  Join(ApplyNickname(r, n), a, H \cup (IF Admitted(r) THEN NamesOf(a, n) ELSE {}))
<1> DEFINE y == ApplyNickname(r, n)
           G == H \cup NamesOf(a, n)
           Ns(S) == {e \in S : e.author = a /\ e.core = NoCore}
<1>1. CASE ~Admitted(r)
  BY <1>1 DEF ApplyNickname
<1>2. CASE Admitted(r)
  <2>1. r \in Records
    BY <1>2 DEF NotAdmitted
  <2>2. y.core = r.core /\ y.nickname = BetterNickname(r.nickname, n)
    BY <1>2, <2>1 DEF ApplyNickname, Records
  <2>3. HoldsEarliest(y, a, G)
    BY <1>2, <2>1, <2>2 DEF Join, HoldsEarliest, NamesOf, NameOf, NotAdmitted
  <2>4. CASE n = NoNickname
    <3>1. y.nickname = r.nickname
      BY <2>1, <2>2, <2>4, NicknameAssumption
         DEF BetterNickname, NicknameLess, NoNickname, Records
    <3> QED BY <1>2, <2>3, <2>4, <3>1 DEF Join, HoldsNewest, NamesOf
  <2>5. CASE n # NoNickname
    <3>1. Ns(G) = Ns(H) \cup {NameOf(a, n)}
      BY <2>5 DEF NamesOf, NameOf
    <3>2. \A e \in Ns(H) : ~NicknameLess(r.nickname, e.nickname)
      BY DEF Join, HoldsNewest
    <3>3. \A e \in Ns(H) : e.nickname \in Nicknames \cup {NoNickname}
      BY DEF Entries
    <3>4. /\ Ns(H) # {} => NameOf(a, r.nickname) \in Ns(H)
          /\ Ns(H) = {} => r.nickname = NoNickname
      BY DEF Join, HoldsNewest
    <3>5. r.nickname \in Nicknames \cup {NoNickname}
      BY <2>1 DEF Records
    <3>6. NameOf(a, y.nickname) \in Ns(G)
      BY <2>2, <2>5, <3>1, <3>4, NicknameAssumption
         DEF BetterNickname, NicknameLess, NoNickname
    <3>7. ~NicknameLess(y.nickname, n)
      BY <2>2, <2>5, <3>5, NicknameAssumption DEF BetterNickname, NicknameLess, NoNickname
    <3>8. ASSUME NEW e \in Ns(H) PROVE ~NicknameLess(y.nickname, e.nickname)
      BY <2>2, <2>5, <3>2, <3>3, <3>5, NicknameAssumption
         DEF BetterNickname, NicknameLess, NoNickname
    <3>9. HoldsNewest(y, a, G)
      BY <3>1, <3>6, <3>7, <3>8 DEF HoldsNewest, NameOf
    <3> QED BY <1>2, <2>3, <3>9 DEF Join
  <2> QED BY <2>4, <2>5
<1> QED BY <1>1, <1>2

\* Entries about other authors do not matter.
LEMMA JoinFrame ==
  ASSUME NEW a, NEW r, NEW H, NEW G, Join(r, a, H), H \subseteq G,
         \A e \in G \ H : e.author # a
  PROVE  Join(r, a, G)
<1>1. /\ {e \in G : e.author = a /\ e.core # NoCore} =
         {e \in H : e.author = a /\ e.core # NoCore}
      /\ {e \in G : e.author = a /\ e.core = NoCore} =
         {e \in H : e.author = a /\ e.core = NoCore}
  OBVIOUS
<1> QED BY <1>1 DEF Join, HoldsEarliest, HoldsNewest

\* The entries of a record are its author's.
LEMMA RecordOfAuthor ==
  ASSUME NEW a, NEW r, NEW e \in RecordOf(a, r)
  PROVE  e.author = a
BY DEF RecordOf, CoreOf, NamesOf, NameOf

JoinAll(reg, H) == \A a \in Authors : Join(reg[a], a, H)

\* Merging a registry joins its entries.
LEMMA MergeJoins ==
  ASSUME NEW reg \in Registries, NEW other \in Registries, NEW H \in SUBSET Entries,
         JoinAll(reg, H)
  PROVE  JoinAll(Merge(reg, other), H \cup EntriesOf(other))
<1> SUFFICES ASSUME NEW a \in Authors
             PROVE  Join(Merge(reg, other)[a], a, H \cup EntriesOf(other))
  BY DEF JoinAll
<1>0. Join(reg[a], a, H)
  BY DEF JoinAll
<1> DEFINE G == H \cup RecordOf(a, other[a])
<1>1. reg[a] \in Records \cup {NotAdmitted} /\ other[a] \in Records \cup {NotAdmitted}
  BY DEF Registries
<1>2. Join(Merge(reg, other)[a], a, G)
  <2>1. CASE Admitted(other[a])
    <3>1. other[a] \in Records
      BY <1>1, <2>1 DEF NotAdmitted
    <3>2. Join(InsertRecord(reg[a], other[a]), a, G)
      BY <1>0, <1>1, <3>1, InsertJoins
    <3> QED BY <2>1, <3>2 DEF Merge
  <2>2. CASE ~Admitted(other[a])
    BY <1>0, <2>2 DEF Merge, RecordOf
  <2> QED BY <2>1, <2>2
<1>3. G \subseteq H \cup EntriesOf(other)
  BY DEF EntriesOf
<1>4. ASSUME NEW e \in (H \cup EntriesOf(other)) \ G PROVE e.author # a
  <2>1. PICK b \in Authors : e \in RecordOf(b, other[b])
    BY <1>4 DEF EntriesOf
  <2> QED BY <1>4, <2>1, RecordOfAuthor
<1> HIDE DEF G
<1> QED BY <1>2, <1>3, <1>4, JoinFrame

\* Applying a delta joins the entries that it tells.
LEMMA ApplyDeltaJoins ==
  ASSUME NEW reg \in Registries, NEW d \in Deltas, NEW H \in SUBSET Entries,
         JoinAll(reg, H)
  PROVE  JoinAll(ApplyDelta(reg, d), H \cup ToldBy(d, ApplyDelta(reg, d)))
<1> DEFINE mid == Merge(reg, d.admissions)
           out == ApplyDelta(reg, d)
           M   == H \cup EntriesOf(d.admissions)
<1>1. d.admissions \in Registries
  BY DEF Deltas
<1>2. mid \in Registries /\ M \in SUBSET Entries
  BY <1>1, MergeType, EntriesType
<1>3. \A b \in Authors : Join(mid[b], b, M)
  BY <1>1, MergeJoins DEF JoinAll
<1> SUFFICES ASSUME NEW a \in Authors
             PROVE  Join(out[a], a, H \cup ToldBy(d, out))
  BY DEF JoinAll
<1> DEFINE G == M \cup (IF Admitted(mid[a]) THEN NamesOf(a, d.nicknames[a]) ELSE {})
<1>4. d.nicknames[a] \in Nicknames \cup {NoNickname} /\ mid[a] \in Records \cup {NotAdmitted}
  BY <1>2 DEF Deltas, Registries
<1>5. \A b \in Authors : out[b] = ApplyNickname(mid[b], d.nicknames[b])
  BY DEF ApplyDelta
<1>6. Admitted(out[a]) <=> Admitted(mid[a])
  <2>1. CASE mid[a] \in Records
    BY <1>5, <2>1 DEF ApplyNickname, Records
  <2>2. CASE mid[a] = NotAdmitted
    BY <1>5, <2>2 DEF ApplyNickname, NotAdmitted
  <2> QED BY <1>4, <2>1, <2>2
<1> HIDE DEF mid, out, M
<1>7. Join(out[a], a, G)
  BY <1>2, <1>3, <1>4, <1>5, NameJoins
<1>8. G \subseteq H \cup ToldBy(d, out)
  BY <1>6 DEF ToldBy, M
<1>9. ASSUME NEW e \in (H \cup ToldBy(d, out)) \ G PROVE e.author # a
  <2>1. PICK b \in Authors : Admitted(out[b]) /\ e \in NamesOf(b, d.nicknames[b])
    BY <1>9 DEF ToldBy, M
  <2>2. e.author = b
    BY <2>1 DEF NamesOf, NameOf
  <2> QED BY <1>6, <1>9, <2>1, <2>2
<1> HIDE DEF G
<1> QED BY <1>7, <1>8, <1>9, JoinFrame

\* An update joins the entries that it tells.
LEMMA UpdatedJoins ==
  ASSUME NEW s \in Registries, NEW H \in SUBSET Entries,
         NEW m, m.kind \in {"state", "delta", "both"},
         m.state \in Registries, m.delta \in Deltas,
         JoinAll(s, H)
  PROVE  JoinAll(Updated(s, m), H \cup Told(s, m))
<1>1. CASE m.kind = "state"
  BY <1>1, MergeJoins DEF Updated, Told
<1>2. CASE m.kind = "delta"
  <2>1. Updated(s, m) = ApplyDelta(s, m.delta) /\ Told(s, m) = ToldBy(m.delta, Updated(s, m))
    BY <1>2 DEF Updated, Told
  <2> QED BY <2>1, ApplyDeltaJoins
<1>3. CASE m.kind = "both"
  <2> DEFINE mid == Merge(s, m.state)
             G == H \cup EntriesOf(m.state)
  <2>1. mid \in Registries /\ G \in SUBSET Entries
    BY MergeType, EntriesType
  <2>2. JoinAll(mid, G)
    BY MergeJoins
  <2>3. /\ Updated(s, m) = ApplyDelta(mid, m.delta)
        /\ H \cup Told(s, m) = G \cup ToldBy(m.delta, Updated(s, m))
    BY <1>3 DEF Updated, Told
  <2> HIDE DEF mid, G
  <2> QED BY <2>1, <2>2, <2>3, ApplyDeltaJoins
<1> QED BY <1>1, <1>2, <1>3

-----------------------------------------------------------------------------
Payload == [kind : {"state", "delta", "both"}, from : Peers, to : Peers,
            state : Registries, delta : Deltas]

\* All that changes a replica or its history is an update.
LEMMA StepsAreUpdates ==
  ASSUME TypeOK, [Next]_vars
  PROVE  \/ UNCHANGED <<state, heard>>
         \/ \E p \in Peers, m \in Payload : Update(p, m)
<1>1. CASE \E p \in Peers : Tick(p)
  BY <1>1 DEF Tick
<1>2. ASSUME NEW p \in Peers, NEW d \in ClientDeltas, Submit(p, d)
      PROVE  \E m \in Payload : Update(p, m)
  <2>1. Delivery(p, p, "delta", EmptyRegistry, d) \in Payload
    BY EmptyType, ClientDeltaType DEF Delivery, Payload
  <2> QED BY <1>2, <2>1 DEF Submit
<1>3. CASE \E p, q \in Peers : Ask(p, q) \/ PushState(p, q) \/ PushBoth(p, q)
  BY <1>3 DEF Ask, PushState, PushBoth, Send
<1>4. ASSUME NEW m \in net, Receive(m)
      PROVE  \E p \in Peers, n \in Payload : Update(p, n)
  BY <1>4 DEF Receive, TypeOK, MessageOK, Payload
<1>5. CASE \E m \in net : Answer(m) \/ Lose(m)
  BY <1>5 DEF Answer, Lose
<1>6. CASE UNCHANGED vars
  BY <1>6 DEF vars
<1> QED BY <1>1, <1>2, <1>3, <1>4, <1>5, <1>6 DEF Next

JoinInv == \A p \in Peers : JoinAll(state[p], heard[p])

\* An update, accepted or not, keeps every replica the join of its history.
LEMMA UpdateKeepsJoin ==
  ASSUME TypeOK, JoinInv, NEW p \in Peers, NEW m \in Payload, Update(p, m)
  PROVE  JoinInv'
<1>1. CASE Accepted(m, clock[p])
  <2>1. m.kind \in {"state", "delta", "both"} /\ m.state \in Registries /\ m.delta \in Deltas
    BY DEF Payload
  <2>2. state[p] \in Registries /\ heard[p] \in SUBSET Entries
    BY DEF TypeOK
  <2>3. JoinAll(Updated(state[p], m), heard[p] \cup Told(state[p], m))
    <3>1. JoinAll(state[p], heard[p])
      BY DEF JoinInv
    <3> QED BY <2>1, <2>2, <3>1, UpdatedJoins
  <2>4. /\ state' = [state EXCEPT ![p] = Updated(state[p], m)]
        /\ heard' = [heard EXCEPT ![p] = heard[p] \cup Told(state[p], m)]
    BY <1>1 DEF Update
  <2>5. ASSUME NEW q \in Peers
        PROVE  JoinAll(state'[q], heard'[q])
    <3>1. CASE q = p
      BY <2>3, <2>4, <3>1 DEF TypeOK
    <3>2. CASE q # p
      <4>1. state'[q] = state[q] /\ heard'[q] = heard[q]
        BY <2>4, <3>2 DEF TypeOK
      <4> QED BY <4>1 DEF JoinInv
    <3> QED BY <3>1, <3>2
  <2> QED BY <2>5 DEF JoinInv, JoinAll, Join, HoldsEarliest, HoldsNewest
<1>2. CASE ~Accepted(m, clock[p])
  BY <1>2 DEF Update, JoinInv, JoinAll, Join, HoldsEarliest, HoldsNewest
<1> QED BY <1>1, <1>2

\* Every replica is the join of its history.
LEMMA JoinInvariant == Spec => []JoinInv
<1>1. Init => JoinInv
  BY DEF Init, JoinInv, JoinAll, Join, HoldsEarliest, HoldsNewest, NotAdmitted
<1>2. TypeOK /\ JoinInv /\ [Next]_vars => JoinInv'
  <2> SUFFICES ASSUME TypeOK, JoinInv, [Next]_vars PROVE JoinInv'
    OBVIOUS
  <2>1. CASE UNCHANGED <<state, heard>>
    BY <2>1 DEF JoinInv, JoinAll, Join, HoldsEarliest, HoldsNewest
  <2>2. CASE \E p \in Peers, m \in Payload : Update(p, m)
    BY <2>2, UpdateKeepsJoin
  <2> QED BY <2>1, <2>2, StepsAreUpdates
<1> QED BY <1>1, <1>2, TypeCorrect, PTL DEF Spec

\* On every replica each author has the earliest of the admissions and the
\* newest of the nicknames that the replica was told, in whatever order, how
\* often and by whichever mix of deltas and states.
THEOREM ReplicasAreJoins == Spec => []RecordsAreJoins
<1>1. JoinInv => RecordsAreJoins
  BY DEF RecordsAreJoins, JoinInv, JoinAll, Join, EarliestCore, NewestNickname
<1> QED BY <1>1, JoinInvariant, PTL

\* The replica of any peer, as the abstract one.
IsJoinOf(reg, H) == reg \in Registries /\ JoinAll(reg, H)

Abstract == INSTANCE Replica WITH
  Facts <- Entries, IsJoin <- IsJoinOf, value <- state[peer], told <- heard[peer]

\* The registry replica of every peer implements the abstract one: it starts empty, and
\* each step of the network is for it a step of learning, or none (RegistryState::merge
\* and apply_delta).
THEOREM ReplicaLearns == peer \in Peers => (Spec => Abstract!Spec)
<1> SUFFICES ASSUME peer \in Peers PROVE Spec => Abstract!Spec
  OBVIOUS
<1>1. Init => Abstract!Init
  BY EmptyType DEF Init, Abstract!Init, IsJoinOf, JoinAll, Join, HoldsEarliest,
                   HoldsNewest, NotAdmitted
<1>2. TypeOK /\ TypeOK' /\ JoinInv' /\ [Next]_vars => [Abstract!Learn]_(Abstract!vars)
  <2> SUFFICES ASSUME TypeOK, TypeOK', JoinInv', [Next]_vars
               PROVE  Abstract!Learn \/ UNCHANGED <<state[peer], heard[peer]>>
    BY DEF Abstract!vars
  <2>1. CASE UNCHANGED <<state, heard>>
    BY <2>1
  <2>2. ASSUME NEW p \in Peers, NEW m \in Payload, Update(p, m)
        PROVE  heard[peer] \subseteq heard'[peer]
    BY <2>2 DEF Update, TypeOK
  <2>3. CASE \E p \in Peers, m \in Payload : Update(p, m)
    <3>1. heard[peer] \subseteq heard'[peer] /\ heard'[peer] \in SUBSET Entries
      BY <2>2, <2>3 DEF TypeOK
    <3>2. IsJoinOf(state'[peer], heard'[peer])
      BY DEF TypeOK, JoinInv, IsJoinOf, JoinAll, Join, HoldsEarliest, HoldsNewest
    <3> QED BY <3>1, <3>2 DEF Abstract!Learn
  <2> QED BY <2>1, <2>3, StepsAreUpdates
<1> QED BY <1>1, <1>2, JoinInvariant, TypeCorrect, PTL DEF Spec, Abstract!Spec

-----------------------------------------------------------------------------
\* The cores, and the nicknames, that the entries of H tell of author a.
CoresOf(a, H) == {e \in H : e.author = a /\ e.core # NoCore}

NicknamesOf(a, H) == {e \in H : e.author = a /\ e.core = NoCore}

\* A join, field by field.
LEMMA JoinFacts ==
  ASSUME NEW a \in Authors, NEW H \in SUBSET Entries,
         NEW r \in Records \cup {NotAdmitted}
  PROVE  /\ \A e \in CoresOf(a, H) : e.core \in Cores
         /\ \A e \in NicknamesOf(a, H) : e.nickname \in Nicknames \cup {NoNickname}
         /\ Join(r, a, H) <=>
              /\ CoresOf(a, H) = {} => r = NotAdmitted
              /\ CoresOf(a, H) # {} => /\ CoreOf(a, r.core) \in CoresOf(a, H)
                                       /\ \A e \in CoresOf(a, H) : ~CoreLess(e.core, r.core)
              /\ NicknamesOf(a, H) = {} => r.nickname = NoNickname
              /\ NicknamesOf(a, H) # {} =>
                   /\ NameOf(a, r.nickname) \in NicknamesOf(a, H)
                   /\ \A e \in NicknamesOf(a, H) : ~NicknameLess(r.nickname, e.nickname)
<1>1. /\ \A e \in CoresOf(a, H) : e.core \in Cores
      /\ \A e \in NicknamesOf(a, H) : e.nickname \in Nicknames \cup {NoNickname}
  BY DEF CoresOf, NicknamesOf, Entries
<1>2. HoldsEarliest(r, a, H) <=>
        /\ CoresOf(a, H) = {} => r = NotAdmitted
        /\ CoresOf(a, H) # {} => /\ CoreOf(a, r.core) \in CoresOf(a, H)
                                 /\ \A e \in CoresOf(a, H) : ~CoreLess(e.core, r.core)
  BY DEF HoldsEarliest, CoresOf
<1>3. HoldsNewest(r, a, H) <=>
        /\ NicknamesOf(a, H) = {} => r.nickname = NoNickname
        /\ NicknamesOf(a, H) # {} =>
             /\ NameOf(a, r.nickname) \in NicknamesOf(a, H)
             /\ \A e \in NicknamesOf(a, H) : ~NicknameLess(r.nickname, e.nickname)
  BY DEF HoldsNewest, NicknamesOf
<1> QED BY <1>1, <1>2, <1>3 DEF Join

\* The two orders are total, and their ties are one core or one nickname.
LEMMA OrdersTotal ==
  /\ \A c, d \in Cores :
       /\ ~CoreLess(c, d) /\ ~CoreLess(d, c) => c = d
       /\ \A e \in Cores : CoreLess(c, d) /\ CoreLess(e, c) => CoreLess(e, d)
       /\ ~CoreLess(c, d) \/ ~CoreLess(d, c)
       /\ \A e \in Cores : ~CoreLess(e, d) /\ ~CoreLess(d, c) => ~CoreLess(e, c)
  /\ \A n, m \in Nicknames \cup {NoNickname} :
       /\ n.version \in Nat /\ n.sig \in Nat
       /\ ~NicknameLess(n, m) /\ ~NicknameLess(m, n) => n = m
       /\ ~NicknameLess(n, NoNickname)
<1>1. ASSUME NEW c \in Cores
      PROVE  c.ts \in Nat /\ c.sig \in Nat
  BY CoreAssumption
<1>2. ASSUME NEW c \in Cores, NEW d \in Cores, c.ts = d.ts, c.sig = d.sig
      PROVE  c = d
  BY <1>2, CoreAssumption
<1>3. ASSUME NEW n \in Nicknames \cup {NoNickname}
      PROVE  /\ n.version \in Nat /\ n.sig \in Nat
             /\ n.version = 0 => n = NoNickname
  BY NicknameAssumption DEF NoNickname
<1>4. ASSUME NEW n \in Nicknames \cup {NoNickname}, NEW m \in Nicknames \cup {NoNickname},
             n.version = m.version, n.sig = m.sig
      PROVE  n = m
  BY <1>3, <1>4, NicknameAssumption DEF NoNickname
<1>5. \A c, d \in Cores :
        /\ ~CoreLess(c, d) /\ ~CoreLess(d, c) => c = d
        /\ \A e \in Cores : CoreLess(c, d) /\ CoreLess(e, c) => CoreLess(e, d)
        /\ ~CoreLess(c, d) \/ ~CoreLess(d, c)
        /\ \A e \in Cores : ~CoreLess(e, d) /\ ~CoreLess(d, c) => ~CoreLess(e, c)
  BY <1>1, <1>2 DEF CoreLess
<1>6. \A n, m \in Nicknames \cup {NoNickname} :
        /\ n.version \in Nat /\ n.sig \in Nat
        /\ ~NicknameLess(n, m) /\ ~NicknameLess(m, n) => n = m
        /\ ~NicknameLess(n, NoNickname)
  BY <1>3, <1>4 DEF NicknameLess, NoNickname
<1> QED BY <1>5, <1>6

\* No two records are the join of the same entries: the signatures break the ties.
LEMMA OneJoin ==
  ASSUME NEW a \in Authors, NEW H \in SUBSET Entries,
         NEW r \in Records \cup {NotAdmitted}, NEW s \in Records \cup {NotAdmitted},
         Join(r, a, H), Join(s, a, H)
  PROVE  r = s
<1>1. CASE CoresOf(a, H) = {}
  BY <1>1, JoinFacts
<1>2. CASE CoresOf(a, H) # {}
  <2>1. /\ CoreOf(a, r.core) \in CoresOf(a, H) /\ CoreOf(a, s.core) \in CoresOf(a, H)
        /\ ~CoreLess(r.core, s.core) /\ ~CoreLess(s.core, r.core)
    BY <1>2, JoinFacts DEF CoreOf
  <2>2. r.core # NoCore /\ s.core # NoCore /\ r \in Records /\ s \in Records
    BY <2>1 DEF CoresOf, CoreOf, NotAdmitted
  <2>3. r.core = s.core
    BY <2>1, <2>2, CoreAssumption DEF CoreLess, Records
  <2>4. r.nickname = s.nickname
    <3>1. CASE NicknamesOf(a, H) = {}
      BY <3>1, JoinFacts
    <3>2. CASE NicknamesOf(a, H) # {}
      <4>1. ~NicknameLess(r.nickname, s.nickname) /\ ~NicknameLess(s.nickname, r.nickname)
        <5>1. /\ NameOf(a, r.nickname) \in NicknamesOf(a, H)
              /\ NameOf(a, s.nickname) \in NicknamesOf(a, H)
              /\ \A e \in NicknamesOf(a, H) : ~NicknameLess(r.nickname, e.nickname)
              /\ \A e \in NicknamesOf(a, H) : ~NicknameLess(s.nickname, e.nickname)
          BY <3>2, JoinFacts
        <5>2. /\ NameOf(a, r.nickname).nickname = r.nickname
              /\ NameOf(a, s.nickname).nickname = s.nickname
          BY DEF NameOf
        <5> QED BY <5>1, <5>2
      <4>2. /\ r.nickname \in Nicknames \cup {NoNickname}
            /\ s.nickname \in Nicknames \cup {NoNickname}
        BY <2>2 DEF Records
      <4> QED BY <4>1, <4>2, OrdersTotal
    <3> QED BY <3>1, <3>2
  <2> QED BY <2>2, <2>3, <2>4 DEF Records
<1> QED BY <1>1, <1>2

\* What inserting one join into another joins: all that either was told.
LEMMA JoinsJoin ==
  ASSUME NEW a \in Authors, NEW H \in SUBSET Entries, NEW G \in SUBSET Entries,
         NEW r \in Records \cup {NotAdmitted}, NEW s \in Records \cup {NotAdmitted},
         Join(r, a, H), Join(s, a, G)
  PROVE  Join(IF Admitted(s) THEN InsertRecord(r, s) ELSE r, a, H \cup G)
<1> DEFINE y == IF Admitted(s) THEN InsertRecord(r, s) ELSE r
<1>1. /\ CoresOf(a, H \cup G) = CoresOf(a, H) \cup CoresOf(a, G)
      /\ NicknamesOf(a, H \cup G) = NicknamesOf(a, H) \cup NicknamesOf(a, G)
      /\ H \cup G \in SUBSET Entries
  BY DEF CoresOf, NicknamesOf
<1>2. /\ y \in Records \cup {NotAdmitted}
      /\ ~Admitted(r) <=> r = NotAdmitted
      /\ ~Admitted(s) <=> s = NotAdmitted
      /\ Admitted(r) => r \in Records
      /\ Admitted(s) => s \in Records
  <2>1. NoCore \notin Cores
    BY CoreAssumption DEF NoCore
  <2>2. /\ ~Admitted(NotAdmitted)
        /\ \A x \in Records : Admitted(x) /\ x # NotAdmitted
    BY <2>1 DEF Records, NotAdmitted
  <2>3. Admitted(s) => InsertRecord(r, s) \in Records
    BY <2>2, RecordOps
  <2> QED BY <2>2, <2>3
<1>3. /\ Admitted(r) <=> CoresOf(a, H) # {}
      /\ Admitted(s) <=> CoresOf(a, G) # {}
  <2>1. /\ CoresOf(a, H) = {} => r = NotAdmitted
        /\ CoresOf(a, H) # {} => CoreOf(a, r.core) \in CoresOf(a, H)
        /\ CoresOf(a, G) = {} => s = NotAdmitted
        /\ CoresOf(a, G) # {} => CoreOf(a, s.core) \in CoresOf(a, G)
    BY JoinFacts
  <2>2. /\ CoresOf(a, H) # {} => r.core # NoCore
        /\ CoresOf(a, G) # {} => s.core # NoCore
    BY <2>1 DEF CoresOf, CoreOf
  <2> QED BY <2>1, <2>2 DEF NotAdmitted
<1>4. /\ ~Admitted(s) => y = r
      /\ Admitted(s) /\ ~Admitted(r) => y = s
      /\ Admitted(s) /\ Admitted(r) =>
           /\ y.core = IF CoreLess(s.core, r.core) THEN s.core ELSE r.core
           /\ y.nickname = BetterNickname(r.nickname, s.nickname)
  BY DEF InsertRecord
<1>5. y.nickname = BetterNickname(r.nickname, s.nickname)
  <2>1. ~Admitted(r) => r.nickname = NoNickname
    BY <1>2 DEF NotAdmitted
  <2>2. ~Admitted(s) => s.nickname = NoNickname
    BY <1>2 DEF NotAdmitted
  <2>3. /\ r.nickname \in Nicknames \cup {NoNickname}
        /\ s.nickname \in Nicknames \cup {NoNickname}
    BY <1>2, <2>1, <2>2 DEF Records
  <2>4. /\ BetterNickname(r.nickname, NoNickname) = r.nickname
        /\ BetterNickname(NoNickname, s.nickname) = s.nickname
    BY <2>3, NicknameAssumption DEF BetterNickname, NicknameLess, NoNickname
  <2> QED BY <1>4, <2>1, <2>2, <2>4
<1> HIDE DEF y
<1>6. CoresOf(a, H \cup G) = {} => y = NotAdmitted
  BY <1>1, <1>2, <1>3, <1>4
<1>7. ASSUME CoresOf(a, H \cup G) # {}
      PROVE  /\ CoreOf(a, y.core) \in CoresOf(a, H \cup G)
             /\ \A e \in CoresOf(a, H \cup G) : ~CoreLess(e.core, y.core)
  <2>1. CASE ~Admitted(s)
    BY <1>1, <1>3, <1>4, <1>7, <2>1, JoinFacts
  <2>2. CASE Admitted(s) /\ ~Admitted(r)
    BY <1>1, <1>3, <1>4, <1>7, <2>2, JoinFacts
  <2>3. CASE Admitted(s) /\ Admitted(r)
    <3>1. /\ CoreOf(a, r.core) \in CoresOf(a, H) /\ CoreOf(a, s.core) \in CoresOf(a, G)
          /\ \A e \in CoresOf(a, H) : e.core \in Cores /\ ~CoreLess(e.core, r.core)
          /\ \A e \in CoresOf(a, G) : e.core \in Cores /\ ~CoreLess(e.core, s.core)
      BY <1>3, <2>3, JoinFacts
    <3>2. r.core \in Cores /\ s.core \in Cores
      BY <1>2, <2>3 DEF Records
    <3>3. CASE CoreLess(s.core, r.core)
      <4>1. y.core = s.core
        BY <1>4, <2>3, <3>3
      <4>2. \A e \in CoresOf(a, H) : ~CoreLess(e.core, s.core)
        BY <3>1, <3>2, <3>3, OrdersTotal
      <4> QED BY <1>1, <3>1, <4>1, <4>2
    <3>4. CASE ~CoreLess(s.core, r.core)
      <4>1. y.core = r.core
        BY <1>4, <2>3, <3>4
      <4>2. \A e \in CoresOf(a, G) : ~CoreLess(e.core, r.core)
        BY <3>1, <3>2, <3>4, OrdersTotal
      <4> QED BY <1>1, <3>1, <4>1, <4>2
    <3> QED BY <3>3, <3>4
  <2> QED BY <2>1, <2>2, <2>3
<1>8. /\ NicknamesOf(a, H \cup G) = {} => y.nickname = NoNickname
      /\ NicknamesOf(a, H \cup G) # {} =>
           /\ NameOf(a, y.nickname) \in NicknamesOf(a, H \cup G)
           /\ \A e \in NicknamesOf(a, H \cup G) : ~NicknameLess(y.nickname, e.nickname)
  <2>1. /\ r.nickname \in Nicknames \cup {NoNickname}
        /\ s.nickname \in Nicknames \cup {NoNickname}
    BY <1>2 DEF Records, NotAdmitted
  <2>2. /\ \A e \in NicknamesOf(a, H) :
             e.nickname \in Nicknames \cup {NoNickname} /\ ~NicknameLess(r.nickname, e.nickname)
        /\ \A e \in NicknamesOf(a, G) :
             e.nickname \in Nicknames \cup {NoNickname} /\ ~NicknameLess(s.nickname, e.nickname)
        /\ NicknamesOf(a, H) = {} => r.nickname = NoNickname
        /\ NicknamesOf(a, G) = {} => s.nickname = NoNickname
        /\ NicknamesOf(a, H) # {} => NameOf(a, r.nickname) \in NicknamesOf(a, H)
        /\ NicknamesOf(a, G) # {} => NameOf(a, s.nickname) \in NicknamesOf(a, G)
    BY JoinFacts
  <2>3. /\ y.nickname \in {r.nickname, s.nickname}
        /\ r.nickname = NoNickname => y.nickname = s.nickname
        /\ s.nickname = NoNickname => y.nickname = r.nickname
        /\ \A o \in Nicknames \cup {NoNickname} :
             ~NicknameLess(r.nickname, o) \/ ~NicknameLess(s.nickname, o)
               => ~NicknameLess(y.nickname, o)
    BY <1>5, <2>1, OrdersTotal DEF BetterNickname, NicknameLess, NoNickname
  <2>4. ASSUME NEW e \in NicknamesOf(a, H \cup G) PROVE ~NicknameLess(y.nickname, e.nickname)
    BY <1>1, <2>2, <2>3
  <2>5. CASE NicknamesOf(a, H) = {} /\ NicknamesOf(a, G) = {}
    BY <1>1, <2>2, <2>3, <2>5
  <2>6. CASE NicknamesOf(a, H) = {} /\ NicknamesOf(a, G) # {}
    BY <1>1, <2>2, <2>3, <2>4, <2>6
  <2>7. CASE NicknamesOf(a, H) # {} /\ NicknamesOf(a, G) = {}
    BY <1>1, <2>2, <2>3, <2>4, <2>7
  <2>8. CASE NicknamesOf(a, H) # {} /\ NicknamesOf(a, G) # {}
    BY <1>1, <2>2, <2>3, <2>4, <2>8
  <2> QED BY <2>5, <2>6, <2>7, <2>8
<1>9. Join(y, a, H \cup G)
  BY <1>1, <1>2, <1>6, <1>7, <1>8, JoinFacts
<1> QED BY <1>9 DEF y

\* So do whole registries.
LEMMA MergeOfJoins ==
  ASSUME NEW H \in SUBSET Entries, NEW G \in SUBSET Entries,
         NEW reg \in Registries, NEW other \in Registries, JoinAll(reg, H), JoinAll(other, G)
  PROVE  JoinAll(Merge(reg, other), H \cup G) /\ Merge(reg, other) \in Registries
<1>1. ASSUME NEW a \in Authors PROVE Join(Merge(reg, other)[a], a, H \cup G)
  <2>1. /\ reg[a] \in Records \cup {NotAdmitted} /\ other[a] \in Records \cup {NotAdmitted}
        /\ Join(reg[a], a, H) /\ Join(other[a], a, G)
    BY DEF Registries, JoinAll
  <2>2. Join(IF Admitted(other[a]) THEN InsertRecord(reg[a], other[a]) ELSE reg[a], a, H \cup G)
    BY <2>1, JoinsJoin
  <2>3. Merge(reg, other)[a] =
          IF Admitted(other[a]) THEN InsertRecord(reg[a], other[a]) ELSE reg[a]
    BY DEF Merge
  <2> QED BY <2>2, <2>3
<1> QED BY <1>1, MergeType DEF JoinAll

LEMMA OneRegistry ==
  ASSUME NEW H \in SUBSET Entries, NEW reg \in Registries, NEW other \in Registries,
         JoinAll(reg, H), JoinAll(other, H)
  PROVE  reg = other
<1>1. ASSUME NEW a \in Authors PROVE reg[a] = other[a]
  BY OneJoin DEF Registries, JoinAll
<1> QED BY <1>1 DEF Registries

\* Peers that were told the same admissions and nicknames have the same registry, ties of
\* admission times and of nickname versions included.
HoldAlike == \A p, q \in Peers : heard[p] = heard[q] => state[p] = state[q]

THEOREM RegistriesHoldAlike == Spec => []HoldAlike
<1>1. TypeOK /\ JoinInv => HoldAlike
  BY OneRegistry DEF TypeOK, JoinInv, HoldAlike
<1> QED BY <1>1, JoinInvariant, TypeCorrect, PTL

\* Merges of registries are joins of what the two were told: it does not matter which peer
\* merges, in what order, or how often.  (registry.rs: "any arrival order converges".)
MergesAreJoins ==
  \A p, q, r \in Peers :
    /\ JoinAll(Merge(state[p], state[q]), heard[p] \cup heard[q])
    /\ Merge(state[p], state[q]) = Merge(state[q], state[p])
    /\ Merge(state[p], Merge(state[q], state[r])) = Merge(Merge(state[p], state[q]), state[r])
    /\ Merge(state[p], state[p]) = state[p]

THEOREM RegistriesFormASemilattice == Spec => []MergesAreJoins
<1>1. TypeOK /\ JoinInv => MergesAreJoins
  <2> SUFFICES ASSUME TypeOK, JoinInv, NEW p \in Peers, NEW q \in Peers, NEW r \in Peers
               PROVE  /\ JoinAll(Merge(state[p], state[q]), heard[p] \cup heard[q])
                      /\ Merge(state[p], state[q]) = Merge(state[q], state[p])
                      /\ Merge(state[p], Merge(state[q], state[r]))
                           = Merge(Merge(state[p], state[q]), state[r])
                      /\ Merge(state[p], state[p]) = state[p]
    BY DEF MergesAreJoins
  <2> DEFINE H == heard[p]
             G == heard[q]
             F == heard[r]
  <2>1. /\ state[p] \in Registries /\ state[q] \in Registries /\ state[r] \in Registries
        /\ JoinAll(state[p], H) /\ JoinAll(state[q], G) /\ JoinAll(state[r], F)
        /\ H \in SUBSET Entries /\ G \in SUBSET Entries /\ F \in SUBSET Entries
    BY DEF TypeOK, JoinInv
  <2>2. /\ H \cup G \in SUBSET Entries /\ G \cup F \in SUBSET Entries
        /\ H \cup (G \cup F) \in SUBSET Entries
        /\ G \cup H = H \cup G /\ (H \cup G) \cup F = H \cup (G \cup F) /\ H \cup H = H
    BY <2>1
  <2> HIDE DEF H, G, F
  <2>3. /\ JoinAll(Merge(state[p], state[q]), H \cup G) /\ Merge(state[p], state[q]) \in Registries
        /\ JoinAll(Merge(state[q], state[p]), H \cup G) /\ Merge(state[q], state[p]) \in Registries
        /\ JoinAll(Merge(state[q], state[r]), G \cup F) /\ Merge(state[q], state[r]) \in Registries
        /\ JoinAll(Merge(state[p], state[p]), H) /\ Merge(state[p], state[p]) \in Registries
    BY <2>1, <2>2, MergeOfJoins
  <2>4. /\ JoinAll(Merge(state[p], Merge(state[q], state[r])), H \cup (G \cup F))
        /\ Merge(state[p], Merge(state[q], state[r])) \in Registries
    BY <2>1, <2>2, <2>3, MergeOfJoins
  <2>5. /\ JoinAll(Merge(Merge(state[p], state[q]), state[r]), H \cup (G \cup F))
        /\ Merge(Merge(state[p], state[q]), state[r]) \in Registries
    BY <2>1, <2>2, <2>3, MergeOfJoins
  <2>6. JoinAll(Merge(state[p], state[q]), heard[p] \cup heard[q])
    BY <2>3 DEF H, G
  <2> QED BY <2>1, <2>2, <2>3, <2>4, <2>5, <2>6, OneRegistry
<1> QED BY <1>1, JoinInvariant, TypeCorrect, PTL

\* One answer settles: a replica that has applied what another had for its summary is one
\* for which the other has nothing more, and to go by the summaries it was told as much
\* as by the whole state.  (RegistryState::delta: "None means converged".)
Answered(reg, other) == ApplyDelta(reg, Delta(other, Summarize(reg)))

AnswersSettle ==
  \A p, q \in Peers :
    LET answered == Answered(state[p], state[q])
    IN  /\ Delta(state[q], Summarize(answered)) = NoDelta
        /\ Summarize(answered) = Summarize(Merge(state[p], state[q]))

LEMMA AnswerTells ==
  ASSUME NEW reg \in Registries, NEW other \in Registries
  PROVE  /\ Delta(other, Summarize(Answered(reg, other))) = NoDelta
         /\ Summarize(Answered(reg, other)) = Summarize(Merge(reg, other))
<1> DEFINE d == Delta(other, Summarize(reg))
           out == Answered(reg, other)
           all == Merge(reg, other)
<1>1. ASSUME NEW a \in Authors
      PROVE  /\ Admitted(out[a]) <=> Admitted(reg[a]) \/ Admitted(other[a])
             /\ Admitted(all[a]) <=> Admitted(reg[a]) \/ Admitted(other[a])
             /\ Admitted(out[a]) => out[a].nickname.version = all[a].nickname.version
             /\ Admitted(other[a]) => ~(other[a].nickname.version > out[a].nickname.version)
  <2>1. reg[a] \in Records \cup {NotAdmitted} /\ other[a] \in Records \cup {NotAdmitted}
    BY DEF Registries
  <2>2. /\ ~Admitted(NotAdmitted)
        /\ \A x \in Records : /\ Admitted(x) /\ x.nickname \in Nicknames \cup {NoNickname}
                             /\ x.core \in Cores
    BY CoreAssumption DEF NotAdmitted, Records, NoCore
  <2>3. /\ out[a] = ApplyNickname(Merge(reg, d.admissions)[a], d.nicknames[a])
        /\ Merge(reg, d.admissions)[a] =
             IF Admitted(d.admissions[a]) THEN InsertRecord(reg[a], d.admissions[a]) ELSE reg[a]
        /\ all[a] = IF Admitted(other[a]) THEN InsertRecord(reg[a], other[a]) ELSE reg[a]
    BY DEF Answered, ApplyDelta, Merge
  <2>4. /\ d.admissions[a] = IF Admitted(reg[a]) THEN NotAdmitted ELSE other[a]
        /\ d.nicknames[a] = IF /\ Admitted(reg[a]) /\ Admitted(other[a])
                                /\ other[a].nickname.version > reg[a].nickname.version
                             THEN other[a].nickname ELSE NoNickname
    BY DEF Delta, Summarize
  <2> HIDE DEF d, out, all
  <2>5. CASE ~Admitted(reg[a])
    <3>1. Merge(reg, d.admissions)[a] = IF Admitted(other[a]) THEN other[a] ELSE reg[a]
      BY <2>3, <2>4, <2>5 DEF InsertRecord
    <3>2. d.nicknames[a] = NoNickname
      BY <2>4, <2>5
    <3>3. all[a] = IF Admitted(other[a]) THEN other[a] ELSE reg[a]
      BY <2>3, <2>5 DEF InsertRecord
    <3>4. CASE ~Admitted(other[a])
      BY <2>3, <2>5, <3>1, <3>3, <3>4 DEF ApplyNickname
    <3>5. CASE Admitted(other[a])
      <4>1. other[a] \in Records /\ other[a].nickname \in Nicknames \cup {NoNickname}
        BY <2>1, <2>2, <3>5
      <4>2. BetterNickname(other[a].nickname, NoNickname) = other[a].nickname
        BY <4>1, OrdersTotal DEF BetterNickname
      <4>3. out[a].core = other[a].core /\ out[a].nickname = other[a].nickname
        BY <2>3, <3>1, <3>2, <3>5, <4>1, <4>2 DEF ApplyNickname, Records
      <4> QED BY <3>3, <3>5, <4>1, <4>3, OrdersTotal
    <3> QED BY <3>4, <3>5
  <2>6. CASE Admitted(reg[a])
    <3>1. /\ reg[a] \in Records /\ reg[a].nickname \in Nicknames \cup {NoNickname}
      BY <2>1, <2>2, <2>6
    <3>2. Merge(reg, d.admissions)[a] = reg[a]
      BY <2>2, <2>3, <2>4, <2>6
    <3>3. /\ out[a].core = reg[a].core
          /\ out[a].nickname = BetterNickname(reg[a].nickname, d.nicknames[a])
      BY <2>3, <2>6, <3>1, <3>2 DEF ApplyNickname, Records
    <3>4. CASE ~Admitted(other[a])
      <4>1. d.nicknames[a] = NoNickname /\ all[a] = reg[a]
        BY <2>3, <2>4, <3>4
      <4> QED BY <2>6, <3>1, <3>3, <3>4, <4>1, OrdersTotal DEF BetterNickname
    <3>5. CASE Admitted(other[a])
      <4>1. other[a] \in Records /\ other[a].nickname \in Nicknames \cup {NoNickname}
        BY <2>1, <2>2, <3>5
      <4>2. all[a].nickname = BetterNickname(reg[a].nickname, other[a].nickname)
            /\ all[a].core \in Cores
        BY <2>2, <2>3, <2>6, <3>1, <3>5, <4>1 DEF InsertRecord
      <4>3. /\ out[a].nickname.version = all[a].nickname.version
            /\ ~(other[a].nickname.version > out[a].nickname.version)
        BY <2>4, <2>6, <3>1, <3>3, <3>5, <4>1, <4>2, OrdersTotal
           DEF BetterNickname, NicknameLess, NoNickname
      <4>4. Admitted(all[a]) /\ Admitted(out[a])
        BY <2>6, <3>3, <4>2, CoreAssumption DEF NoCore
      <4> QED BY <2>6, <4>3, <4>4
    <3> QED BY <3>4, <3>5
  <2> QED BY <2>5, <2>6
<1> HIDE DEF out, all
<1>2. Summarize(out) = Summarize(all)
  <2>1. {b \in Authors : Admitted(out[b])} = {b \in Authors : Admitted(all[b])}
    BY <1>1
  <2> QED BY <1>1, <2>1 DEF Summarize
<1>3. Delta(other, Summarize(out)) = NoDelta
  <2> DEFINE left == Delta(other, Summarize(out))
  <2>1. ASSUME NEW a \in Authors
        PROVE  /\ left.admissions[a] = NotAdmitted
               /\ left.nicknames[a] = NoNickname
    <3>1. /\ a \in DOMAIN Summarize(out) <=> Admitted(out[a])
          /\ Admitted(out[a]) => Summarize(out)[a] = out[a].nickname.version
      BY DEF Summarize
    <3>2. other[a] = NotAdmitted \/ Admitted(other[a])
      BY CoreAssumption DEF Registries, Records, NoCore
    <3> QED BY <1>1, <3>1, <3>2 DEF Delta
  <2>2. left = [admissions |-> [a \in Authors |-> left.admissions[a]],
                nicknames |-> [a \in Authors |-> left.nicknames[a]]]
    BY DEF Delta
  <2> HIDE DEF left
  <2>3. left = NoDelta
    BY <2>1, <2>2
  <2> QED BY <2>3 DEF left
<1> QED BY <1>2, <1>3 DEF out, all

THEOREM OneAnswerSettles == Spec => []AnswersSettle
<1>1. TypeOK => AnswersSettle
  BY AnswerTells DEF TypeOK, AnswersSettle
<1> QED BY <1>1, TypeCorrect, PTL

-----------------------------------------------------------------------------
\* Record y replaces x without undoing its admission.
KeepsAdmission(x, y) ==
  Admitted(x) => Admitted(y) /\ (y.core = x.core \/ CoreLess(y.core, x.core))

KeepsAll(reg, new) == \A a \in Authors : KeepsAdmission(reg[a], new[a])

\* A merge takes no admission back.
LEMMA MergeKeeps ==
  ASSUME NEW reg \in Registries, NEW other \in Registries
  PROVE  KeepsAll(reg, Merge(reg, other))
BY DEF KeepsAll, KeepsAdmission, Merge, InsertRecord

\* Nor does a delta, whose nicknames leave the admissions alone.
LEMMA ApplyDeltaKeeps ==
  ASSUME NEW reg \in Registries, NEW d \in Deltas
  PROVE  KeepsAll(reg, ApplyDelta(reg, d))
<1>1. Merge(reg, d.admissions) \in Registries /\ KeepsAll(reg, Merge(reg, d.admissions))
  BY MergeType, MergeKeeps DEF Deltas
<1>2. ASSUME NEW x \in Records \cup {NotAdmitted}, NEW n
      PROVE  ApplyNickname(x, n).core = x.core
  BY DEF ApplyNickname, Records, NotAdmitted
<1>3. \A a \in Authors : ApplyDelta(reg, d)[a].core = Merge(reg, d.admissions)[a].core
  BY <1>1, <1>2 DEF ApplyDelta, Registries
<1> QED BY <1>1, <1>3 DEF KeepsAll, KeepsAdmission

\* Nor does an update of any kind.
LEMMA UpdatedKeeps ==
  ASSUME NEW s \in Registries, NEW m, m.kind \in {"state", "delta", "both"},
         m.state \in Registries, m.delta \in Deltas
  PROVE  KeepsAll(s, Updated(s, m))
<1> DEFINE mid == Merge(s, m.state)
<1>1. mid \in Registries /\ KeepsAll(s, mid)
  BY MergeType, MergeKeeps
<1>2. KeepsAll(mid, ApplyDelta(mid, m.delta)) /\ KeepsAll(s, ApplyDelta(s, m.delta))
  BY <1>1, ApplyDeltaKeeps
<1>3. /\ Updated(s, m) = mid \/ Updated(s, m) = ApplyDelta(s, m.delta)
         \/ Updated(s, m) = ApplyDelta(mid, m.delta)
  BY DEF Updated
<1>4. ApplyDelta(mid, m.delta) \in Registries
  BY <1>1, ApplyDeltaType
<1>5. KeepsAll(s, ApplyDelta(mid, m.delta))
  <2> DEFINE out == ApplyDelta(mid, m.delta)
  <2> SUFFICES ASSUME NEW a \in Authors, Admitted(s[a])
               PROVE  KeepsAdmission(s[a], out[a])
    BY DEF KeepsAll, KeepsAdmission
  <2>1. /\ KeepsAdmission(s[a], mid[a]) /\ KeepsAdmission(mid[a], out[a])
    BY <1>1, <1>2 DEF KeepsAll
  <2>2. Admitted(mid[a]) /\ Admitted(out[a])
    BY <2>1 DEF KeepsAdmission
  <2>3. /\ s[a] \in Records /\ mid[a] \in Records /\ out[a] \in Records
    <3>1. /\ s[a] \in Records \cup {NotAdmitted} /\ mid[a] \in Records \cup {NotAdmitted}
          /\ out[a] \in Records \cup {NotAdmitted}
      BY <1>1, <1>4 DEF Registries
    <3> QED BY <2>2, <3>1 DEF NotAdmitted
  <2>4. /\ s[a].core \in Cores /\ mid[a].core \in Cores /\ out[a].core \in Cores
    BY <2>3 DEF Records
  <2> HIDE DEF mid, out
  <2> QED BY <2>1, <2>2, <2>4, CoreAssumption DEF KeepsAdmission, CoreLess
<1> QED BY <1>1, <1>2, <1>3, <1>5

\* No step takes an admission back or replaces it by a later one.
THEOREM AdmissionsKept == Spec => AdmissionIsForGood
<1>1. TypeOK /\ [Next]_vars =>
        [\A p \in Peers, a \in Authors : Admitted(state[p][a]) =>
           /\ Admitted(state'[p][a])
           /\ \/ state'[p][a].core = state[p][a].core
              \/ CoreLess(state'[p][a].core, state[p][a].core)]_vars
  <2> SUFFICES ASSUME TypeOK, [Next]_vars, NEW p \in Peers, NEW a \in Authors
               PROVE  KeepsAdmission(state[p][a], state'[p][a])
    BY DEF KeepsAdmission
  <2>1. CASE UNCHANGED state
    BY <2>1 DEF KeepsAdmission
  <2>2. ASSUME NEW q \in Peers, NEW m \in Payload, Update(q, m), Accepted(m, clock[q])
        PROVE  KeepsAdmission(state[p][a], state'[p][a])
    <3>1. state[q] \in Registries
      BY DEF TypeOK
    <3>2. KeepsAll(state[q], Updated(state[q], m))
      BY <3>1, UpdatedKeeps DEF Payload
    <3>3. state' = [state EXCEPT ![q] = Updated(state[q], m)]
      BY <2>2 DEF Update
    <3>4. CASE p = q
      BY <3>2, <3>3, <3>4 DEF KeepsAll, TypeOK
    <3>5. CASE p # q
      BY <3>3, <3>5 DEF KeepsAdmission, TypeOK
    <3> QED BY <3>4, <3>5
  <2> QED BY <2>1, <2>2, StepsAreUpdates DEF Update
<1> QED BY <1>1, TypeCorrect, PTL DEF Spec, AdmissionIsForGood

-----------------------------------------------------------------------------

USE DEF ShownRecords

\* merge.ts chooses the contract's nickname.
LEMMA BetterNicknameSame ==
  ASSUME NEW n \in Nicknames \cup {NoNickname}, NEW m \in Nicknames \cup {NoNickname}
  PROVE  BetterNicknameJs(n, m) = BetterNickname(n, m)
BY NicknameAssumption
   DEF BetterNicknameJs, BetterNickname, NicknameLess, NoNickname

\* merge.ts makes the contract's record of two.
LEMMA InsertRecordSame ==
  ASSUME NEW mine \in Records \cup {NotAdmitted}, NEW r \in Records
  PROVE  InsertRecordJs(mine, r) = InsertRecord(mine, r)
<1>1. CASE ~Admitted(mine)
  BY <1>1 DEF InsertRecordJs, InsertRecord
<1>2. CASE Admitted(mine)
  <2>1. mine \in Records
    BY <1>2 DEF NotAdmitted, NoCore
  <2>2. BetterNicknameJs(mine.nickname, r.nickname)
          = BetterNickname(mine.nickname, r.nickname)
    BY <2>1, BetterNicknameSame DEF Records
  <2> QED BY <1>2, <2>1, <2>2 DEF InsertRecordJs, InsertRecord, Records
<1> QED BY <1>1, <1>2

\* The state that the page puts is the one that the update would have made.
LEMMA MergeSame ==
  ASSUME NEW reg \in Registries, NEW d \in Deltas
  PROVE  MergeRegistryState(reg, d) = ApplyDelta(reg, d)
<1> DEFINE js(a) == IF Admitted(d.admissions[a]) THEN InsertRecordJs(reg[a], d.admissions[a])
                    ELSE reg[a]
           merged == [a \in Authors |-> js(a)]
<1>1. merged = Merge(reg, d.admissions)
  <2> SUFFICES ASSUME NEW a \in Authors, Admitted(d.admissions[a])
               PROVE  InsertRecordJs(reg[a], d.admissions[a])
                        = InsertRecord(reg[a], d.admissions[a])
    BY DEF Merge
  <2>1. reg[a] \in Records \cup {NotAdmitted} /\ d.admissions[a] \in Records
    BY DEF Registries, Deltas, NotAdmitted
  <2> QED BY <2>1, InsertRecordSame
<1>2. merged \in Registries
  BY <1>1, MergeType DEF Deltas
<1>3. ASSUME NEW a \in Authors
      PROVE  (IF Admitted(merged[a])
                THEN [merged[a] EXCEPT !.nickname = BetterNicknameJs(@, d.nicknames[a])]
                ELSE merged[a])
             = ApplyNickname(merged[a], d.nicknames[a])
  <2>1. merged[a] \in Records \cup {NotAdmitted}
    BY <1>2 DEF Registries
  <2>2. d.nicknames[a] \in Nicknames \cup {NoNickname}
    BY DEF Deltas
  <2>3. merged[a].nickname \in Nicknames \cup {NoNickname}
    BY <2>1 DEF Records, NotAdmitted
  <2>4. BetterNicknameJs(merged[a].nickname, d.nicknames[a])
          = BetterNickname(merged[a].nickname, d.nicknames[a])
    BY <2>2, <2>3, BetterNicknameSame
  <2> HIDE DEF merged
  <2> QED BY <2>4 DEF ApplyNickname
<1>4. ApplyDelta(reg, d) = [a \in Authors |-> ApplyNickname(merged[a], d.nicknames[a])]
  BY <1>1 DEF ApplyDelta
<1>5. MergeRegistryState(reg, d) =
        [a \in Authors |->
           IF Admitted(merged[a])
             THEN [merged[a] EXCEPT !.nickname = BetterNicknameJs(@, d.nicknames[a])]
             ELSE merged[a]]
  BY DEF MergeRegistryState
<1> HIDE DEF merged
<1> QED BY <1>3, <1>4, <1>5

\* Whatever delta is about is one.
LEMMA DeltasSeenType == TypeOK => DeltasSeen \subseteq Deltas
BY ClientDeltaType DEF TypeOK, DeltasSeen, MessageOK

-----------------------------------------------------------------------------
\* A nickname that reaches a view and a record alike.
LEMMA NicknameShows ==
  ASSUME NEW v \in ShownRecords,
         NEW r \in Records, NEW n \in Nicknames \cup {NoNickname}, ShowsLike(v, r)
  PROVE  ShowsLike(ApplyNicknameJs(v, n.sig, n.version), ApplyNickname(r, n))
<1> DEFINE w == ApplyNicknameJs(v, n.sig, n.version)
           s == ApplyNickname(r, n)
<1>1. Known(v) /\ Admitted(r)
  BY RecordOps DEF ShowsLike
<1>2. r.nickname \in Nicknames \cup {NoNickname} /\ r.core \in Cores
  BY DEF Records
<1>3. s = [core |-> r.core, nickname |-> BetterNickname(r.nickname, n)]
  BY <1>1 DEF ApplyNickname, Records
<1>4. n.version \in Nat /\ r.nickname.version \in Nat
  BY <1>2, NicknameAssumption DEF NoNickname
<1>5. CASE n.version > r.nickname.version
  <2>1. /\ w.tier = v.tier /\ w.admittedTs = v.admittedTs
        /\ w.nickname = n.sig /\ w.nicknameVersion = n.version
    <3>1. w = [v EXCEPT !.nickname = n.sig, !.nicknameVersion = n.version]
      BY <1>1, <1>5 DEF ApplyNicknameJs, ShowsLike
    <3> QED BY <3>1
  <2>2. s = [core |-> r.core, nickname |-> n]
    BY <1>3, <1>4, <1>5 DEF BetterNickname, NicknameLess
  <2>3. Known(w)
    BY <2>1, <1>4, <1>5 DEF Known, Unknown
  <2>4. Admitted(s) /\ s.core = r.core /\ s.nickname = n
    BY <1>1, <2>2
  <2> QED BY <1>1, <2>1, <2>3, <2>4 DEF ShowsLike
<1>6. CASE ~(n.version > r.nickname.version)
  <2>1. w = v
    BY <1>1, <1>6 DEF ApplyNicknameJs, ShowsLike
  <2>2. s.nickname.version = r.nickname.version
    BY <1>3, <1>4, <1>6 DEF BetterNickname, NicknameLess
  <2>3. ASSUME \A m \in Nicknames : m.version = s.nickname.version => m = s.nickname
        PROVE  s.nickname = r.nickname
    BY <1>2, <1>3, <1>6, <2>2, <2>3, NicknameAssumption
       DEF BetterNickname, NicknameLess, NoNickname
  <2> QED BY <1>1, <1>3, <2>1, <2>2, <2>3 DEF ShowsLike
<1> QED BY <1>5, <1>6

\* What a view keeps of a record shows it.
LEMMA DecodedShows ==
  ASSUME NEW r \in Records \cup {NotAdmitted}
  PROVE  /\ Decoded(r) \in ShownRecords
         /\ ShowsLike(Decoded(r), r)
<1>1. /\ r.core.ts \in Nat /\ r.core.tier \in {"none", "pow", "ghostkey"}
      /\ r.nickname.sig \in Nat /\ r.nickname.version \in Nat
  <2>1. CASE r \in Records
    <3>1. r.core \in Cores /\ r.nickname \in Nicknames \cup {NoNickname}
      BY <2>1 DEF Records
    <3>2. r.core.ts \in Nat /\ r.core.tier \in {"pow", "ghostkey"}
      BY <3>1, CoreAssumption
    <3>3. r.nickname.sig \in Nat /\ r.nickname.version \in Nat
      BY <3>1, NicknameAssumption DEF NoNickname
    <3> QED BY <3>2, <3>3
  <2>2. CASE r = NotAdmitted
    BY <2>2 DEF NotAdmitted, NoCore, NoNickname
  <2> QED BY <2>1, <2>2
<1>2. Known(Decoded(r)) = Admitted(r)
  BY CoreAssumption DEF Records, NotAdmitted, NoCore, NoNickname, Known, Unknown, Decoded
<1> QED BY <1>1, <1>2 DEF Decoded, ShowsLike

\* A record that reaches the view of another.
LEMMA RecordShows ==
  ASSUME NEW mine \in Records \cup {NotAdmitted}, NEW r \in Records
  PROVE  /\ InsertAdmission(Decoded(mine), Decoded(r))
              \in ShownRecords
         /\ ShowsLike(InsertAdmission(Decoded(mine), Decoded(r)), InsertRecord(mine, r))
<1> DEFINE v == Decoded(mine)
           w == Decoded(r)
<1>1. /\ v \in ShownRecords
      /\ w \in ShownRecords
      /\ ShowsLike(v, mine) /\ ShowsLike(w, r)
  BY DecodedShows
<1>2. CASE ~Admitted(mine)
  <2>1. InsertAdmission(v, w) = w /\ InsertRecord(mine, r) = r
    BY <1>1, <1>2 DEF InsertAdmission, InsertRecord, ShowsLike
  <2> QED BY <1>1, <2>1
<1>3. CASE Admitted(mine)
  <2> DEFINE x == IF w.admittedTs < v.admittedTs
                    THEN [v EXCEPT !.tier = w.tier, !.admittedTs = w.admittedTs] ELSE v
             core == IF CoreLess(r.core, mine.core) THEN r.core ELSE mine.core
             s == [core |-> core, nickname |-> mine.nickname]
  <2>1. mine \in Records
    BY <1>3 DEF NotAdmitted
  <2>2. mine.core \in Cores /\ r.core \in Cores /\ s \in Records
    BY <2>1 DEF Records
  <2>3. x \in ShownRecords
    BY <1>1
  <2>4. ShowsLike(x, s)
    <3>1. /\ v.tier = mine.core.tier /\ w.tier = r.core.tier
          /\ v.admittedTs = mine.core.ts /\ w.admittedTs = r.core.ts
          /\ x.nickname = mine.nickname.sig /\ x.nicknameVersion = mine.nickname.version
      BY DEF Decoded
    <3>2. /\ mine.core.ts \in Nat /\ r.core.ts \in Nat
          /\ mine.core.tier # "none" /\ r.core.tier # "none"
      BY <2>2, CoreAssumption
    <3>3. x.tier # "none" /\ x.admittedTs = core.ts
      BY <1>1, <3>1, <3>2 DEF CoreLess
    <3>4. Known(x) /\ Admitted(s)
      <4>1. core \in Cores
        BY <2>2
      <4>2. core # NoCore
        BY <4>1, CoreAssumption DEF NoCore
      <4> HIDE DEF x, core
      <4> QED BY <3>3, <4>2 DEF Known, Unknown
    <3>5. ASSUME \A c \in Cores : c.ts = core.ts => c = core
          PROVE  x.tier = core.tier
      BY <1>1, <2>2, <3>1, <3>2, <3>5 DEF CoreLess
    <3> HIDE DEF x, core
    <3> QED BY <3>1, <3>3, <3>4, <3>5 DEF ShowsLike
  <2>5. r.nickname \in Nicknames \cup {NoNickname}
    BY DEF Records
  <2>6. InsertAdmission(v, w) = ApplyNicknameJs(x, r.nickname.sig, r.nickname.version)
    BY <1>1, <1>3 DEF InsertAdmission, ShowsLike, Decoded
  <2>7. InsertRecord(mine, r) = ApplyNickname(s, r.nickname)
    BY <1>3, <2>2, RecordOps DEF InsertRecord, ApplyNickname
  <2>8. r.nickname.sig \in Nat /\ r.nickname.version \in Nat
    BY <2>5, NicknameAssumption DEF NoNickname
  <2>9. ApplyNicknameJs(x, r.nickname.sig, r.nickname.version)
          \in ShownRecords
    <3> HIDE DEF x
    <3> QED BY <2>3, <2>8 DEF ApplyNicknameJs
  <2> HIDE DEF x, s
  <2> QED BY <2>2, <2>3, <2>4, <2>5, <2>6, <2>7, <2>9, NicknameShows
<1> QED BY <1>2, <1>3

\* A registry that reaches the view of another.
LEMMA MergeShows ==
  ASSUME NEW reg \in Registries, NEW other \in Registries, NEW a \in Authors
  PROVE  /\ MergeIntoView(DecodeRegistryState(reg), other)[a]
              \in ShownRecords
         /\ ShowsLike(MergeIntoView(DecodeRegistryState(reg), other)[a], Merge(reg, other)[a])
<1>1. reg[a] \in Records \cup {NotAdmitted} /\ other[a] \in Records \cup {NotAdmitted}
  BY DEF Registries
<1>2. DecodeRegistryState(reg)[a] = Decoded(reg[a])
  BY DEF DecodeRegistryState
<1>3. CASE Admitted(other[a])
  <2>1. other[a] \in Records
    BY <1>1, <1>3 DEF NotAdmitted
  <2> QED BY <1>1, <1>2, <1>3, <2>1, RecordShows DEF MergeIntoView, Merge
<1>4. CASE ~Admitted(other[a])
  BY <1>1, <1>2, <1>4, DecodedShows DEF MergeIntoView, Merge
<1> QED BY <1>3, <1>4

\* A delta that reaches the view of a registry.
LEMMA DeltaShows ==
  ASSUME NEW reg \in Registries, NEW d \in Deltas, NEW a \in Authors
  PROVE  ShowsLike(ApplyRegistryDelta(DecodeRegistryState(reg), d)[a], ApplyDelta(reg, d)[a])
<1> DEFINE v == MergeIntoView(DecodeRegistryState(reg), d.admissions)[a]
           r == Merge(reg, d.admissions)[a]
           n == d.nicknames[a]
<1>1. /\ v \in ShownRecords
      /\ ShowsLike(v, r)
  BY MergeShows DEF Deltas
<1>2. r \in Records \cup {NotAdmitted}
  BY MergeType DEF Deltas, Registries
<1>3. n \in Nicknames \cup {NoNickname}
  BY DEF Deltas
<1>4. /\ ApplyRegistryDelta(DecodeRegistryState(reg), d)[a]
           = ApplyNicknameJs(v, n.sig, n.version)
      /\ ApplyDelta(reg, d)[a] = ApplyNickname(r, n)
  BY DEF ApplyRegistryDelta, ApplyDelta
<1> HIDE DEF v, r, n
<1>5. CASE Admitted(r)
  <2>1. r \in Records
    BY <1>2, <1>5 DEF NotAdmitted
  <2> QED BY <1>1, <1>3, <1>4, <2>1, NicknameShows
<1>6. CASE ~Admitted(r)
  <2>1. ApplyNicknameJs(v, n.sig, n.version) = v /\ ApplyNickname(r, n) = r
    BY <1>1, <1>6 DEF ShowsLike, ApplyNicknameJs, ApplyNickname
  <2> QED BY <1>1, <1>4, <2>1
<1> QED BY <1>5, <1>6

-----------------------------------------------------------------------------
\* Whatever the network did, the page that falls back to a put sends the state
\* that the contract would have made of its update (merge.ts: "the merged bytes
\* must be exactly what the Rust side would produce").
THEOREM PutsAreUpdates == Spec => []PutsLikeUpdates
<1>1. TypeOK => PutsLikeUpdates
  BY MergeSame, DeltasSeenType DEF TypeOK, PutsLikeUpdates
<1> QED BY <1>1, TypeCorrect, PTL

\* Whatever a page learned of one replica and then of another's state or of a
\* delta, it shows the admission time and the version that the contract would
\* keep, and tier and name but for ties (state.ts, insertAdmission).
THEOREM ViewIsFollowed == Spec => []ViewFollows
<1>1. ASSUME TypeOK PROVE ViewFollows
  <2>1. ASSUME NEW p \in Peers, NEW d \in DeltasSeen, NEW a \in Authors
        PROVE  ShowsLike(ApplyRegistryDelta(DecodeRegistryState(state[p]), d)[a],
                         ApplyDelta(state[p], d)[a])
    BY <1>1, DeltasSeenType, DeltaShows DEF TypeOK
  <2>2. ASSUME NEW p \in Peers, NEW q \in Peers, NEW a \in Authors
        PROVE  ShowsLike(MergeIntoView(DecodeRegistryState(state[p]), state[q])[a],
                         Merge(state[p], state[q])[a])
    BY <1>1, MergeShows DEF TypeOK
  <2> QED BY <2>1, <2>2 DEF ViewFollows
<1> QED BY <1>1, TypeCorrect, PTL

-----------------------------------------------------------------------------
(***************************************************************************)
(* The page of Admission.  First its types, which need to know where a     *)
(* flow can be: the flows in line are those that ask, each of them once.   *)
(***************************************************************************)
HIDE DEF EmptyRegistry, NoDelta, Admitted, ShownRecords

USE NamesAssumption, BoundsAssumption

\* Where a flow can be.
StepsOf(f) ==
  CASE f = "start" -> {"idle", "unneeded", "challenging", "ready", "failed"}
    [] f = "probe" -> {"idle", "probing", "done"}
    [] f = "work" -> {"idle", "searching", "stopped", "signing", "sending", "done", "failed"}
    [] f = "ghost" -> {"idle", "waiting", "proving", "signing", "sending", "done"}
    [] f = "upgrade" -> {"idle", "challenging", "proving", "signing", "sending"}
    [] OTHER -> {"idle", "signing", "sending", "done", "failed"}

StepsOK(steps) ==
  /\ steps \in [Flows -> Steps] /\ \A f \in Flows : steps[f] \in StepsOf(f)
  /\ steps["start"] \in {"idle", "challenging"} => steps["work"] = "idle"

\* Nothing but other pages acts before the page is connected.
Unconnected ==
  pc["start"] = "idle" =>
    /\ \A f \in Flows : pc[f] = "idle" /\ job[f] = NoJob
    /\ view = [a \in Authors |-> Unknown] /\ inbox = <<>>
    /\ asked = [d \in Delegates |-> <<>>]

CountsOK == Len(inbox) <= pushes /\ pushes \in 0 .. MaxPushes

DataOK ==
  /\ time \in 1 .. MaxTime /\ registry \in Registries /\ view \in Views
  /\ inbox \in Seq(Registries)

JobsOK == job \in [Flows -> JobRecords] /\ sent \subseteq Deltas /\ crossed \subseteq Flows

AskedOK(requests) == requests \in [Delegates -> Seq(Requests)]

\* The waiters in line, while f is out of it.
LineWithout(line, f) ==
  /\ line \in Seq(Flows) /\ IsInjective(line)
  /\ ToSet(line) = {g \in Flows : pc[g] \in Asking} \ {f}

Waiting(line, steps) ==
  /\ line \in Seq(Flows) /\ IsInjective(line)
  /\ ToSet(line) = {f \in Flows : steps[f] \in Asking}

PageTypes ==
  /\ StepsOK(pc) /\ Waiting(pendingDelegate, pc) /\ AskedOK(asked)
  /\ JobsOK /\ DataOK /\ CountsOK /\ Unconnected

\* The line without its n-th waiter.
LEMMA RemovedFacts ==
  ASSUME NEW S, NEW s \in Seq(S), NEW n \in DOMAIN s
  PROVE  /\ RemoveAt(s, n) \in Seq(S) /\ Len(RemoveAt(s, n)) = Len(s) - 1
         /\ \A m \in 1 .. Len(s) - 1 : RemoveAt(s, n)[m] = s[IF m < n THEN m ELSE m + 1]
<1>1. n \in 1 .. Len(s) /\ Len(s) \in Nat /\ DOMAIN s = 1 .. Len(s)
  OBVIOUS
<1> DEFINE a == SubSeq(s, 1, n - 1)
           b == SubSeq(s, n + 1, Len(s))
           t == a \o b
<1>2. a \in Seq(S) /\ Len(a) = n - 1 /\ \A m \in 1 .. n - 1 : a[m] = s[m]
  <2>1. 1 \in Int /\ n - 1 \in Int /\ \A i \in 1 .. n - 1 : s[i] \in S
    BY <1>1
  <2>2. /\ a \in Seq(S) /\ Len(a) = IF 1 <= n - 1 THEN n - 1 - 1 + 1 ELSE 0
        /\ \A m \in 1 .. n - 1 - 1 + 1 : a[m] = s[1 + m - 1]
    BY <2>1, SubSeqProperties
  <2> HIDE DEF a
  <2> QED BY <1>1, <2>2
<1>3. /\ b \in Seq(S) /\ Len(b) = Len(s) - n
      /\ \A m \in 1 .. Len(s) - n : b[m] = s[n + m]
  <2>1. n + 1 \in Int /\ Len(s) \in Int /\ \A i \in n + 1 .. Len(s) : s[i] \in S
    BY <1>1
  <2>2. /\ b \in Seq(S)
        /\ Len(b) = IF n + 1 <= Len(s) THEN Len(s) - (n + 1) + 1 ELSE 0
        /\ \A m \in 1 .. Len(s) - (n + 1) + 1 : b[m] = s[(n + 1) + m - 1]
    BY <2>1, SubSeqProperties
  <2> HIDE DEF b
  <2>3. ASSUME NEW m \in 1 .. Len(s) - n PROVE b[m] = s[n + m]
    <3>1. m \in 1 .. Len(s) - (n + 1) + 1 /\ (n + 1) + m - 1 = n + m
      BY <1>1
    <3> QED BY <2>2, <3>1
  <2> QED BY <1>1, <2>2, <2>3
<1> HIDE DEF a, b
<1>4. /\ t \in Seq(S) /\ Len(t) = Len(a) + Len(b)
      /\ \A m \in 1 .. Len(a) + Len(b) : t[m] = IF m <= Len(a) THEN a[m] ELSE b[m - Len(a)]
  BY <1>2, <1>3, ConcatProperties
<1> HIDE DEF t
<1>5. Len(a) + Len(b) = Len(s) - 1
  BY <1>1, <1>2, <1>3
<1>6. ASSUME NEW m \in 1 .. Len(s) - 1, m < n PROVE t[m] = s[m]
  BY <1>1, <1>2, <1>4, <1>5, <1>6
<1>7. ASSUME NEW m \in 1 .. Len(s) - 1, ~(m < n) PROVE t[m] = s[m + 1]
  <2>1. m - (n - 1) \in 1 .. Len(s) - n /\ n + (m - (n - 1)) = m + 1 /\ ~(m <= n - 1)
    BY <1>1, <1>7
  <2>2. t[m] = b[m - (n - 1)]
    BY <1>2, <1>4, <1>5, <2>1
  <2>3. b[m - (n - 1)] = s[n + (m - (n - 1))]
    BY <1>3, <2>1
  <2> QED BY <2>1, <2>2, <2>3
<1>8. RemoveAt(s, n) = t
  BY DEF RemoveAt, t, a, b
<1> QED BY <1>4, <1>5, <1>6, <1>7, <1>8

\* A waiter leaves the line.
LEMMA LeavesLine ==
  ASSUME NEW line \in Seq(Flows), IsInjective(line), NEW n \in DOMAIN line
  PROVE  /\ RemoveAt(line, n) \in Seq(Flows) /\ IsInjective(RemoveAt(line, n))
         /\ ToSet(RemoveAt(line, n)) = ToSet(line) \ {line[n]}
<1> DEFINE t == RemoveAt(line, n)
           at(m) == IF m < n THEN m ELSE m + 1
<1>1. n \in 1 .. Len(line) /\ Len(line) \in Nat /\ DOMAIN line = 1 .. Len(line)
  OBVIOUS
<1>2. /\ t \in Seq(Flows) /\ DOMAIN t = 1 .. Len(line) - 1
      /\ \A m \in 1 .. Len(line) - 1 : t[m] = line[at(m)]
  <2>1. /\ t \in Seq(Flows) /\ Len(t) = Len(line) - 1
        /\ \A m \in 1 .. Len(line) - 1 : t[m] = line[at(m)]
    BY RemovedFacts
  <2> HIDE DEF t, at
  <2> QED BY <1>1, <2>1
<1>3. /\ \A m \in 1 .. Len(line) - 1 : at(m) \in DOMAIN line /\ at(m) # n
      /\ \A l, m \in 1 .. Len(line) - 1 : at(l) = at(m) => l = m
      /\ \A k \in DOMAIN line : k # n => \E m \in 1 .. Len(line) - 1 : at(m) = k
  <2>1. ASSUME NEW k \in DOMAIN line, k # n
        PROVE  \E m \in 1 .. Len(line) - 1 : at(m) = k
    <3>1. CASE k < n
      BY <1>1, <3>1
    <3>2. CASE k > n
      <4>1. k - 1 \in 1 .. Len(line) - 1 /\ at(k - 1) = k
        BY <1>1, <3>2
      <4> QED BY <4>1
    <3> QED BY <1>1, <2>1, <3>1, <3>2
  <2> QED BY <1>1, <2>1
<1> HIDE DEF t, at
<1>4. IsInjective(t)
  BY <1>2, <1>3 DEF IsInjective
<1>5. ToSet(t) = ToSet(line) \ {line[n]}
  <2>1. ToSet(t) = {t[m] : m \in DOMAIN t} /\ ToSet(line) = {line[k] : k \in DOMAIN line}
    BY DEF ToSet
  <2>2. ASSUME NEW m \in DOMAIN t PROVE t[m] \in ToSet(line) \ {line[n]}
    <3>1. at(m) \in DOMAIN line /\ at(m) # n /\ t[m] = line[at(m)]
      BY <1>2, <1>3
    <3> QED BY <2>1, <3>1 DEF IsInjective
  <2>3. ASSUME NEW k \in DOMAIN line, line[k] # line[n] PROVE line[k] \in ToSet(t)
    <3>1. PICK m \in 1 .. Len(line) - 1 : at(m) = k
      BY <1>3, <2>3
    <3> QED BY <1>2, <2>1, <3>1
  <2> QED BY <2>1, <2>2, <2>3
<1> QED BY <1>2, <1>4, <1>5 DEF t

\* A waiter joins it.
LEMMA JoinsLine ==
  ASSUME NEW line \in Seq(Flows), IsInjective(line), NEW f \in Flows, f \notin ToSet(line)
  PROVE  /\ Append(line, f) \in Seq(Flows) /\ IsInjective(Append(line, f))
         /\ ToSet(Append(line, f)) = ToSet(line) \cup {f}
<1> DEFINE t == Append(line, f)
           k == Len(line) + 1
<1>1. /\ t \in Seq(Flows) /\ k \in Nat /\ DOMAIN t = DOMAIN line \cup {k} /\ k \notin DOMAIN line
      /\ t[k] = f /\ \A m \in DOMAIN line : t[m] = line[m]
  OBVIOUS
<1> HIDE DEF t, k
<1>2. \A m \in DOMAIN line : line[m] # f
  BY DEF ToSet
<1> QED BY <1>1, <1>2 DEF t, IsInjective, ToSet

LEMMA FlowNames ==
  /\ {"start", "probe", "work", "ghost", "upgrade"} \subseteq Flows
  /\ Edits \subseteq Flows
  /\ \A f \in Edits : StepsOf(f) = {"idle", "signing", "sending", "done", "failed"}
BY DEF Flows, StepsOf

\* What is asked for is a delta.
LEMMA AskedTypes ==
  /\ NoDelta \in Deltas /\ NoJob \in JobRecords
  /\ \A tier, ts, versions : Admissions(tier, ts, versions) \subseteq Deltas
  /\ \A version : Renamings(version) \subseteq Deltas
<1>1. NoDelta \in Deltas
  BY EmptyType
<1>2. ASSUME NEW r \in Records PROVE AdmissionOf(Me, r) \in Deltas
  BY ClientDeltaType DEF ClientDeltas
<1>3. ASSUME NEW n \in Nicknames PROVE NicknameOf(Me, n) \in Deltas
  BY ClientDeltaType DEF ClientDeltas
<1> QED BY <1>1, <1>2, <1>3 DEF Admissions, Renamings, NoJob, JobRecords

\* A view of a registry, and one that takes in another's records or a delta.
LEMMA ShownTypes ==
  ASSUME NEW r \in Records \cup {NotAdmitted}, NEW v \in ShownRecords,
         NEW n \in Nicknames \cup {NoNickname}
  PROVE  /\ Decoded(r) \in ShownRecords
         /\ InsertAdmission(v, Decoded(r)) \in ShownRecords
         /\ ApplyNicknameJs(v, n.sig, n.version) \in ShownRecords
<1>1. Decoded(r) \in ShownRecords
  BY DecodedShows
<1>2. ASSUME NEW x \in ShownRecords, NEW name \in Nat, NEW version \in Nat
      PROVE  ApplyNicknameJs(x, name, version) \in ShownRecords
  BY DEF ApplyNicknameJs, ShownRecords
<1>3. ASSUME NEW w \in ShownRecords PROVE InsertAdmission(v, w) \in ShownRecords
  <2> DEFINE x == IF w.admittedTs < v.admittedTs
                    THEN [v EXCEPT !.tier = w.tier, !.admittedTs = w.admittedTs] ELSE v
  <2>1. x \in ShownRecords /\ w.nickname \in Nat /\ w.nicknameVersion \in Nat
    BY DEF ShownRecords
  <2>2. InsertAdmission(v, w) =
          IF ~Known(v) THEN w ELSE ApplyNicknameJs(x, w.nickname, w.nicknameVersion)
    BY DEF InsertAdmission
  <2> HIDE DEF x
  <2> QED BY <1>2, <2>1, <2>2
<1>4. n.sig \in Nat /\ n.version \in Nat
  BY NicknameAssumption DEF NoNickname
<1> QED BY <1>1, <1>2, <1>3, <1>4

LEMMA ViewTypes ==
  ASSUME NEW v \in Views, NEW reg \in Registries, NEW d \in Deltas
  PROVE  /\ DecodeRegistryState(reg) \in Views
         /\ MergeIntoView(v, reg) \in Views
         /\ ApplyRegistryDelta(v, d) \in Views
<1>1. ASSUME NEW w \in Views, NEW s \in Registries, NEW a \in Authors
      PROVE  w[a] \in ShownRecords /\ s[a] \in Records \cup {NotAdmitted}
  BY DEF Views, Registries
<1>2. DecodeRegistryState(reg) \in Views
  <2>1. ASSUME NEW a \in Authors PROVE Decoded(reg[a]) \in ShownRecords
    BY <1>1, DecodedShows
  <2> QED BY <2>1 DEF DecodeRegistryState, Views
<1>3. ASSUME NEW s \in Registries PROVE MergeIntoView(v, s) \in Views
  <2>1. ASSUME NEW a \in Authors
        PROVE  (IF Admitted(s[a]) THEN InsertAdmission(v[a], Decoded(s[a])) ELSE v[a])
                 \in ShownRecords
    <3>1. v[a] \in ShownRecords /\ s[a] \in Records \cup {NotAdmitted}
      BY <1>1
    <3>2. InsertAdmission(v[a], Decoded(s[a])) \in ShownRecords
      BY <3>1, ShownTypes
    <3> QED BY <3>1, <3>2
  <2> QED BY <2>1 DEF MergeIntoView, Views
<1>4. ApplyRegistryDelta(v, d) \in Views
  <2> DEFINE w == MergeIntoView(v, d.admissions)
  <2>1. w \in Views /\ d.nicknames \in [Authors -> Nicknames \cup {NoNickname}]
    BY <1>3 DEF Deltas
  <2>2. ApplyRegistryDelta(v, d) =
          [a \in Authors |-> ApplyNicknameJs(w[a], d.nicknames[a].sig, d.nicknames[a].version)]
    BY DEF ApplyRegistryDelta
  <2> HIDE DEF w
  <2>3. ASSUME NEW a \in Authors
        PROVE  ApplyNicknameJs(w[a], d.nicknames[a].sig, d.nicknames[a].version)
                 \in ShownRecords
    <3>1. w[a] \in ShownRecords /\ d.nicknames[a] \in Nicknames \cup {NoNickname}
      BY <1>1, <2>1
    <3> QED BY <3>1, ShownTypes
  <2> QED BY <2>2, <2>3 DEF Views
<1> QED BY <1>2, <1>3, <1>4

\* A flow goes on, which joins the line or not.
LEMMA StepTypes ==
  ASSUME StepsOK(pc), NEW f \in Flows, NEW step \in StepsOf(f) \cap Steps,
         f = "start" => step \in {"unneeded", "failed"} \/ pc["work"] = "idle",
         f = "work" => step = "idle" \/ pc["start"] \notin {"idle", "challenging"}
  PROVE  StepsOK([pc EXCEPT ![f] = step])
BY FlowNames DEF StepsOK

LEMMA RoundTripTypes ==
  ASSUME NEW f \in Flows, NEW step \in Asking, NEW delta \in Deltas, NEW line, NEW requests,
         StepsOK(pc), LineWithout(line, f), AskedOK(requests),
         DelegateRoundTrip(f, step, delta, line, requests)
  PROVE  /\ pc' = [pc EXCEPT ![f] = step]
         /\ Waiting(pendingDelegate', pc') /\ AskedOK(asked')
<1>1. pc' = [pc EXCEPT ![f] = step] /\ pendingDelegate' = Append(line, f)
  BY DEF DelegateRoundTrip
<1>2. /\ Append(line, f) \in Seq(Flows) /\ IsInjective(Append(line, f))
      /\ ToSet(Append(line, f)) = ToSet(line) \cup {f}
  BY JoinsLine DEF LineWithout
<1>3. ToSet(line) \cup {f} = {g \in Flows : pc'[g] \in Asking}
  BY <1>1 DEF LineWithout, StepsOK
<1>4. AskedOK(asked')
  <2>1. DelegateOf(step) \in Delegates
    BY DEF DelegateOf, Delegates
  <2>2. [step |-> step, delta |-> delta] \in Requests
    BY DEF Requests
  <2>3. asked' = [requests EXCEPT ![DelegateOf(step)] =
                    Append(requests[DelegateOf(step)], [step |-> step, delta |-> delta])]
    BY DEF DelegateRoundTrip
  <2>4. Append(requests[DelegateOf(step)], [step |-> step, delta |-> delta]) \in Seq(Requests)
    BY <2>1, <2>2 DEF AskedOK
  <2> QED BY <2>3, <2>4 DEF AskedOK
<1> QED BY <1>1, <1>2, <1>3, <1>4 DEF Waiting

\* The line of one that does not ask, and the line when the n-th waiter is called.
LEMMA LineOfOthers ==
  ASSUME Waiting(pendingDelegate, pc), NEW f, f \in Flows => pc[f] \notin Asking
  PROVE  LineWithout(pendingDelegate, f)
BY DEF Waiting, LineWithout

LEMMA Called ==
  ASSUME Waiting(pendingDelegate, pc), NEW n \in DOMAIN pendingDelegate
  PROVE  /\ pendingDelegate[n] \in Flows /\ pc[pendingDelegate[n]] \in Asking
         /\ LineWithout(RemoveAt(pendingDelegate, n), pendingDelegate[n])
<1>1. pendingDelegate \in Seq(Flows) /\ IsInjective(pendingDelegate)
  BY DEF Waiting
<1>2. pendingDelegate[n] \in ToSet(pendingDelegate)
  BY DEF ToSet
<1> QED BY <1>1, <1>2, LeavesLine DEF Waiting, LineWithout

\* A flow that is out of the line and asks no more.
LEMMA OutOfLine ==
  ASSUME NEW f \in Flows, NEW line, LineWithout(line, f), NEW steps, StepsOK(steps),
         steps[f] \notin Asking,
         \A g \in Flows \ {f} : steps[g] \in Asking <=> pc[g] \in Asking
  PROVE  Waiting(line, steps)
BY DEF LineWithout, Waiting

\* What a failure changes: a click that waits for the challenge fails with it.
LEMMA FailedFacts ==
  ASSUME StepsOK(pc), NEW f \in Flows, pc[f] \in Asking \cup {"sending"}
  PROVE  /\ StepsOK(Failed(f))
         /\ Failed(f)[f] \notin Asking \cup {"sending", "waiting", "searching"}
         /\ \A g \in Flows \ {f} :
              Failed(f)[g] = pc[g] \/ (g = "ghost" /\ pc[g] = "waiting" /\ Failed(f)[g] = "idle")
         /\ Failed(f)["start"] = "idle" => pc["start"] = "idle"
<1> DEFINE end == CASE f = "probe" -> "done"
                    [] f \in {"ghost", "upgrade"} -> "idle"
                    [] OTHER -> "failed"
           mid == [pc EXCEPT ![f] = end]
           t == Failed(f)
<1>1. /\ t \in [Flows -> Steps \cup {"idle"}] /\ mid \in [Flows -> Steps]
      /\ t = [mid EXCEPT !["ghost"] = IF f = "start" /\ mid["ghost"] = "waiting" THEN "idle"
                                      ELSE IF f = "ghost" THEN "idle" ELSE mid["ghost"]]
  <2>1. end \in Steps
    BY DEF Steps
  <2> HIDE DEF end
  <2>2. mid \in [Flows -> Steps]
    BY <2>1 DEF StepsOK
  <2>3. t = [mid EXCEPT !["ghost"] = IF f = "start" /\ mid["ghost"] = "waiting" THEN "idle"
                                      ELSE IF f = "ghost" THEN "idle" ELSE mid["ghost"]]
    BY DEF Failed, end
  <2> HIDE DEF mid
  <2> QED BY <2>2, <2>3, FlowNames DEF Steps
<1>2. end \in StepsOf(f) \cap Steps /\ end \notin Asking \cup {"sending", "waiting", "searching"}
  BY FlowNames DEF Flows, StepsOf, StepsOK, Asking, Steps
<1>3. f = "ghost" => end = "idle"
  OBVIOUS
<1>4. f = "start" => end = "failed"
  OBVIOUS
<1>5. f = "work" => pc["start"] \notin {"idle", "challenging"}
  BY DEF StepsOK, Asking
<1>6. /\ mid[f] = end /\ \A g \in Flows \ {f} : mid[g] = pc[g]
      /\ \A g \in Flows \ {"ghost"} : t[g] = mid[g]
      /\ t["ghost"] = IF f = "start" /\ mid["ghost"] = "waiting" THEN "idle"
                      ELSE IF f = "ghost" THEN "idle" ELSE mid["ghost"]
  BY <1>1, FlowNames DEF StepsOK
<1> HIDE DEF end, mid, t
<1>7. t[f] = end
  BY <1>3, <1>6, FlowNames
<1>8. \A g \in Flows \ {f} : t[g] = pc[g] \/ (g = "ghost" /\ pc[g] = "waiting" /\ t[g] = "idle")
  BY <1>6
<1>9. t["start"] = "idle" => pc["start"] = "idle"
  BY <1>4, <1>7, <1>8, FlowNames
<1>10. StepsOK(t)
  <2>1. \A g \in Flows : t[g] \in StepsOf(g)
    BY <1>2, <1>7, <1>8 DEF StepsOK, StepsOf
  <2>2. t["start"] \in {"idle", "challenging"} => t["work"] = "idle"
    BY <1>2, <1>4, <1>5, <1>7, <1>8, FlowNames DEF StepsOK
  <2>3. t \in [Flows -> Steps]
    BY <1>1 DEF Steps
  <2> QED BY <2>1, <2>2, <2>3 DEF StepsOK
<1> QED BY <1>2, <1>7, <1>8, <1>9, <1>10 DEF t

\* An event of the registry may stop the worker.
LEMMA OnRegistryFacts ==
  ASSUME NEW steps, StepsOK(steps), NEW v
  PROVE  /\ StepsOK(OnRegistry(steps, v))
         /\ \A g \in Flows : \/ OnRegistry(steps, v)[g] = steps[g]
                             \/ /\ g = "work" /\ steps[g] = "searching"
                                /\ OnRegistry(steps, v)[g] = "stopped"
<1>1. CASE ~(Unlocked(v) /\ steps["work"] = "searching")
  BY <1>1 DEF OnRegistry
<1>2. CASE Unlocked(v) /\ steps["work"] = "searching"
  <2> DEFINE t == [steps EXCEPT !["work"] = "stopped"]
  <2>1. /\ t \in [Flows -> Steps] /\ t["work"] = "stopped"
        /\ \A g \in Flows \ {"work"} : t[g] = steps[g]
    BY FlowNames DEF StepsOK, Steps
  <2>2. steps["start"] \notin {"idle", "challenging"}
    BY <1>2 DEF StepsOK
  <2>3. OnRegistry(steps, v) = t
    BY <1>2 DEF OnRegistry
  <2> HIDE DEF t
  <2>4. StepsOK(t)
    BY <2>1, <2>2, FlowNames DEF StepsOK, StepsOf
  <2> QED BY <1>2, <2>1, <2>3, <2>4
<1> QED BY <1>1, <1>2

\* The page stays connected.
LEMMA StaysConnected ==
  ASSUME pc'["start"] # "idle"
  PROVE  Unconnected'
BY DEF Unconnected

LEMMA IsConnected ==
  ASSUME Unconnected, NEW f \in Flows, pc[f] # "idle" \/ Unlocked(view)
  PROVE  pc["start"] # "idle"
BY DEF Unconnected, Unlocked, Known

\* A flow that starts to ask, out of the line until then.
LEMMA AskingTypes ==
  ASSUME PageTypes, NEW f \in Flows \ {"start", "probe"}, NEW step \in Asking \cap StepsOf(f),
         NEW delta \in Deltas, NEW line, NEW requests,
         LineWithout(line, f), AskedOK(requests), pc["start"] # "idle",
         f = "work" => pc["start"] # "challenging",
         DelegateRoundTrip(f, step, delta, line, requests)
  PROVE  /\ StepsOK(pc') /\ Waiting(pendingDelegate', pc') /\ AskedOK(asked') /\ Unconnected'
         /\ pc' = [pc EXCEPT ![f] = step]
<1>1. /\ pc' = [pc EXCEPT ![f] = step]
      /\ Waiting(pendingDelegate', pc') /\ AskedOK(asked')
  BY RoundTripTypes DEF PageTypes
<1>2. StepsOK(pc')
  BY <1>1, StepTypes DEF PageTypes, Steps
<1>3. pc'["start"] # "idle"
  BY <1>1, FlowNames DEF PageTypes, StepsOK
<1> QED BY <1>1, <1>2, <1>3, StaysConnected

LEMMA ConnectTypes == PageTypes /\ Connect => PageTypes'
<1> SUFFICES ASSUME PageTypes, Connect PROVE PageTypes'
  OBVIOUS
<1>1. /\ StepsOK(pc) /\ \A f \in Flows : pc[f] = "idle"
      /\ pc \in [Flows -> Steps] /\ {"start", "probe", "work"} \subseteq Flows
  BY FlowNames DEF PageTypes, Unconnected, Connect, StepsOK
<1>2. view' \in Views
  <2>1. view \in Views /\ registry \in Registries /\ NoDelta \in Deltas
    BY AskedTypes DEF PageTypes, DataOK
  <2> QED BY <2>1, ViewTypes DEF Connect
<1>3. DataOK' /\ CountsOK' /\ JobsOK'
  BY <1>2 DEF Connect, PageTypes, DataOK, CountsOK, JobsOK, sendVars
<1>4. CASE Unlocked(view')
  <2>1. /\ pc' = [pc EXCEPT !["start"] = "unneeded"] /\ UNCHANGED <<pendingDelegate, asked>>
    BY <1>4 DEF Connect
  <2>2. /\ pc' \in [Flows -> Steps] /\ pc'["start"] = "unneeded"
        /\ \A g \in Flows \ {"start"} : pc'[g] = "idle"
    BY <1>1, <2>1 DEF Steps
  <2>3. StepsOK(pc')
    BY <1>1, <2>2 DEF StepsOK, StepsOf
  <2>4. Waiting(pendingDelegate', pc')
    BY <1>1, <2>1, <2>2 DEF PageTypes, Waiting, Asking
  <2> QED BY <1>3, <2>1, <2>2, <2>3, <2>4, StaysConnected DEF PageTypes, AskedOK
<1>5. CASE ~Unlocked(view')
  <2>1. /\ pc' = [pc EXCEPT !["start"] = "challenging", !["probe"] = "probing"]
        /\ pendingDelegate' = <<"start", "probe">>
        /\ asked' = [d \in Delegates |->
             <<[step |-> IF d = "identity" THEN "challenging" ELSE "probing",
                delta |-> NoDelta]>>]
    BY <1>5 DEF Connect
  <2>2. /\ pc' \in [Flows -> Steps] /\ pc'["start"] = "challenging" /\ pc'["probe"] = "probing"
        /\ \A g \in Flows \ {"start", "probe"} : pc'[g] = "idle"
    <3>1. {"challenging", "probing"} \subseteq Steps
      BY DEF Steps, Asking
    <3> QED BY <1>1, <2>1, <3>1
  <2>3. StepsOK(pc')
    BY <1>1, <2>2 DEF StepsOK, StepsOf
  <2>4. Waiting(pendingDelegate', pc')
    <3>1. /\ pendingDelegate' \in Seq(Flows) /\ DOMAIN pendingDelegate' = {1, 2}
          /\ pendingDelegate'[1] = "start" /\ pendingDelegate'[2] = "probe"
      BY <1>1, <2>1
    <3>2. ToSet(pendingDelegate') = {"start", "probe"}
      BY <3>1 DEF ToSet
    <3>3. {f \in Flows : pc'[f] \in Asking} = {"start", "probe"}
      BY <1>1, <2>2 DEF Asking
    <3> QED BY <3>1, <3>2, <3>3 DEF Waiting, IsInjective
  <2>5. AskedOK(asked')
    <3>1. ASSUME NEW d \in Delegates
          PROVE  <<[step |-> IF d = "identity" THEN "challenging" ELSE "probing",
                    delta |-> NoDelta]>> \in Seq(Requests)
      <4>1. (IF d = "identity" THEN "challenging" ELSE "probing") \in Asking
        BY DEF Asking
      <4>2. [step |-> IF d = "identity" THEN "challenging" ELSE "probing",
             delta |-> NoDelta] \in Requests
        BY <4>1, AskedTypes DEF Requests
      <4> QED BY <4>2
    <3> QED BY <2>1, <3>1 DEF AskedOK
  <2> QED BY <1>3, <2>2, <2>3, <2>4, <2>5, StaysConnected DEF PageTypes
<1> QED BY <1>4, <1>5

\* The user clicks or types, or the worker finds a nonce.
LEMMA ClickTypes ==
  PageTypes /\ (ClickGhostkey \/ ClickUpgrade \/ FindNonce \/ \E e \in Edits : SetNickname(e))
    => PageTypes'
<1> SUFFICES ASSUME PageTypes,
                    ClickGhostkey \/ ClickUpgrade \/ FindNonce \/ \E e \in Edits : SetNickname(e)
             PROVE  PageTypes'
  OBVIOUS
<1> USE DEF PageTypes
<1>1. ASSUME NEW f \in Flows \ {"start", "probe"}, NEW step \in Asking \cap StepsOf(f),
             NEW delta \in Deltas, pc[f] \notin Asking, pc["start"] # "idle",
             f = "work" => pc["start"] # "challenging",
             DelegateRoundTrip(f, step, delta, pendingDelegate, asked), DataOK', CountsOK', JobsOK'
      PROVE  PageTypes'
  BY <1>1, AskingTypes, LineOfOthers
<1>2. ASSUME Act \/ time' \in time .. MaxTime, UNCHANGED <<registry, view, inbox>>
      PROVE  DataOK'
  BY <1>2 DEF Act, DataOK
<1>3. ASSUME UNCHANGED <<inbox, pushes>> PROVE CountsOK'
  BY <1>3 DEF CountsOK
<1>4. ASSUME NEW f \in Flows, NEW r \in JobRecords, job' = [job EXCEPT ![f] = r], UNCHANGED sendVars
      PROVE  JobsOK'
  BY <1>4 DEF JobsOK, sendVars
<1>5. CASE ClickGhostkey
  <2>1. DataOK' /\ CountsOK' /\ JobsOK'
    BY <1>2, <1>3, <1>5 DEF ClickGhostkey, JobsOK, sendVars
  <2>2. pc["ghost"] = "idle" /\ "ghost" \in Flows
    BY <1>5, FlowNames DEF ClickGhostkey
  <2>3. CASE /\ pc["start"] = "challenging"
             /\ pc' = [pc EXCEPT !["ghost"] = "waiting"]
             /\ UNCHANGED <<pendingDelegate, asked>>
    <3>1. StepsOK(pc')
      BY <2>2, <2>3, StepTypes DEF StepsOf, Steps
    <3>2. Waiting(pendingDelegate', pc') /\ pc'["start"] # "idle"
      BY <2>2, <2>3, FlowNames DEF Waiting, StepsOK, Asking
    <3> QED BY <2>1, <2>3, <3>1, <3>2, StaysConnected DEF AskedOK
  <2>4. CASE /\ pc["start"] = "ready"
             /\ DelegateRoundTrip("ghost", "proving", NoDelta, pendingDelegate, asked)
    <3>1. "proving" \in Asking \cap StepsOf("ghost") /\ pc["ghost"] \notin Asking
      BY <2>2 DEF Asking, StepsOf
    <3> QED BY <1>1, <2>1, <2>2, <2>4, <3>1, AskedTypes
  <2> QED BY <1>5, <2>3, <2>4 DEF ClickGhostkey
<1>6. CASE ClickUpgrade
  <2>1. "upgrade" \in Flows /\ NoJob \in JobRecords
    BY FlowNames, AskedTypes
  <2>2. DataOK' /\ CountsOK' /\ JobsOK'
    BY <1>2, <1>3, <1>4, <1>6, <2>1 DEF ClickUpgrade
  <2>3. "challenging" \in Asking \cap StepsOf("upgrade") /\ pc["upgrade"] \notin Asking
    BY <1>6 DEF ClickUpgrade, Asking, StepsOf
  <2>4. pc["start"] # "idle"
    BY <1>6 DEF ClickUpgrade, Unconnected, Unknown
  <2>5. DelegateRoundTrip("upgrade", "challenging", NoDelta, pendingDelegate, asked)
    BY <1>6 DEF ClickUpgrade
  <2> QED BY <1>1, <2>1, <2>2, <2>3, <2>4, <2>5, AskedTypes
<1>7. CASE FindNonce
  <2>1. PICK d \in Admissions("pow", time', Named) :
          /\ DelegateRoundTrip("work", "signing", d, pendingDelegate, asked)
          /\ job' = [job EXCEPT !["work"].want = d]
    BY <1>7 DEF FindNonce, AskToSign
  <2>2. "work" \in Flows /\ d \in Deltas
    BY FlowNames, AskedTypes
  <2>3. JobsOK'
    BY <1>7, <2>1, <2>2 DEF JobsOK, JobRecords, FindNonce, sendVars
  <2>4. DataOK' /\ CountsOK'
    BY <1>2, <1>3, <1>7 DEF FindNonce
  <2>5. /\ "signing" \in Asking \cap StepsOf("work") /\ pc["work"] \notin Asking
        /\ pc["start"] \notin {"idle", "challenging"}
    BY <1>7 DEF FindNonce, Asking, StepsOf, StepsOK
  <2> QED BY <1>1, <2>1, <2>2, <2>3, <2>4, <2>5
<1>8. ASSUME NEW e \in Edits, SetNickname(e) PROVE PageTypes'
  <2>1. PICK d \in Renamings(view[Me].nicknameVersion + 1) :
          /\ DelegateRoundTrip(e, "signing", d, pendingDelegate, asked)
          /\ job' = [job EXCEPT ![e].want = d,
                                ![e].after = {f \in Edits : job[f].got # NoDelta}]
    BY <1>8 DEF SetNickname
  <2>2. e \in Flows \ {"start", "probe", "work"} /\ d \in Deltas
    BY FlowNames, AskedTypes
  <2>3. JobsOK'
    <3> DEFINE shown == {f \in Edits : job[f].got # NoDelta}
               r == [job[e] EXCEPT !.want = d, !.after = shown]
    <3>1. job' = [job EXCEPT ![e] = r]
      BY <2>1, <2>2 DEF JobsOK
    <3>2. job[e] \in JobRecords /\ shown \in SUBSET Edits
      BY <2>2 DEF JobsOK
    <3> HIDE DEF shown
    <3>3. r \in JobRecords
      BY <2>2, <3>2 DEF JobRecords
    <3> HIDE DEF r
    <3> QED BY <1>4, <1>8, <2>2, <3>1, <3>3 DEF SetNickname
  <2>4. DataOK' /\ CountsOK'
    BY <1>2, <1>3, <1>8 DEF SetNickname
  <2>5. "signing" \in Asking \cap StepsOf(e) /\ pc[e] \notin Asking
    BY <1>8, FlowNames DEF SetNickname, Asking
  <2>6. pc["start"] # "idle"
    BY <1>8, <2>2, IsConnected DEF SetNickname
  <2> QED BY <1>1, <2>1, <2>2, <2>3, <2>4, <2>5, <2>6
<1> QED BY <1>5, <1>6, <1>7, <1>8

\* The facts on numbers.
Numbers == INSTANCE Folding WITH Op <- ApplyDelta, A <- Registries, E <- Deltas,
                                 Less <- CoreLess

\* An answer is given to a waiter, the first of its delegate if there is one.
LEMMA WaiterFacts ==
  ASSUME pendingDelegate \in Seq(Flows), pendingDelegate # <<>>, NEW d
  PROVE  LET mine == {n \in DOMAIN pendingDelegate : DelegateOf(pc[pendingDelegate[n]]) = d}
         IN  /\ WaiterFor(d) \in DOMAIN pendingDelegate
             /\ mine # {} => WaiterFor(d) \in mine /\ \A n \in mine : WaiterFor(d) <= n
<1> DEFINE mine == {n \in DOMAIN pendingDelegate : DelegateOf(pc[pendingDelegate[n]]) = d}
<1>1. /\ DOMAIN pendingDelegate = 1 .. Len(pendingDelegate) /\ 1 \in DOMAIN pendingDelegate
      /\ mine \subseteq DOMAIN pendingDelegate
  OBVIOUS
<1>2. WaiterFor(d) = IF mine = {} THEN 1 ELSE Min(mine)
  BY DEF WaiterFor
<1> SUFFICES /\ WaiterFor(d) \in DOMAIN pendingDelegate
             /\ mine # {} => WaiterFor(d) \in mine /\ \A n \in mine : WaiterFor(d) <= n
  OBVIOUS
<1> HIDE DEF mine
<1>3. CASE mine = {}
  BY <1>1, <1>2, <1>3
<1>4. CASE mine # {}
  <2>1. mine \in SUBSET Nat
    BY <1>1
  <2>2. \E n \in mine : \A k \in mine : n <= k
    BY <1>4, <2>1, Numbers!Least
  <2>3. Min(mine) \in mine /\ \A k \in mine : Min(mine) <= k
    BY <2>2 DEF Min
  <2> QED BY <1>1, <1>2, <1>4, <2>3
<1> QED BY <1>3, <1>4

\* The waiter f, out of the line, goes on with a reply.
LEMMA ResumeTypes ==
  ASSUME PageTypes, NEW f \in Flows, pc[f] \in Asking, NEW line, LineWithout(line, f),
         NEW requests, AskedOK(requests), NEW d \in Deltas,
         NEW reply \in Asking \cup {"denied"}, Resume(f, reply, d, line, requests),
         UNCHANGED <<time, registry, inbox, pushes>>
  PROVE  PageTypes'
<1> USE DEF PageTypes
<1>1. /\ StepsOK(pc) /\ Waiting(pendingDelegate, pc) /\ JobsOK /\ DataOK /\ CountsOK
      /\ pc["start"] # "idle" /\ CountsOK' /\ "start" \in Flows /\ view \in Views
  BY IsConnected, FlowNames DEF Asking, CountsOK, DataOK
<1>2. ASSUME UNCHANGED view PROVE DataOK'
  BY <1>1, <1>2 DEF DataOK
<1>3. ASSUME UNCHANGED <<job, sendVars>> PROVE JobsOK'
  BY <1>1, <1>3 DEF JobsOK, sendVars
<1>4. CASE pc[f] # reply
  <2>1. /\ pc' = Failed(f) /\ pendingDelegate' = line /\ asked' = requests
        /\ UNCHANGED <<view, job, sendVars>>
    BY <1>4 DEF Resume
  <2>2. /\ StepsOK(pc') /\ pc'[f] \notin Asking /\ pc'["start"] # "idle"
        /\ \A g \in Flows \ {f} : pc'[g] = pc[g] \/ (pc[g] = "waiting" /\ pc'[g] = "idle")
    BY <1>1, <2>1, FailedFacts
  <2>3. \A g \in Flows \ {f} : pc'[g] \in Asking <=> pc[g] \in Asking
    BY <2>2 DEF Asking
  <2>4. Waiting(line, pc')
    BY <2>2, <2>3, OutOfLine
  <2> QED BY <1>1, <1>2, <1>3, <2>1, <2>2, <2>4, StaysConnected DEF AskedOK
<1>5. ASSUME NEW step \in StepsOf(f) \cap Steps, step \notin Asking,
             f # "start", f # "work" \/ pc["start"] # "challenging",
             pc' = [pc EXCEPT ![f] = step],
             pendingDelegate' = line /\ asked' = requests, DataOK', JobsOK'
      PROVE  PageTypes'
  <2>1. StepsOK(pc')
    BY <1>1, <1>5, StepTypes
  <2>2. /\ pc'[f] \notin Asking /\ pc'["start"] # "idle"
        /\ \A g \in Flows \ {f} : pc'[g] = pc[g]
    BY <1>1, <1>5, FlowNames DEF StepsOK
  <2>3. Waiting(line, pc')
    BY <2>1, <2>2, OutOfLine
  <2> QED BY <1>1, <1>5, <2>1, <2>2, <2>3, StaysConnected DEF AskedOK
<1>6. ASSUME NEW step \in StepsOf(f) \cap Asking, NEW delta \in Deltas,
             f \notin {"start", "probe", "work"},
             DelegateRoundTrip(f, step, delta, line, requests), DataOK', JobsOK'
      PROVE  PageTypes'
  BY <1>1, <1>6, AskingTypes
<1>7. CASE pc[f] = reply /\ reply = "challenging"
  <2>1. DataOK' /\ JobsOK'
    BY <1>2, <1>3, <1>7 DEF Resume
  <2>2. CASE f = "start"
    <3> DEFINE started == [pc EXCEPT !["start"] = "ready", !["work"] = "searching"]
    <3>1. Challenged(line, requests)
      BY <1>7, <2>2 DEF Resume
    <3>2. /\ started \in [Flows -> Steps]
          /\ started["start"] = "ready" /\ started["work"] = "searching"
          /\ \A g \in Flows \ {"start", "work"} : started[g] = pc[g]
      BY <1>1, FlowNames DEF StepsOK, Steps
    <3>3. pc["work"] = "idle"
      BY <1>1, <1>7, <2>2 DEF StepsOK
    <3> HIDE DEF started
    <3>4. StepsOK(started)
      BY <1>1, <3>2 DEF StepsOK, StepsOf
    <3>5. Waiting(line, started)
      <4>1. \A g \in Flows \ {f} : started[g] \in Asking <=> pc[g] \in Asking
        BY <2>2, <3>2, <3>3 DEF Asking
      <4>2. started[f] \notin Asking
        BY <2>2, <3>2 DEF Asking
      <4> QED BY <3>4, <4>1, <4>2, OutOfLine
    <3>6. CASE pc["ghost"] # "waiting"
      <4>1. pc' = started /\ pendingDelegate' = line /\ asked' = requests
        BY <3>1, <3>6 DEF Challenged, started
      <4> QED BY <1>1, <2>1, <3>2, <3>4, <3>5, <4>1, StaysConnected DEF AskedOK
    <3>7. CASE pc["ghost"] = "waiting"
      <4>1. /\ pc' = [started EXCEPT !["ghost"] = "proving"]
            /\ pendingDelegate' = Append(line, "ghost")
            /\ asked' = [requests EXCEPT !["ghostkeys"] =
                           Append(@, [step |-> "proving", delta |-> NoDelta])]
        BY <3>1, <3>7 DEF Challenged, started
      <4>2. /\ pc' \in [Flows -> Steps] /\ pc'["ghost"] = "proving"
            /\ \A g \in Flows \ {"ghost"} : pc'[g] = started[g]
        <5>1. "proving" \in Steps
          BY DEF Steps, Asking
        <5> QED BY <3>2, <4>1, <5>1, FlowNames
      <4>3. StepsOK(pc') /\ pc'["start"] # "idle"
        BY <3>2, <3>4, <4>2, FlowNames DEF StepsOK, StepsOf
      <4>4. started["ghost"] = "waiting"
        BY <3>2, <3>7, FlowNames
      <4>5. /\ Append(line, "ghost") \in Seq(Flows) /\ IsInjective(Append(line, "ghost"))
            /\ ToSet(Append(line, "ghost")) = ToSet(line) \cup {"ghost"}
        BY <3>5, <4>4, JoinsLine, FlowNames DEF Waiting, Asking
      <4>6. ToSet(line) \cup {"ghost"} = {g \in Flows : pc'[g] \in Asking}
        BY <3>5, <4>2, FlowNames DEF Waiting, Asking
      <4>7. AskedOK(asked')
        <5>1. [step |-> "proving", delta |-> NoDelta] \in Requests
          BY AskedTypes DEF Requests, Asking
        <5>2. requests["ghostkeys"] \in Seq(Requests)
          BY DEF AskedOK, Delegates
        <5>3. Append(requests["ghostkeys"], [step |-> "proving", delta |-> NoDelta])
                \in Seq(Requests)
          BY <5>1, <5>2
        <5> QED BY <4>1, <5>3 DEF AskedOK
      <4> QED BY <1>1, <2>1, <4>1, <4>3, <4>5, <4>6, <4>7, StaysConnected DEF Waiting
    <3> QED BY <3>6, <3>7
  <2>3. CASE f # "start"
    <3>1. f = "upgrade"
      BY <1>1, <1>7, <2>3, FlowNames DEF StepsOK, StepsOf, Flows
    <3>2. "proving" \in StepsOf(f) \cap Asking
      BY <3>1 DEF StepsOf, Asking
    <3>3. DelegateRoundTrip(f, "proving", NoDelta, line, requests)
      BY <1>7, <2>3 DEF Resume
    <3> QED BY <1>6, <2>1, <3>1, <3>2, <3>3, AskedTypes
  <2> QED BY <2>2, <2>3
<1>8. CASE pc[f] = reply /\ reply = "probing"
  <2>1. /\ pc' = [pc EXCEPT ![f] = "done"] /\ pendingDelegate' = line /\ asked' = requests
        /\ UNCHANGED <<view, job, sendVars>>
    BY <1>8 DEF Resume
  <2>2. f = "probe"
    BY <1>1, <1>8, FlowNames DEF StepsOK, StepsOf, Flows
  <2>3. "done" \in StepsOf(f) \cap Steps /\ "done" \notin Asking
    BY <2>2 DEF StepsOf, Steps, Asking
  <2> QED BY <1>2, <1>3, <1>5, <2>1, <2>2, <2>3
<1>9. CASE pc[f] = reply /\ reply = "proving"
  <2>1. Proved(f, line, requests) /\ UNCHANGED <<view, sendVars>>
    BY <1>9 DEF Resume
  <2>2. f \in {"ghost", "upgrade"} /\ "signing" \in StepsOf(f) \cap Asking
    BY <1>1, <1>9, FlowNames DEF StepsOK, StepsOf, Flows, Asking
  <2>3. \E d2 \in Deltas :
          /\ DelegateRoundTrip(f, "signing", d2, line, requests)
          /\ \/ job' = [job EXCEPT ![f].want = d2]
             \/ job' = [job EXCEPT ![f].want = d2, ![f].seen = view[Me].admittedTs]
    BY <2>1, AskedTypes DEF Proved, AskToSign
  <2>4. PICK d2 \in Deltas :
          /\ DelegateRoundTrip(f, "signing", d2, line, requests)
          /\ \/ job' = [job EXCEPT ![f].want = d2]
             \/ job' = [job EXCEPT ![f].want = d2, ![f].seen = view[Me].admittedTs]
    BY <2>3
  <2>5. view[Me].admittedTs \in Nat
    BY <1>1 DEF Views, ShownRecords
  <2>6. job' \in [Flows -> JobRecords]
    <3>1. job \in [Flows -> JobRecords]
      BY <1>1 DEF JobsOK
    <3>2. CASE job' = [job EXCEPT ![f].want = d2]
      BY <3>1, <3>2 DEF JobRecords
    <3>3. CASE job' = [job EXCEPT ![f].want = d2, ![f].seen = view[Me].admittedTs]
      <4> DEFINE r == [job[f] EXCEPT !.want = d2, !.seen = view[Me].admittedTs]
      <4>1. job' = [job EXCEPT ![f] = r]
        BY <3>1, <3>3
      <4>2. job[f] \in JobRecords
        BY <3>1
      <4>3. r \in JobRecords
        BY <2>5, <4>2 DEF JobRecords
      <4> HIDE DEF r
      <4> QED BY <3>1, <4>1, <4>3
    <3> QED BY <2>4, <3>2, <3>3
  <2> QED BY <1>1, <1>2, <1>6, <2>1, <2>2, <2>4, <2>6 DEF JobsOK, sendVars
<1>10. CASE pc[f] = reply /\ reply = "signing"
  <2>1. Signed(f, d) /\ pendingDelegate' = line /\ asked' = requests
    BY <1>10 DEF Resume
  <2>2. JobsOK'
    BY <1>1, <2>1 DEF Signed, JobsOK, JobRecords
  <2> DEFINE s == [pc EXCEPT ![f] = "sending"]
  <2>3. /\ "sending" \in StepsOf(f) \cap Steps /\ "sending" \notin Asking
        /\ f \notin {"start", "probe"} /\ (f = "work" => pc["start"] # "challenging")
    BY <1>1, <1>10, FlowNames DEF StepsOK, StepsOf, Flows, Asking, Steps
  <2>4. CASE f \notin Edits
    <3>1. pc' = s /\ UNCHANGED view
      BY <2>1, <2>4 DEF Signed
    <3> QED BY <1>2, <1>5, <2>1, <2>2, <2>3, <3>1
  <2>5. CASE f \in Edits
    <3>1. view' = ApplyRegistryDelta(view, d) /\ pc' = OnRegistry(s, view')
      BY <2>1, <2>5 DEF Signed
    <3>2. view' \in Views
      BY <1>1, <3>1, ViewTypes DEF DataOK
    <3>3. DataOK'
      BY <1>1, <3>2 DEF DataOK
    <3>4. StepsOK(s) /\ s[f] = "sending" /\ \A g \in Flows \ {f} : s[g] = pc[g]
      <4>1. StepsOK(s)
        BY <1>1, <2>3, <2>5, StepTypes
      <4> QED BY <1>1, <4>1 DEF StepsOK
    <3> HIDE DEF s
    <3>5. /\ StepsOK(pc')
          /\ \A g \in Flows : pc'[g] = s[g] \/ (s[g] = "searching" /\ pc'[g] = "stopped")
      BY <3>1, <3>4, OnRegistryFacts
    <3>6. /\ pc'[f] \notin Asking /\ pc'["start"] # "idle"
          /\ \A g \in Flows \ {f} : pc'[g] \in Asking <=> pc[g] \in Asking
      BY <1>1, <2>3, <3>4, <3>5 DEF Asking
    <3>7. Waiting(line, pc')
      BY <3>5, <3>6, OutOfLine
    <3> QED BY <1>1, <2>1, <2>2, <3>3, <3>5, <3>6, <3>7, StaysConnected DEF AskedOK
  <2> QED BY <2>4, <2>5
<1> QED BY <1>4, <1>7, <1>8, <1>9, <1>10 DEF Asking

\* What an answer does: it is dropped, or the waiter it is given to goes on.
LEMMA AnswerCalls ==
  ASSUME PageTypes, NEW d \in Delegates, OnDelegateResponse(d)
  PROVE  LET rest == [asked EXCEPT ![d] = Tail(@)]
             n == WaiterFor(d)
         IN  /\ asked[d] \in Seq(Requests) /\ asked[d] # <<>> /\ AskedOK(rest)
             /\ Head(asked[d]) \in Requests
             /\ UNCHANGED <<time, registry, inbox, acts, pushes, misled, setBack>>
             /\ \/ /\ pendingDelegate = <<>> /\ asked' = rest
                   /\ UNCHANGED <<pendingDelegate, pc, view, job, sendVars>>
                \/ /\ pendingDelegate # <<>> /\ n \in DOMAIN pendingDelegate
                   /\ \E reply \in Replies(Head(asked[d])) :
                        /\ reply \in {Head(asked[d]).step, "denied"}
                        /\ Resume(pendingDelegate[n], reply, Head(asked[d]).delta,
                                  RemoveAt(pendingDelegate, n), rest)
<1>1. asked[d] \in Seq(Requests) /\ asked[d] # <<>> /\ pendingDelegate \in Seq(Flows)
  BY DEF PageTypes, AskedOK, OnDelegateResponse, Waiting
<1>2. Head(asked[d]) \in Requests /\ Tail(asked[d]) \in Seq(Requests)
  BY <1>1
<1>3. AskedOK([asked EXCEPT ![d] = Tail(@)])
  BY <1>2 DEF PageTypes, AskedOK
<1>4. \A request : Replies(request) \subseteq {request.step, "denied"}
  BY DEF Replies
<1>5. UNCHANGED <<time, registry, inbox, acts, pushes, misled, setBack>>
  BY DEF OnDelegateResponse
<1>6. CASE pendingDelegate = <<>>
  BY <1>1, <1>2, <1>3, <1>5, <1>6 DEF OnDelegateResponse
<1>7. CASE pendingDelegate # <<>>
  <2>1. WaiterFor(d) \in DOMAIN pendingDelegate
    BY <1>1, <1>7, WaiterFacts
  <2>2. PICK reply \in Replies(Head(asked[d])) :
          Resume(pendingDelegate[WaiterFor(d)], reply, Head(asked[d]).delta,
                 RemoveAt(pendingDelegate, WaiterFor(d)), [asked EXCEPT ![d] = Tail(@)])
    BY <1>7 DEF OnDelegateResponse
  <2> QED BY <1>1, <1>2, <1>3, <1>4, <1>5, <1>7, <2>1, <2>2
<1> QED BY <1>6, <1>7

LEMMA AnswerTypes ==
  ASSUME PageTypes, NEW d \in Delegates, OnDelegateResponse(d)
  PROVE  PageTypes'
<1> DEFINE rest == [asked EXCEPT ![d] = Tail(@)]
           n == WaiterFor(d)
<1>1. /\ AskedOK(rest) /\ Head(asked[d]) \in Requests
      /\ UNCHANGED <<time, registry, inbox, pushes>>
  BY AnswerCalls
<1>2. CASE pendingDelegate = <<>> /\ asked' = rest /\ UNCHANGED <<pendingDelegate, pc, view, job, sendVars>>
  <2>1. pc["start"] # "idle"
    <3>1. asked[d] # <<>>
      BY AnswerCalls
    <3> QED BY <3>1 DEF PageTypes, Unconnected
  <2> QED BY <1>1, <1>2, <2>1, StaysConnected
          DEF PageTypes, DataOK, CountsOK, JobsOK, AskedOK, Waiting, StepsOK, sendVars
<1>3. CASE n \in DOMAIN pendingDelegate
           /\ \E reply \in {Head(asked[d]).step, "denied"} :
                Resume(pendingDelegate[n], reply, Head(asked[d]).delta,
                       RemoveAt(pendingDelegate, n), rest)
  <2>1. PICK reply \in {Head(asked[d]).step, "denied"} :
          Resume(pendingDelegate[n], reply, Head(asked[d]).delta,
                 RemoveAt(pendingDelegate, n), rest)
    BY <1>3
  <2>2. /\ pendingDelegate[n] \in Flows /\ pc[pendingDelegate[n]] \in Asking
        /\ LineWithout(RemoveAt(pendingDelegate, n), pendingDelegate[n])
    BY <1>3, Called DEF PageTypes
  <2>3. Head(asked[d]).delta \in Deltas /\ reply \in Asking \cup {"denied"}
    BY <1>1, <2>1 DEF Requests
  <2> HIDE DEF rest, n
  <2> QED BY <1>1, <2>1, <2>2, <2>3, ResumeTypes
<1> QED BY <1>2, <1>3, AnswerCalls

\* The line stays as it is when nobody starts or stops asking.
LEMMA SameLine ==
  ASSUME Waiting(pendingDelegate, pc), NEW steps,
         \A g \in Flows : steps[g] \in Asking <=> pc[g] \in Asking
  PROVE  Waiting(pendingDelegate, steps)
BY DEF Waiting

LEMMA FailureTypes ==
  PageTypes /\ (OnErr \/ \E f \in Flows : TimeoutAsk(f)) => PageTypes'
<1> SUFFICES ASSUME PageTypes, OnErr \/ \E f \in Flows : TimeoutAsk(f) PROVE PageTypes'
  OBVIOUS
<1> USE DEF PageTypes
<1>1. ASSUME NEW n \in DOMAIN pendingDelegate,
             pendingDelegate' = RemoveAt(pendingDelegate, n),
             pc' = Failed(pendingDelegate[n])
      PROVE  StepsOK(pc') /\ Waiting(pendingDelegate', pc') /\ Unconnected'
  <2> DEFINE f == pendingDelegate[n]
             line == RemoveAt(pendingDelegate, n)
  <2>1. f \in Flows /\ pc[f] \in Asking /\ LineWithout(line, f)
    BY Called
  <2>2. pc["start"] # "idle"
    BY <2>1, IsConnected DEF Asking
  <2>3. pc' = Failed(f)
    BY <1>1
  <2> HIDE DEF f, line
  <2>4. /\ StepsOK(pc') /\ pc'[f] \notin Asking /\ pc'["start"] # "idle"
        /\ \A g \in Flows \ {f} : pc'[g] = pc[g] \/ (pc[g] = "waiting" /\ pc'[g] = "idle")
    BY <2>1, <2>2, <2>3, FailedFacts
  <2>5. \A g \in Flows \ {f} : pc'[g] \in Asking <=> pc[g] \in Asking
    BY <2>4 DEF Asking
  <2>6. Waiting(line, pc')
    BY <2>1, <2>4, <2>5, OutOfLine
  <2> QED BY <1>1, <2>4, <2>6, StaysConnected DEF line
<1>2. CASE OnErr
  <2>1. pendingDelegate \in Seq(Flows) /\ pendingDelegate # <<>>
    BY <1>2 DEF OnErr, FailNextDelegate, Waiting
  <2>2. 1 \in DOMAIN pendingDelegate /\ Head(pendingDelegate) = pendingDelegate[1]
    BY <2>1
  <2>3. RemoveAt(pendingDelegate, 1) = Tail(pendingDelegate)
    <3>1. /\ RemoveAt(pendingDelegate, 1) \in Seq(Flows)
          /\ Len(RemoveAt(pendingDelegate, 1)) = Len(pendingDelegate) - 1
          /\ \A m \in 1 .. Len(pendingDelegate) - 1 :
               RemoveAt(pendingDelegate, 1)[m] = pendingDelegate[m + 1]
      BY <2>1, <2>2, RemovedFacts
    <3>2. /\ Tail(pendingDelegate) \in Seq(Flows)
          /\ Len(Tail(pendingDelegate)) = Len(pendingDelegate) - 1
          /\ \A m \in 1 .. Len(pendingDelegate) - 1 :
               Tail(pendingDelegate)[m] = pendingDelegate[m + 1]
      BY <2>1
    <3> DEFINE s == RemoveAt(pendingDelegate, 1)
               t == Tail(pendingDelegate)
    <3>3. \A m \in 1 .. Len(s) : s[m] = t[m]
      BY <3>1, <3>2
    <3>4. s \in Seq(Flows) /\ t \in Seq(Flows) /\ Len(s) = Len(t)
      BY <3>1, <3>2
    <3> HIDE DEF s, t
    <3>5. s = t
      BY <3>3, <3>4, SeqEqual
    <3> QED BY <3>5 DEF s, t
  <2>4. /\ pendingDelegate' = RemoveAt(pendingDelegate, 1) /\ pc' = Failed(pendingDelegate[1])
    BY <1>2, <2>2, <2>3 DEF OnErr, FailNextDelegate
  <2>5. StepsOK(pc') /\ Waiting(pendingDelegate', pc') /\ Unconnected'
    BY <1>1, <2>2, <2>4
  <2>6. AskedOK(asked')
    <3>1. CASE UNCHANGED asked
      BY <3>1 DEF AskedOK
    <3>2. ASSUME NEW d \in Delegates, asked[d] # <<>>, asked' = [asked EXCEPT ![d] = Tail(@)]
          PROVE  AskedOK(asked')
      <4>1. asked[d] \in Seq(Requests)
        BY DEF AskedOK
      <4>2. Tail(asked[d]) \in Seq(Requests)
        BY <3>2, <4>1
      <4> QED BY <3>2, <4>2 DEF AskedOK
    <3> QED BY <1>2, <3>1, <3>2 DEF OnErr
  <2>7. DataOK' /\ CountsOK' /\ JobsOK'
    BY <1>2 DEF OnErr, DataOK, CountsOK, JobsOK, sendVars
  <2> QED BY <2>5, <2>6, <2>7
<1>3. ASSUME NEW f \in Flows, TimeoutAsk(f) PROVE PageTypes'
  <2>1. PICK n \in DOMAIN pendingDelegate :
          pendingDelegate[n] = f /\ pendingDelegate' = RemoveAt(pendingDelegate, n)
    BY <1>3 DEF TimeoutAsk
  <2>2. StepsOK(pc') /\ Waiting(pendingDelegate', pc') /\ Unconnected'
    BY <1>1, <1>3, <2>1 DEF TimeoutAsk
  <2>3. DataOK' /\ CountsOK' /\ JobsOK' /\ AskedOK(asked')
    BY <1>3 DEF TimeoutAsk, DataOK, CountsOK, JobsOK, AskedOK, sendVars
  <2> QED BY <2>2, <2>3
<1> QED BY <1>2, <1>3

\* A job that ends is a job.
LEMMA EndedType ==
  ASSUME JobsOK, NEW f \in Flows, NEW acked \in BOOLEAN
  PROVE  Ended(f, acked) \in JobRecords
<1>1. job[f] \in JobRecords /\ NoDelta \in Deltas
  BY AskedTypes DEF JobsOK
<1>2. Ended(f, acked) =
        [job[f] EXCEPT !.want = NoDelta, !.got = IF f \in Edits THEN job[f].got ELSE NoDelta,
                       !.acked = acked /\ f \in Edits \cup {"upgrade"}]
  BY DEF Ended
<1>3. (acked /\ f \in Edits \cup {"upgrade"}) \in BOOLEAN
  OBVIOUS
<1> QED BY <1>1, <1>2, <1>3 DEF JobRecords

LEMMA SendingTypes ==
  ASSUME PageTypes, NEW f \in Flows, Acknowledge(f) \/ AcknowledgeForOther(f) \/ GiveUp(f)
  PROVE  PageTypes'
<1> USE DEF PageTypes
<1>1. /\ pc[f] = "sending" /\ pc["start"] # "idle" /\ "start" \in Flows
      /\ job[f] \in JobRecords /\ view \in Views /\ registry \in Registries
  BY IsConnected, FlowNames DEF Acknowledge, AcknowledgeForOther, Returns, GiveUp, JobsOK, DataOK
<1>2. CountsOK' /\ AskedOK(asked')
  BY DEF Acknowledge, AcknowledgeForOther, Returns, GiveUp, CountsOK, AskedOK, askVars
<1>3. JobsOK'
  BY EndedType
     DEF Acknowledge, AcknowledgeForOther, Returns, GiveUp, JobsOK, sendVars
<1>4. CASE Acknowledge(f) \/ AcknowledgeForOther(f)
  <2> DEFINE end == IF f = "upgrade" THEN "idle" ELSE "done"
             s == [pc EXCEPT ![f] = end]
  <2>1. pc' = OnRegistry(s, view') /\ UNCHANGED pendingDelegate
    BY <1>4 DEF Acknowledge, AcknowledgeForOther, Returns, askVars
  <2>2. /\ end \in StepsOf(f) \cap Steps /\ end \notin Asking
        /\ f \notin {"start", "probe"} /\ (f = "work" => pc["start"] # "challenging")
        /\ end # "searching"
    BY <1>1, FlowNames DEF StepsOK, StepsOf, Flows, Asking, Steps
  <2> HIDE DEF end
  <2>3. /\ StepsOK(s) /\ s[f] = end /\ \A g \in Flows \ {f} : s[g] = pc[g]
    <3>1. StepsOK(s)
      BY <1>1, <2>2, StepTypes
    <3> QED BY <3>1 DEF StepsOK
  <2> HIDE DEF s
  <2>4. /\ StepsOK(pc')
        /\ \A g \in Flows : pc'[g] = s[g] \/ (s[g] = "searching" /\ pc'[g] = "stopped")
    BY <2>1, <2>3, OnRegistryFacts
  <2>5. /\ pc'["start"] # "idle" /\ \A g \in Flows : pc'[g] \in Asking <=> pc[g] \in Asking
    BY <1>1, <2>2, <2>3, <2>4 DEF Asking
  <2>6. DataOK'
    <3>1. job[f].got \in Deltas
      BY <1>1 DEF JobRecords
    <3>2. registry' \in Registries
      BY <1>1, <1>4, <3>1, ApplyDeltaType DEF Acknowledge, AcknowledgeForOther
    <3>3. view' \in Views
      BY <1>1, <1>4, <3>1, ViewTypes DEF Acknowledge, AcknowledgeForOther, Returns
    <3> QED BY <1>4, <3>2, <3>3 DEF DataOK, Acknowledge, AcknowledgeForOther, Returns
  <2> QED BY <1>2, <1>3, <2>1, <2>4, <2>5, <2>6, SameLine, StaysConnected DEF Waiting
<1>5. CASE GiveUp(f)
  <2>1. pc' = Failed(f) /\ UNCHANGED <<pendingDelegate, time, registry, view, inbox>>
    BY <1>5 DEF GiveUp, askVars
  <2>2. /\ StepsOK(pc') /\ pc'[f] \notin Asking /\ pc'["start"] # "idle"
        /\ \A g \in Flows \ {f} : pc'[g] = pc[g] \/ (pc[g] = "waiting" /\ pc'[g] = "idle")
    BY <1>1, <2>1, FailedFacts
  <2>3. \A g \in Flows : pc'[g] \in Asking <=> pc[g] \in Asking
    BY <1>1, <2>2 DEF Asking
  <2>4. Waiting(pendingDelegate', pc')
    BY <2>1, <2>3, SameLine DEF Waiting
  <2> QED BY <1>2, <1>3, <2>1, <2>2, <2>4, StaysConnected DEF DataOK
<1> QED BY <1>4, <1>5

\* The registry applies an update, or another page's.
LEMMA NodeTypes ==
  PageTypes /\ (Elsewhere \/ \E d \in sent : Apply(d)) => PageTypes'
<1> SUFFICES ASSUME PageTypes, Elsewhere \/ \E d \in sent : Apply(d) PROVE PageTypes'
  OBVIOUS
<1> USE DEF PageTypes
<1>1. ASSUME NEW d \in Deltas, registry' = ApplyDelta(registry, d), time' \in 1 .. MaxTime,
             sent' \in {sent, sent \cup {d}},
             UNCHANGED <<view, inbox, pc, job, askVars, crossed, pushes>>
      PROVE  PageTypes'
  <2>1. registry' \in Registries
    BY <1>1, ApplyDeltaType DEF DataOK
  <2>2. DataOK' /\ JobsOK'
    BY <1>1, <2>1 DEF DataOK, JobsOK
  <2> QED BY <1>1, <2>2
          DEF askVars, StepsOK, Waiting, AskedOK, CountsOK, Unconnected
<1>2. ASSUME NEW d \in sent, Apply(d) PROVE PageTypes'
  <2>1. d \in Deltas
    BY DEF JobsOK
  <2> QED BY <1>1, <1>2, <2>1 DEF Apply, DataOK, sendVars
<1>3. CASE Elsewhere
  <2> DEFINE first == UNION {Admissions("pow", ts, {0}) : ts \in 1 .. time'}
             names == UNION {Renamings(v) : v \in 1 .. registry[Me].nickname.version + 1}
  <2> DEFINE all == first \cup (IF ~Admitted(registry[Me]) THEN {} ELSE names)
  <2>0. \E d \in all : sent' = sent \cup {d} /\ registry' = ApplyDelta(registry, d)
    BY <1>3 DEF Elsewhere
  <2>1. PICK d \in all : sent' = sent \cup {d} /\ registry' = ApplyDelta(registry, d)
    BY <2>0
  <2>2. d \in Deltas
    <3>1. first \subseteq Deltas /\ names \subseteq Deltas
      BY AskedTypes
    <3> HIDE DEF first, names
    <3> QED BY <2>1, <3>1
  <2>3. time' \in 1 .. MaxTime
    BY <1>3 DEF Elsewhere, Act, DataOK
  <2> QED BY <1>1, <1>3, <2>1, <2>2, <2>3 DEF Elsewhere
<1> QED BY <1>2, <1>3

\* The page hears of the registry.
LEMMA HearTypes ==
  PageTypes /\ (Refresh \/ (\E d \in sent : ToldOf(d)) \/ Push \/ ReceiveState) => PageTypes'
<1> SUFFICES ASSUME PageTypes, Refresh \/ (\E d \in sent : ToldOf(d)) \/ Push \/ ReceiveState
             PROVE  PageTypes'
  OBVIOUS
<1> USE DEF PageTypes
<1>1. /\ StepsOK(pc) /\ "start" \in Flows /\ view \in Views /\ registry \in Registries
      /\ inbox \in Seq(Registries)
  BY FlowNames DEF DataOK
<1>2. ASSUME NEW v \in Views, view' = v, pc' = OnRegistry(pc, v), pc["start"] # "idle",
             inbox' \in Seq(Registries), Len(inbox') <= Len(inbox),
             UNCHANGED <<time, registry, job, askVars, sendVars, pushes>>
      PROVE  PageTypes'
  <2>1. /\ StepsOK(pc')
        /\ \A g \in Flows : pc'[g] = pc[g] \/ (pc[g] = "searching" /\ pc'[g] = "stopped")
    BY <1>1, <1>2, OnRegistryFacts
  <2>2. pc'["start"] # "idle" /\ \A g \in Flows : pc'[g] \in Asking <=> pc[g] \in Asking
    BY <1>1, <1>2, <2>1 DEF Asking
  <2>3. Waiting(pendingDelegate', pc')
    BY <1>2, <2>2, SameLine DEF Waiting, askVars
  <2>4. CountsOK'
    <3>1. Len(inbox') \in Nat /\ Len(inbox) \in Nat
      BY <1>1, <1>2
    <3> QED BY <1>2, <3>1 DEF CountsOK
  <2> QED BY <1>2, <2>1, <2>2, <2>3, <2>4, StaysConnected DEF DataOK, JobsOK, AskedOK, askVars, sendVars
<1>3. ASSUME NEW v \in Views, Merged(v) PROVE PageTypes'
  <2>1. Len(inbox') <= Len(inbox) /\ inbox' \in Seq(Registries)
    BY <1>1, <1>3 DEF Merged
  <2> QED BY <1>2, <1>3, <2>1 DEF Merged
<1>4. CASE Refresh
  <2>1. MergeIntoView(view, registry) \in Views
    BY <1>1, ViewTypes, AskedTypes
  <2> QED BY <1>3, <1>4, <2>1 DEF Refresh
<1>5. ASSUME NEW d \in sent, ToldOf(d) PROVE PageTypes'
  <2>1. ApplyRegistryDelta(view, d) \in Views
    BY <1>1, ViewTypes DEF JobsOK
  <2> QED BY <1>3, <1>5, <2>1 DEF ToldOf
<1>6. CASE Push
  <2>1. inbox' \in Seq(Registries) /\ Len(inbox') = Len(inbox) + 1 /\ Len(inbox) \in Nat
    BY <1>1, <1>6 DEF Push
  <2>2. DataOK' /\ CountsOK'
    BY <1>6, <2>1 DEF Push, DataOK, CountsOK
  <2>3. UNCHANGED <<pc, pendingDelegate, asked, job, sendVars>> /\ pc["start"] # "idle"
    BY <1>6 DEF Push, askVars
  <2> QED BY <2>2, <2>3, StaysConnected DEF StepsOK, Waiting, AskedOK, JobsOK, sendVars
<1>7. CASE ReceiveState
  <2>1. /\ inbox # <<>> /\ inbox' = Tail(inbox)
        /\ view' = DecodeRegistryState(Head(inbox)) /\ pc' = OnRegistry(pc, view')
        /\ UNCHANGED <<time, registry, job, askVars, sendVars, pushes>>
    BY <1>7 DEF ReceiveState
  <2>2. /\ Head(inbox) \in Registries /\ inbox' \in Seq(Registries)
        /\ Len(inbox') <= Len(inbox)
    BY <1>1, <2>1
  <2>3. DecodeRegistryState(Head(inbox)) \in Views
    BY <1>1, <2>2, ViewTypes, AskedTypes
  <2>4. pc["start"] # "idle"
    BY <2>1 DEF Unconnected
  <2> QED BY <1>2, <2>1, <2>2, <2>3, <2>4
<1> QED BY <1>4, <1>5, <1>6, <1>7

LEMMA PageTypesKept == PageTypes /\ [PageNext]_pageVars => PageTypes'
<1> SUFFICES ASSUME PageTypes, [PageNext]_pageVars PROVE PageTypes'
  OBVIOUS
<1>1. CASE UNCHANGED pageVars
  BY <1>1 DEF pageVars, askVars, sendVars, PageTypes, StepsOK, Waiting, AskedOK, JobsOK,
              DataOK, CountsOK, Unconnected
<1>2. CASE PageNext
  BY <1>2, ConnectTypes, ClickTypes, AnswerTypes, FailureTypes, SendingTypes, NodeTypes,
     HearTypes
     DEF PageNext, Users, Timeouts, Sendings
<1> QED BY <1>1, <1>2

LEMMA PageTypesInvariant == PageSpec => []PageTypes
<1>1. PageInit => PageTypes
  <2> SUFFICES ASSUME PageInit PROVE PageTypes
    OBVIOUS
  <2>1. StepsOK(pc)
    BY FlowNames DEF PageInit, StepsOK, StepsOf, Steps
  <2>2. Waiting(pendingDelegate, pc)
    BY DEF PageInit, Waiting, IsInjective, ToSet, Asking
  <2>3. AskedOK(asked) /\ JobsOK
    BY AskedTypes DEF PageInit, AskedOK, JobsOK
  <2>4. DataOK
    <3>1. Unknown \in ShownRecords
      BY DEF Unknown, ShownRecords
    <3> QED BY <3>1, EmptyType DEF PageInit, DataOK, Views
  <2>5. CountsOK /\ Unconnected
    BY DEF PageInit, CountsOK, Unconnected
  <2> QED BY <2>1, <2>2, <2>3, <2>4, <2>5 DEF PageTypes
<1> QED BY <1>1, PageTypesKept, PTL DEF PageSpec

\* The page's state is well formed, whatever errors and late answers there are, and
\* the waiters in line are the flows that ask.
THEOREM PageTypeCorrect == PageSpec => []PageTypeOK
<1>1. PageTypes => PageTypeOK
  BY DEF PageTypes, PageTypeOK, StepsOK, Waiting, AskedOK, JobsOK, DataOK, CountsOK
<1> QED BY <1>1, PageTypesInvariant, PTL

-----------------------------------------------------------------------------
(***************************************************************************)
(* SendsWhatItAsked.  Until a waiter goes without its delegate's answer,   *)
(* the waiters for a delegate are, in the order of the line, the flows     *)
(* whose requests it has not answered, in the order in which they were     *)
(* made: whichever delegate answers, its first waiter asked for that.      *)
(***************************************************************************)

\* The waiters for d are those at the places m, and they asked for the queue.
Serving(m, d, line, steps, jobs, queue) ==
  /\ m \in [DOMAIN queue -> DOMAIN line]
  /\ \A i, j \in DOMAIN queue : i < j => m[i] < m[j]
  /\ \A n \in DOMAIN line :
       DelegateOf(steps[line[n]]) = d <=> \E i \in DOMAIN queue : m[i] = n
  /\ \A i \in DOMAIN queue :
       /\ queue[i].step = steps[line[m[i]]]
       /\ queue[i].step = "signing" => queue[i].delta = jobs[line[m[i]]].want

LineOK(line, steps, jobs, requests) ==
  \A d \in Delegates : \E m : Serving(m, d, line, steps, jobs, requests[d])

\* What is sent is what was asked for.
SentAsAsked(steps, jobs) ==
  \A f \in Flows : steps[f] = "sending" => jobs[f].got = jobs[f].want

LineInv == misled \/ (LineOK(pendingDelegate, pc, job, asked) /\ SentAsAsked(pc, job))

\* The steps and the wants of those in line are as they were.
SameWaiters(line, steps, jobs) ==
  \A n \in DOMAIN line :
    steps[line[n]] = pc[line[n]] /\ jobs[line[n]].want = job[line[n]].want

LEMMA LineFrame ==
  ASSUME NEW line, NEW steps, NEW jobs, NEW requests, LineOK(line, pc, job, requests),
         SameWaiters(line, steps, jobs)
  PROVE  LineOK(line, steps, jobs, requests)
<1> SUFFICES ASSUME NEW d \in Delegates
             PROVE  \E m : Serving(m, d, line, steps, jobs, requests[d])
  BY DEF LineOK
<1>1. PICK m : Serving(m, d, line, pc, job, requests[d])
  BY DEF LineOK
<1>2. Serving(m, d, line, steps, jobs, requests[d])
  <2>1. m \in [DOMAIN requests[d] -> DOMAIN line]
    BY <1>1 DEF Serving
  <2>2. \A i \in DOMAIN requests[d] :
          steps[line[m[i]]] = pc[line[m[i]]] /\ jobs[line[m[i]]].want = job[line[m[i]]].want
    BY <2>1 DEF SameWaiters
  <2>3. \A n \in DOMAIN line : steps[line[n]] = pc[line[n]]
    BY DEF SameWaiters
  <2> QED BY <1>1, <2>1, <2>2, <2>3 DEF Serving
<1> QED BY <1>2

\* A waiter joins the line, and its request the queue of its delegate.
LEMMA LineAppend ==
  ASSUME NEW line \in Seq(Flows), NEW requests, AskedOK(requests), NEW steps, NEW jobs,
         LineOK(line, pc, job, requests), SameWaiters(line, steps, jobs),
         NEW f \in Flows, NEW step \in Asking, NEW delta \in Deltas,
         steps[f] = step, step = "signing" => delta = jobs[f].want
  PROVE  LineOK(Append(line, f), steps, jobs,
                [requests EXCEPT ![DelegateOf(step)] =
                   Append(@, [step |-> step, delta |-> delta])])
<1> DEFINE longer == Append(line, f)
           x == [step |-> step, delta |-> delta]
           after == [requests EXCEPT ![DelegateOf(step)] = Append(@, x)]
<1>1. LineOK(line, steps, jobs, requests)
  BY LineFrame
<1>2. /\ Len(line) \in Nat /\ DOMAIN line = 1 .. Len(line) /\ DOMAIN longer = 1 .. Len(line) + 1
      /\ longer[Len(line) + 1] = f /\ \A n \in DOMAIN line : longer[n] = line[n]
  OBVIOUS
<1>3. x.step = step /\ x.delta = delta
  OBVIOUS
<1> SUFFICES ASSUME NEW d \in Delegates
             PROVE  \E m : Serving(m, d, longer, steps, jobs, after[d])
  BY DEF LineOK
<1>4. PICK m : Serving(m, d, line, steps, jobs, requests[d])
  BY <1>1 DEF LineOK
<1>5. requests[d] \in Seq(Requests) /\ DelegateOf(step) \in Delegates
  BY DEF AskedOK, DelegateOf, Delegates
<1> DEFINE queue == requests[d]
<1>6. Len(queue) \in Nat /\ DOMAIN queue = 1 .. Len(queue)
  BY <1>5
<1>7. /\ m \in [DOMAIN queue -> DOMAIN line]
      /\ \A i, j \in DOMAIN queue : i < j => m[i] < m[j]
      /\ \A n \in DOMAIN line :
           DelegateOf(steps[line[n]]) = d <=> \E i \in DOMAIN queue : m[i] = n
      /\ \A i \in DOMAIN queue :
           /\ queue[i].step = steps[line[m[i]]]
           /\ queue[i].step = "signing" => queue[i].delta = jobs[line[m[i]]].want
  BY <1>4 DEF Serving
<1>8. CASE d # DelegateOf(step)
  <2>1. after[d] = queue
    BY <1>5, <1>8 DEF AskedOK
  <2> HIDE DEF longer, x, after, queue
  <2>2. m \in [DOMAIN queue -> DOMAIN longer] /\ \A i \in DOMAIN queue : longer[m[i]] = line[m[i]]
    BY <1>2, <1>7
  <2>3. ASSUME NEW n \in DOMAIN longer
        PROVE  DelegateOf(steps[longer[n]]) = d <=> \E i \in DOMAIN queue : m[i] = n
    <3>1. CASE n \in DOMAIN line
      BY <1>2, <1>7, <3>1
    <3>2. CASE n = Len(line) + 1
      <4>1. n \notin DOMAIN line /\ DelegateOf(steps[longer[n]]) # d
        BY <1>2, <1>8, <3>2
      <4> QED BY <1>7, <4>1
    <3> QED BY <1>2, <3>1, <3>2
  <2>4. Serving(m, d, longer, steps, jobs, queue)
    BY <1>7, <2>2, <2>3 DEF Serving
  <2> QED BY <2>1, <2>4
<1>9. CASE d = DelegateOf(step)
  <2>1. after[d] = Append(queue, x)
    BY <1>5, <1>9 DEF AskedOK
  <2>2. x \in Requests
    BY DEF Requests
  <2> DEFINE more == Append(queue, x)
             k == Len(queue) + 1
             m2 == [i \in 1 .. k |-> IF i = k THEN Len(line) + 1 ELSE m[i]]
  <2>3. /\ DOMAIN more = 1 .. k /\ more[k] = x /\ \A i \in DOMAIN queue : more[i] = queue[i]
        /\ k \in Nat /\ k \notin DOMAIN queue /\ DOMAIN more = DOMAIN queue \cup {k}
    BY <1>5, <1>6, <2>2
  <2> HIDE DEF longer, x, after, queue, more
  <2>4. /\ m2[k] = Len(line) + 1 /\ \A i \in DOMAIN queue : m2[i] = m[i]
        /\ DOMAIN m2 = 1 .. k
    <3>1. k \in 1 .. k /\ \A i \in DOMAIN queue : i \in 1 .. k /\ i # k
      BY <1>6
    <3> HIDE DEF k
    <3> QED BY <3>1
  <2> HIDE DEF m2, k
  <2>5. m2 \in [DOMAIN more -> DOMAIN longer]
    <3>1. ASSUME NEW i \in DOMAIN more PROVE m2[i] \in DOMAIN longer
      <4>1. CASE i \in DOMAIN queue
        <5>1. m2[i] = m[i] /\ m[i] \in DOMAIN line
          BY <1>7, <2>4, <4>1
        <5> QED BY <1>2, <5>1
      <4>2. CASE i = k
        BY <1>2, <2>4, <4>2
      <4> QED BY <2>3, <4>1, <4>2
    <3>2. m2 = [i \in DOMAIN more |-> m2[i]]
      BY <2>3, <2>4 DEF m2
    <3> QED BY <3>1, <3>2
  <2>6. ASSUME NEW i \in DOMAIN more, NEW j \in DOMAIN more, i < j PROVE m2[i] < m2[j]
    <3>1. i \in DOMAIN queue
      BY <1>6, <2>3, <2>6 DEF k
    <3>2. CASE j \in DOMAIN queue
      BY <1>7, <2>4, <2>6, <3>1, <3>2
    <3>3. CASE j = k
      <4>1. m[i] \in 1 .. Len(line)
        BY <1>2, <1>7, <3>1
      <4> QED BY <1>2, <2>4, <3>1, <3>3, <4>1
    <3> QED BY <2>3, <3>2, <3>3
  <2>7. ASSUME NEW n \in DOMAIN longer
        PROVE  DelegateOf(steps[longer[n]]) = d <=> \E i \in DOMAIN more : m2[i] = n
    <3>1. CASE n \in DOMAIN line
      <4>1. n # Len(line) + 1
        BY <1>2, <3>1
      <4>2. longer[n] = line[n]
        BY <1>2, <3>1
      <4>3. DelegateOf(steps[line[n]]) = d <=> \E i \in DOMAIN queue : m[i] = n
        BY <1>7, <3>1
      <4>4. (\E i \in DOMAIN more : m2[i] = n) <=> \E i \in DOMAIN queue : m2[i] = n
        BY <2>3, <2>4, <4>1
      <4>5. (\E i \in DOMAIN queue : m2[i] = n) <=> \E i \in DOMAIN queue : m[i] = n
        BY <2>4
      <4> QED BY <4>2, <4>3, <4>4, <4>5
    <3>2. CASE n = Len(line) + 1
      BY <1>2, <1>9, <2>3, <2>4, <3>2
    <3> QED BY <1>2, <3>1, <3>2
  <2>8. ASSUME NEW i \in DOMAIN more
        PROVE  /\ more[i].step = steps[longer[m2[i]]]
               /\ more[i].step = "signing" => more[i].delta = jobs[longer[m2[i]]].want
    <3>1. CASE i \in DOMAIN queue
      BY <1>2, <1>7, <2>3, <2>4, <3>1
    <3>2. CASE i = k
      BY <1>2, <1>3, <2>3, <2>4, <3>2
    <3> QED BY <2>3, <3>1, <3>2
  <2>9. Serving(m2, d, longer, steps, jobs, more)
    BY <2>5, <2>6, <2>7, <2>8 DEF Serving
  <2> QED BY <2>1, <2>9 DEF more
<1> QED BY <1>8, <1>9

\* An answer is for the first waiter of its delegate, who leaves the line.
LEMMA LineRemove ==
  ASSUME pendingDelegate \in Seq(Flows), AskedOK(asked),
         LineOK(pendingDelegate, pc, job, asked), NEW d \in Delegates, asked[d] # <<>>
  PROVE  LET n == WaiterFor(d)
             f == pendingDelegate[n]
         IN  /\ n \in DOMAIN pendingDelegate
             /\ Head(asked[d]).step = pc[f]
             /\ pc[f] = "signing" => Head(asked[d]).delta = job[f].want
             /\ LineOK(RemoveAt(pendingDelegate, n), pc, job, [asked EXCEPT ![d] = Tail(@)])
<1> DEFINE line == pendingDelegate
           n == WaiterFor(d)
           f == pendingDelegate[n]
           t == RemoveAt(line, n)
           rest == [asked EXCEPT ![d] = Tail(@)]
<1>1. PICK m : Serving(m, d, line, pc, job, asked[d])
  BY DEF LineOK
<1>2. /\ asked[d] \in Seq(Requests) /\ Len(asked[d]) \in Nat /\ 1 \in DOMAIN asked[d]
      /\ DOMAIN asked[d] = 1 .. Len(asked[d]) /\ Head(asked[d]) = asked[d][1]
  BY DEF AskedOK
<1>3. m[1] \in DOMAIN line /\ DelegateOf(pc[line[m[1]]]) = d
  BY <1>1, <1>2 DEF Serving
<1>4. n \in DOMAIN line /\ n = m[1]
  <2> DEFINE mine == {k \in DOMAIN line : DelegateOf(pc[line[k]]) = d}
  <2>1. m[1] \in mine /\ line # <<>>
    BY <1>3
  <2>2. n \in mine /\ \A k \in mine : n <= k
    BY <2>1, WaiterFacts
  <2>3. PICK i \in DOMAIN asked[d] : m[i] = n
    BY <1>1, <2>2 DEF Serving
  <2>4. i = 1 \/ m[1] < m[i]
    <3>1. i = 1 \/ 1 < i
      BY <1>2
    <3> QED BY <1>1, <1>2, <3>1 DEF Serving
  <2>5. n <= m[1] /\ n \in Nat /\ m[1] \in Nat
    <3>1. DOMAIN line = 1 .. Len(line) /\ Len(line) \in Nat
      OBVIOUS
    <3> QED BY <2>1, <2>2, <3>1
  <2> HIDE DEF n
  <2> QED BY <2>2, <2>3, <2>4, <2>5
<1>5. /\ Head(asked[d]).step = pc[f]
      /\ pc[f] = "signing" => Head(asked[d]).delta = job[f].want
  BY <1>1, <1>2, <1>4 DEF Serving
<1>6. /\ Len(line) \in Nat /\ DOMAIN line = 1 .. Len(line) /\ n \in 1 .. Len(line)
      /\ t \in Seq(Flows) /\ DOMAIN t = 1 .. Len(line) - 1
      /\ \A k \in 1 .. Len(line) - 1 : t[k] = line[IF k < n THEN k ELSE k + 1]
  <2>1. Len(line) \in Nat /\ DOMAIN line = 1 .. Len(line)
    OBVIOUS
  <2>2. /\ t \in Seq(Flows) /\ Len(t) = Len(line) - 1
        /\ \A k \in 1 .. Len(line) - 1 : t[k] = line[IF k < n THEN k ELSE k + 1]
    BY <1>4, RemovedFacts
  <2> HIDE DEF t, n
  <2> QED BY <1>4, <2>1, <2>2
<1> DEFINE down(k) == IF k < n THEN k ELSE k - 1
<1>7. ASSUME NEW k \in DOMAIN line, k # n
      PROVE  down(k) \in DOMAIN t /\ t[down(k)] = line[k]
  <2> HIDE DEF t, n
  <2>1. CASE k < n
    BY <1>6, <2>1
  <2>2. CASE k > n
    <3>1. k - 1 \in 1 .. Len(line) - 1 /\ ~(k - 1 < n) /\ k - 1 + 1 = k /\ down(k) = k - 1
      BY <1>6, <2>2
    <3> QED BY <1>6, <3>1
  <2> QED BY <1>6, <1>7, <2>1, <2>2
<1>8. \A k, l \in DOMAIN line : k # n /\ l # n /\ k < l => down(k) < down(l)
  <2> HIDE DEF n
  <2> QED BY <1>6
<1>9. ASSUME NEW j \in DOMAIN t
      PROVE  \E k \in DOMAIN line : k # n /\ down(k) = j
  <2> HIDE DEF t, n
  <2>1. CASE j < n
    BY <1>6, <2>1
  <2>2. CASE ~(j < n)
    <3>1. j + 1 \in DOMAIN line /\ j + 1 # n /\ down(j + 1) = j
      BY <1>6, <2>2
    <3> QED BY <3>1
  <2> QED BY <2>1, <2>2
<1>10. \A k, l \in DOMAIN line : k # n /\ l # n /\ down(k) = down(l) => k = l
  <2> HIDE DEF n
  <2> QED BY <1>6
<1>11. ASSUME NEW e \in Delegates
       PROVE  \E g : Serving(g, e, t, pc, job, rest[e])
  <2>1. CASE e # d
    <3>1. rest[e] = asked[e]
      BY <2>1 DEF AskedOK
    <3>2. PICK h : Serving(h, e, line, pc, job, asked[e])
      BY DEF LineOK
    <3>3. /\ h \in [DOMAIN asked[e] -> DOMAIN line]
          /\ \A i, j \in DOMAIN asked[e] : i < j => h[i] < h[j]
          /\ \A k \in DOMAIN line :
               DelegateOf(pc[line[k]]) = e <=> \E i \in DOMAIN asked[e] : h[i] = k
          /\ \A i \in DOMAIN asked[e] :
               /\ asked[e][i].step = pc[line[h[i]]]
               /\ asked[e][i].step = "signing" => asked[e][i].delta = job[line[h[i]]].want
      BY <3>2 DEF Serving
    <3> DEFINE g == [i \in DOMAIN asked[e] |-> down(h[i])]
    <3>4. \A i \in DOMAIN asked[e] : h[i] \in DOMAIN line /\ h[i] # n
      BY <1>3, <1>4, <2>1, <3>3
    <3>5. \A i \in DOMAIN asked[e] : g[i] = down(h[i]) /\ g[i] \in DOMAIN t /\ t[g[i]] = line[h[i]]
      BY <1>7, <3>4
    <3>6. g \in [DOMAIN asked[e] -> DOMAIN t]
      BY <3>5
    <3> HIDE DEF g, t, n, down
    <3>7. \A i, j \in DOMAIN asked[e] : i < j => g[i] < g[j]
      BY <1>8, <3>3, <3>4, <3>5
    <3>8. ASSUME NEW j \in DOMAIN t
          PROVE  DelegateOf(pc[t[j]]) = e <=> \E i \in DOMAIN asked[e] : g[i] = j
      <4>1. PICK k \in DOMAIN line : k # n /\ down(k) = j
        BY <1>9
      <4>2. t[j] = line[k]
        BY <1>7, <4>1
      <4>3. ASSUME NEW i \in DOMAIN asked[e], g[i] = j PROVE h[i] = k
        BY <1>10, <3>4, <3>5, <4>1, <4>3
      <4>4. ASSUME NEW i \in DOMAIN asked[e], h[i] = k PROVE g[i] = j
        BY <3>5, <4>1, <4>4
      <4> QED BY <3>3, <4>2, <4>3, <4>4
    <3>9. Serving(g, e, t, pc, job, asked[e])
      BY <3>3, <3>5, <3>6, <3>7, <3>8 DEF Serving
    <3> QED BY <3>1, <3>9
  <2>2. CASE e = d
    <3> DEFINE queue == Tail(asked[d])
    <3>1. rest[e] = queue
      BY <2>2 DEF AskedOK
    <3>2. /\ DOMAIN queue = 1 .. Len(asked[d]) - 1
          /\ \A i \in DOMAIN queue : queue[i] = asked[d][i + 1]
      BY <1>2
    <3> HIDE DEF queue
    <3>3. /\ m \in [DOMAIN asked[d] -> DOMAIN line]
          /\ \A i, j \in DOMAIN asked[d] : i < j => m[i] < m[j]
          /\ \A k \in DOMAIN line :
               DelegateOf(pc[line[k]]) = d <=> \E i \in DOMAIN asked[d] : m[i] = k
          /\ \A i \in DOMAIN asked[d] :
               /\ asked[d][i].step = pc[line[m[i]]]
               /\ asked[d][i].step = "signing" => asked[d][i].delta = job[line[m[i]]].want
      BY <1>1 DEF Serving
    <3> DEFINE g == [i \in DOMAIN queue |-> down(m[i + 1])]
    <3>4. \A i \in DOMAIN queue :
            i + 1 \in DOMAIN asked[d] /\ m[i + 1] \in DOMAIN line /\ m[i + 1] # n
      <4>1. \A i \in DOMAIN queue : i + 1 \in DOMAIN asked[d] /\ 1 < i + 1
        BY <1>2, <3>2
      <4>2. \A i \in DOMAIN queue : m[i + 1] \in DOMAIN line /\ m[1] < m[i + 1]
        BY <1>2, <3>3, <4>1
      <4> HIDE DEF n
      <4>3. \A i \in DOMAIN queue : m[i + 1] # n
        BY <1>4, <1>6, <4>2
      <4> QED BY <4>1, <4>2, <4>3
    <3>5. \A i \in DOMAIN queue :
            g[i] = down(m[i + 1]) /\ g[i] \in DOMAIN t /\ t[g[i]] = line[m[i + 1]]
      BY <1>7, <3>4
    <3>6. g \in [DOMAIN queue -> DOMAIN t]
      BY <3>5
    <3> HIDE DEF g, t, n, down
    <3>7. ASSUME NEW i \in DOMAIN queue, NEW j \in DOMAIN queue, i < j PROVE g[i] < g[j]
      <4>1. i + 1 < j + 1
        BY <3>2, <3>7
      <4>2. m[i + 1] < m[j + 1]
        BY <3>3, <3>4, <4>1
      <4> QED BY <1>8, <3>4, <3>5, <4>2
    <3>8. ASSUME NEW j \in DOMAIN t
          PROVE  DelegateOf(pc[t[j]]) = e <=> \E i \in DOMAIN queue : g[i] = j
      <4>1. PICK k \in DOMAIN line : k # n /\ down(k) = j
        BY <1>9
      <4>2. t[j] = line[k]
        BY <1>7, <4>1
      <4>3. ASSUME NEW i \in DOMAIN queue, g[i] = j PROVE m[i + 1] = k
        BY <1>10, <3>4, <3>5, <4>1, <4>3
      <4>4. ASSUME NEW i \in DOMAIN asked[d], m[i] = k PROVE \E l \in DOMAIN queue : g[l] = j
        <5>1. i # 1
          BY <1>4, <4>1, <4>4
        <5>2. i - 1 \in DOMAIN queue /\ i - 1 + 1 = i
          BY <1>2, <3>2, <5>1
        <5> QED BY <3>5, <4>1, <4>4, <5>2
      <4> QED BY <2>2, <3>3, <3>4, <4>2, <4>3, <4>4
    <3>9. \A i \in DOMAIN queue :
            /\ queue[i].step = pc[t[g[i]]]
            /\ queue[i].step = "signing" => queue[i].delta = job[t[g[i]]].want
      BY <3>2, <3>3, <3>4, <3>5
    <3>10. Serving(g, e, t, pc, job, queue)
      BY <3>6, <3>7, <3>8, <3>9 DEF Serving
    <3> QED BY <3>1, <3>10
  <2> QED BY <2>1, <2>2
<1> QED BY <1>4, <1>5, <1>11 DEF LineOK

\* Those in line wait for what they waited for.
LEMMA LineRests ==
  ASSUME NEW f, NEW line, LineWithout(line, f), NEW requests, LineOK(line, pc, job, requests),
         \A g \in Flows \ {f} :
           pc[g] \in Asking => pc'[g] = pc[g] /\ job'[g].want = job[g].want
  PROVE  LineOK(line, pc', job', requests) /\ SameWaiters(line, pc', job')
<1>1. ASSUME NEW n \in DOMAIN line
      PROVE  pc'[line[n]] = pc[line[n]] /\ job'[line[n]].want = job[line[n]].want
  <2>1. line[n] \in ToSet(line)
    BY DEF ToSet
  <2> QED BY <2>1 DEF LineWithout
<1>2. SameWaiters(line, pc', job')
  BY <1>1 DEF SameWaiters
<1> QED BY <1>2, LineFrame

\* Nobody joins or leaves the line, nor is anything new sent.
LEMMA LineStays ==
  ASSUME PageTypes, LineOK(pendingDelegate, pc, job, asked), SentAsAsked(pc, job),
         UNCHANGED <<pendingDelegate, asked>>,
         \A g \in Flows :
           /\ pc[g] \in Asking => pc'[g] = pc[g] /\ job'[g].want = job[g].want
           /\ pc'[g] = "sending" => pc[g] = "sending" /\ job'[g] = job[g]
  PROVE  LineOK(pendingDelegate', pc', job', asked') /\ SentAsAsked(pc', job')
<1>1. ASSUME NEW n \in DOMAIN pendingDelegate
      PROVE  /\ pc'[pendingDelegate[n]] = pc[pendingDelegate[n]]
             /\ job'[pendingDelegate[n]].want = job[pendingDelegate[n]].want
  BY Called DEF PageTypes
<1>2. LineOK(pendingDelegate, pc', job', asked)
  BY <1>1, LineFrame DEF SameWaiters
<1> QED BY <1>2 DEF SentAsAsked

\* f joins the line, and asks for what it wants.
LEMMA LineJoins ==
  ASSUME StepsOK(pc), NEW f \in Flows, NEW step \in Asking, NEW delta \in Deltas,
         NEW line, LineWithout(line, f), NEW requests, AskedOK(requests),
         LineOK(line, pc, job, requests), SentAsAsked(pc, job),
         DelegateRoundTrip(f, step, delta, line, requests),
         step = "signing" => delta = job'[f].want,
         \A g \in Flows \ {f} : job'[g] = job[g]
  PROVE  LineOK(pendingDelegate', pc', job', asked') /\ SentAsAsked(pc', job')
<1>1. /\ pc' = [pc EXCEPT ![f] = step] /\ pendingDelegate' = Append(line, f)
      /\ asked' = [requests EXCEPT ![DelegateOf(step)] =
                     Append(@, [step |-> step, delta |-> delta])]
  BY DEF DelegateRoundTrip
<1>2. pc'[f] = step /\ \A g \in Flows \ {f} : pc'[g] = pc[g]
  BY <1>1 DEF StepsOK
<1>3. SameWaiters(line, pc', job') /\ line \in Seq(Flows)
  BY <1>2, LineRests DEF LineWithout
<1>4. LineOK(pendingDelegate', pc', job', asked')
  BY <1>1, <1>2, <1>3, LineAppend
<1>5. SentAsAsked(pc', job')
  BY <1>2 DEF SentAsAsked, Asking
<1> QED BY <1>4, <1>5

\* An answer goes to the one who asked for it.
LEMMA LineAnswers ==
  ASSUME PageTypes, LineOK(pendingDelegate, pc, job, asked), SentAsAsked(pc, job),
         NEW d \in Delegates, OnDelegateResponse(d)
  PROVE  LineOK(pendingDelegate', pc', job', asked') /\ SentAsAsked(pc', job')
<1> DEFINE rest == [asked EXCEPT ![d] = Tail(@)]
           n == WaiterFor(d)
           f == pendingDelegate[n]
           line == RemoveAt(pendingDelegate, n)
           head == Head(asked[d])
<1>1. pendingDelegate \in Seq(Flows) /\ AskedOK(asked) /\ asked[d] # <<>> /\ StepsOK(pc)
  BY AnswerCalls DEF PageTypes, Waiting
<1>2. /\ n \in DOMAIN pendingDelegate /\ head.step = pc[f]
      /\ pc[f] = "signing" => head.delta = job[f].want
      /\ LineOK(line, pc, job, rest)
  BY <1>1, LineRemove
<1>3. f \in Flows /\ pc[f] \in Asking /\ LineWithout(line, f)
  BY <1>2, Called DEF PageTypes
<1>4. AskedOK(rest) /\ head \in Requests
  BY AnswerCalls
<1>5. PICK reply \in {head.step, "denied"} : Resume(f, reply, head.delta, line, rest)
  <2>1. pendingDelegate # <<>>
    BY <1>2
  <2> QED BY <2>1, AnswerCalls
<1> HIDE DEF f, n, line, rest, head
<1>6. ASSUME \A g \in Flows \ {f} :
               /\ job'[g] = job[g]
               /\ \/ pc'[g] = pc[g]
                  \/ pc[g] \notin Asking /\ pc'[g] # "sending",
             pc'[f] = "sending" => job'[f].got = job'[f].want
      PROVE  /\ LineOK(line, pc', job', rest) /\ SameWaiters(line, pc', job')
             /\ SentAsAsked(pc', job')
  <2>1. LineOK(line, pc', job', rest) /\ SameWaiters(line, pc', job')
    BY <1>2, <1>3, <1>6, LineRests
  <2> QED BY <1>6, <2>1 DEF SentAsAsked
<1>7. ASSUME NEW step \in Asking, NEW delta \in Deltas, DelegateRoundTrip(f, step, delta, line, rest),
             step = "signing" => delta = job'[f].want, \A g \in Flows \ {f} : job'[g] = job[g]
      PROVE  LineOK(pendingDelegate', pc', job', asked') /\ SentAsAsked(pc', job')
  BY <1>1, <1>2, <1>3, <1>4, <1>7, LineJoins
<1>8. CASE pc[f] # reply
  <2>1. pc' = Failed(f) /\ pendingDelegate' = line /\ asked' = rest /\ UNCHANGED job
    BY <1>5, <1>8 DEF Resume
  <2>2. /\ pc'[f] # "sending"
        /\ \A g \in Flows \ {f} : pc'[g] = pc[g] \/ (pc[g] = "waiting" /\ pc'[g] = "idle")
    BY <1>1, <1>3, <2>1, FailedFacts
  <2> QED BY <1>6, <2>1, <2>2 DEF Asking
<1>9. CASE pc[f] = reply /\ reply = "challenging"
  <2>1. UNCHANGED job
    BY <1>5, <1>9 DEF Resume
  <2>2. CASE f = "start"
    <3> DEFINE started == [pc EXCEPT !["start"] = "ready", !["work"] = "searching"]
    <3>1. Challenged(line, rest)
      BY <1>5, <1>9, <2>2 DEF Resume
    <3>2. /\ started["start"] = "ready" /\ started["work"] = "searching"
          /\ started \in [Flows -> Steps]
          /\ \A g \in Flows \ {"start", "work"} : started[g] = pc[g]
      BY <1>1, FlowNames DEF StepsOK, Steps
    <3>3. pc["work"] = "idle"
      BY <1>1, <1>9, <2>2 DEF StepsOK
    <3> HIDE DEF started
    <3>4. CASE pc["ghost"] # "waiting"
      <4>1. pc' = started /\ pendingDelegate' = line /\ asked' = rest
        BY <3>1, <3>4 DEF Challenged, started
      <4>2. \A g \in Flows \ {f} : pc'[g] = pc[g] \/ (pc[g] \notin Asking /\ pc'[g] # "sending")
        <5>1. \A g \in Flows \ {"start", "work"} : pc'[g] = pc[g]
          BY <3>2, <4>1
        <5>2. pc["work"] \notin Asking /\ pc'["work"] # "sending"
          BY <3>2, <3>3, <4>1 DEF Asking
        <5> QED BY <2>2, <5>1, <5>2
      <4>3. pc'[f] # "sending"
        BY <2>2, <3>2, <4>1
      <4> QED BY <1>6, <2>1, <4>1, <4>2, <4>3
    <3>5. CASE pc["ghost"] = "waiting"
      <4>1. /\ pc' = [started EXCEPT !["ghost"] = "proving"]
            /\ pendingDelegate' = Append(line, "ghost")
            /\ asked' = [rest EXCEPT !["ghostkeys"] =
                           Append(@, [step |-> "proving", delta |-> NoDelta])]
        BY <3>1, <3>5 DEF Challenged, started
      <4>2. /\ pc'["ghost"] = "proving" /\ "ghost" \in Flows
            /\ \A g \in Flows \ {"ghost"} : pc'[g] = started[g]
        BY <3>2, <4>1, FlowNames
      <4>3. \A g \in Flows \ {f} : pc'[g] = pc[g] \/ (pc[g] \notin Asking /\ pc'[g] # "sending")
        <5>1. \A g \in Flows \ {"start", "work", "ghost"} : pc'[g] = pc[g]
          BY <3>2, <4>2
        <5>2. /\ pc["work"] \notin Asking /\ pc'["work"] # "sending"
              /\ pc["ghost"] \notin Asking /\ pc'["ghost"] # "sending"
          BY <3>2, <3>3, <3>5, <4>2, FlowNames DEF Asking
        <5> QED BY <2>2, <5>1, <5>2
      <4>4. pc'[f] # "sending"
        BY <2>2, <3>2, <4>2, FlowNames
      <4>5. /\ LineOK(line, pc', job', rest) /\ SameWaiters(line, pc', job')
            /\ SentAsAsked(pc', job')
        BY <1>6, <2>1, <4>3, <4>4
      <4>6. DelegateOf("proving") = "ghostkeys" /\ "proving" \in Asking
        BY DEF DelegateOf, Asking
      <4>7. line \in Seq(Flows) /\ LineOK(line, pc, job, rest) /\ NoDelta \in Deltas
        BY <1>2, <1>3, AskedTypes DEF LineWithout
      <4>8. LineOK(Append(line, "ghost"), pc', job',
                   [rest EXCEPT ![DelegateOf("proving")] =
                      Append(@, [step |-> "proving", delta |-> NoDelta])])
        BY <1>4, <4>2, <4>5, <4>6, <4>7, LineAppend
      <4> QED BY <4>1, <4>5, <4>6, <4>8
    <3> QED BY <3>4, <3>5
  <2>3. CASE f # "start"
    <3>1. DelegateRoundTrip(f, "proving", NoDelta, line, rest)
      BY <1>5, <1>9, <2>3 DEF Resume
    <3> QED BY <1>7, <2>1, <3>1, AskedTypes DEF Asking
  <2> QED BY <2>2, <2>3
<1>10. CASE pc[f] = reply /\ reply = "probing"
  <2>1. /\ pc' = [pc EXCEPT ![f] = "done"] /\ pendingDelegate' = line /\ asked' = rest
        /\ UNCHANGED job
    BY <1>5, <1>10 DEF Resume
  <2>2. pc'[f] = "done" /\ \A g \in Flows \ {f} : pc'[g] = pc[g]
    BY <1>1, <1>3, <2>1 DEF StepsOK
  <2> QED BY <1>6, <2>1, <2>2
<1>11. CASE pc[f] = reply /\ reply = "proving"
  <2>1. Proved(f, line, rest)
    BY <1>5, <1>11 DEF Resume
  <2>2. PICK d2 \in Deltas :
          /\ DelegateRoundTrip(f, "signing", d2, line, rest)
          /\ \/ job' = [job EXCEPT ![f].want = d2]
             \/ job' = [job EXCEPT ![f].want = d2, ![f].seen = view[Me].admittedTs]
    BY <2>1, AskedTypes DEF Proved, AskToSign
  <2>3. job'[f].want = d2 /\ \A g \in Flows \ {f} : job'[g] = job[g]
    <3>1. job[f] \in JobRecords /\ job \in [Flows -> JobRecords]
      BY <1>3 DEF PageTypes, JobsOK
    <3> QED BY <1>3, <2>2, <3>1 DEF JobRecords
  <2> QED BY <1>7, <2>2, <2>3 DEF Asking
<1>12. CASE pc[f] = reply /\ reply = "signing"
  <2>1. Signed(f, head.delta) /\ pendingDelegate' = line /\ asked' = rest
    BY <1>5, <1>12 DEF Resume
  <2>2. /\ job'[f].got = head.delta /\ job'[f].want = job[f].want
        /\ \A g \in Flows \ {f} : job'[g] = job[g]
    <3>1. job[f] \in JobRecords /\ job \in [Flows -> JobRecords]
      BY <1>3 DEF PageTypes, JobsOK
    <3> QED BY <1>3, <2>1, <3>1 DEF JobRecords, Signed
  <2>3. head.delta = job[f].want
    BY <1>2, <1>12
  <2> DEFINE s == [pc EXCEPT ![f] = "sending"]
  <2>4. s[f] = "sending" /\ \A g \in Flows \ {f} : s[g] = pc[g]
    BY <1>1, <1>3 DEF StepsOK
  <2>5. pc' = s \/ pc' = OnRegistry(s, view')
    BY <2>1 DEF Signed
  <2>6. StepsOK(s)
    <3>1. "sending" \in StepsOf(f) \cap Steps
      BY <1>1, <1>3, <1>12, FlowNames DEF StepsOK, StepsOf, Flows, Steps
    <3>2. f # "start" /\ (f = "work" => pc["start"] \notin {"idle", "challenging"})
      BY <1>1, <1>3, <1>12, FlowNames DEF StepsOK, StepsOf
    <3> QED BY <1>1, <1>3, <3>1, <3>2, StepTypes
  <2> HIDE DEF s
  <2>7. \A g \in Flows \ {f} : pc'[g] = pc[g] \/ (pc[g] \notin Asking /\ pc'[g] # "sending")
    <3>1. \A g \in Flows : pc'[g] = s[g] \/ (s[g] = "searching" /\ pc'[g] = "stopped")
      BY <2>5, <2>6, OnRegistryFacts
    <3> QED BY <2>4, <3>1 DEF Asking
  <2> QED BY <1>6, <2>1, <2>2, <2>3, <2>7
<1> QED BY <1>3, <1>8, <1>9, <1>10, <1>11, <1>12 DEF Asking

\* The user and the worker ask.
LEMMA LineGrows ==
  ASSUME PageTypes, LineOK(pendingDelegate, pc, job, asked), SentAsAsked(pc, job),
         ClickGhostkey \/ ClickUpgrade \/ FindNonce \/ \E e \in Edits : SetNickname(e)
  PROVE  LineOK(pendingDelegate', pc', job', asked') /\ SentAsAsked(pc', job')
<1>1. StepsOK(pc) /\ AskedOK(asked) /\ Waiting(pendingDelegate, pc) /\ job \in [Flows -> JobRecords]
  BY DEF PageTypes, JobsOK
<1>2. ASSUME NEW f \in Flows, pc[f] \notin Asking, NEW step \in Asking, NEW delta \in Deltas,
             DelegateRoundTrip(f, step, delta, pendingDelegate, asked),
             step = "signing" => delta = job'[f].want, \A g \in Flows \ {f} : job'[g] = job[g]
      PROVE  LineOK(pendingDelegate', pc', job', asked') /\ SentAsAsked(pc', job')
  BY <1>1, <1>2, LineJoins, LineOfOthers
<1>3. CASE ClickGhostkey
  <2>1. pc["ghost"] = "idle" /\ UNCHANGED job /\ "ghost" \in Flows
    BY <1>3, FlowNames DEF ClickGhostkey
  <2>2. CASE /\ pc' = [pc EXCEPT !["ghost"] = "waiting"]
             /\ UNCHANGED <<pendingDelegate, asked>>
    <3>1. pc'["ghost"] = "waiting" /\ \A g \in Flows \ {"ghost"} : pc'[g] = pc[g]
      BY <1>1, <2>1, <2>2 DEF StepsOK
    <3> QED BY <2>1, <2>2, <3>1, LineStays DEF Asking
  <2>3. CASE DelegateRoundTrip("ghost", "proving", NoDelta, pendingDelegate, asked)
    BY <1>2, <2>1, <2>3, AskedTypes DEF Asking
  <2> QED BY <1>3, <2>2, <2>3 DEF ClickGhostkey
<1>4. CASE ClickUpgrade
  <2>1. /\ "upgrade" \in Flows /\ pc["upgrade"] = "idle"
        /\ DelegateRoundTrip("upgrade", "challenging", NoDelta, pendingDelegate, asked)
        /\ \A g \in Flows \ {"upgrade"} : job'[g] = job[g]
    BY <1>1, <1>4, FlowNames DEF ClickUpgrade
  <2> QED BY <1>2, <2>1, AskedTypes DEF Asking
<1>5. CASE FindNonce
  <2>1. PICK d \in Deltas :
          /\ DelegateRoundTrip("work", "signing", d, pendingDelegate, asked)
          /\ job' = [job EXCEPT !["work"].want = d]
    BY <1>5, AskedTypes DEF FindNonce, AskToSign
  <2>2. /\ "work" \in Flows /\ pc["work"] = "searching" /\ job'["work"].want = d
        /\ \A g \in Flows \ {"work"} : job'[g] = job[g]
    <3>1. job["work"] \in JobRecords
      BY <1>1, FlowNames
    <3> QED BY <1>1, <1>5, <2>1, <3>1, FlowNames DEF FindNonce, JobRecords
  <2> QED BY <1>2, <2>1, <2>2 DEF Asking
<1>6. ASSUME NEW e \in Edits, SetNickname(e)
      PROVE  LineOK(pendingDelegate', pc', job', asked') /\ SentAsAsked(pc', job')
  <2>1. PICK d \in Deltas :
          /\ DelegateRoundTrip(e, "signing", d, pendingDelegate, asked)
          /\ job' = [job EXCEPT ![e].want = d,
                                ![e].after = {f \in Edits : job[f].got # NoDelta}]
    BY <1>6, AskedTypes DEF SetNickname
  <2>2. /\ e \in Flows /\ pc[e] = "idle" /\ job'[e].want = d
        /\ \A g \in Flows \ {e} : job'[g] = job[g]
    <3>1. e \in Flows /\ job[e] \in JobRecords
      BY <1>1, FlowNames
    <3> QED BY <1>1, <1>6, <2>1, <3>1 DEF SetNickname, JobRecords
  <2> QED BY <1>2, <2>1, <2>2 DEF Asking
<1> QED BY <1>3, <1>4, <1>5, <1>6

\* The page connects: the line is that of its two waiters.
LEMMA LineStarts ==
  ASSUME PageTypes, LineOK(pendingDelegate, pc, job, asked), SentAsAsked(pc, job), Connect
  PROVE  LineOK(pendingDelegate', pc', job', asked') /\ SentAsAsked(pc', job')
<1>1. /\ \A f \in Flows : pc[f] = "idle"
      /\ pc \in [Flows -> Steps] /\ {"start", "probe"} \subseteq Flows /\ UNCHANGED job
  BY FlowNames DEF PageTypes, Unconnected, Connect, StepsOK
<1>2. CASE Unlocked(view')
  <2>1. pc' = [pc EXCEPT !["start"] = "unneeded"] /\ UNCHANGED <<pendingDelegate, asked>>
    BY <1>2 DEF Connect
  <2>2. pc'["start"] = "unneeded" /\ \A g \in Flows \ {"start"} : pc'[g] = "idle"
    BY <1>1, <2>1
  <2> QED BY <1>1, <2>1, <2>2, LineStays DEF Asking
<1>3. CASE ~Unlocked(view')
  <2>1. /\ pc' = [pc EXCEPT !["start"] = "challenging", !["probe"] = "probing"]
        /\ pendingDelegate' = <<"start", "probe">>
        /\ asked' = [d \in Delegates |->
             <<[step |-> IF d = "identity" THEN "challenging" ELSE "probing",
                delta |-> NoDelta]>>]
    BY <1>3 DEF Connect
  <2>2. /\ pc'["start"] = "challenging" /\ pc'["probe"] = "probing"
        /\ \A g \in Flows \ {"start", "probe"} : pc'[g] = "idle"
    BY <1>1, <2>1
  <2>3. /\ DOMAIN pendingDelegate' = {1, 2}
        /\ pendingDelegate'[1] = "start" /\ pendingDelegate'[2] = "probe"
    BY <2>1
  <2>4. ASSUME NEW d \in Delegates
        PROVE  \E m : Serving(m, d, pendingDelegate', pc', job', asked'[d])
    <3> DEFINE k == IF d = "identity" THEN 1 ELSE 2
               x == [step |-> IF d = "identity" THEN "challenging" ELSE "probing",
                     delta |-> NoDelta]
               m == [i \in {1} |-> k]
    <3>1. asked'[d] = <<x>> /\ DOMAIN asked'[d] = {1} /\ asked'[d][1] = x
      BY <2>1
    <3>2. m \in [{1} -> {1, 2}] /\ m[1] = k
      OBVIOUS
    <3>3. /\ DelegateOf("challenging") = "identity" /\ DelegateOf("probing") = "ghostkeys"
          /\ d \in {"identity", "ghostkeys"}
      BY DEF DelegateOf, Delegates
    <3>4. x.step = pc'[pendingDelegate'[k]] /\ x.step # "signing"
      BY <2>2, <2>3, <3>3
    <3>5. \A n \in {1, 2} : DelegateOf(pc'[pendingDelegate'[n]]) = d <=> n = k
      BY <2>2, <2>3, <3>3
    <3> HIDE DEF m, k, x
    <3>6. Serving(m, d, pendingDelegate', pc', job', asked'[d])
      BY <2>3, <3>1, <3>2, <3>4, <3>5 DEF Serving
    <3> QED BY <3>6
  <2> QED BY <2>2, <2>4 DEF LineOK, SentAsAsked
<1> QED BY <1>2, <1>3

LEMMA LineKept == PageTypes /\ LineInv /\ [PageNext]_pageVars => LineInv'
<1> SUFFICES ASSUME PageTypes, LineInv, [PageNext]_pageVars, ~misled'
             PROVE  LineOK(pendingDelegate', pc', job', asked') /\ SentAsAsked(pc', job')
  BY DEF LineInv
<1>1. ~misled
  BY DEF pageVars, askVars, PageNext, Users, Connect, ClickGhostkey, ClickUpgrade, SetNickname,
         FindNonce, Timeouts, TimeoutAsk, Sendings, Acknowledge, AcknowledgeForOther, Returns,
         GiveUp, OnErr, FailNextDelegate, OnDelegateResponse, Apply, ToldOf, Elsewhere,
         Refresh, Merged, Push, ReceiveState
<1>2. LineOK(pendingDelegate, pc, job, asked) /\ SentAsAsked(pc, job)
  BY <1>1 DEF LineInv
<1>3. StepsOK(pc)
  BY DEF PageTypes
<1>4. CASE UNCHANGED <<pendingDelegate, asked, pc, job>>
  BY <1>2, <1>4, LineStays
<1>5. ASSUME NEW v, pc' = OnRegistry(pc, v), UNCHANGED <<pendingDelegate, asked, job>>
      PROVE  LineOK(pendingDelegate', pc', job', asked') /\ SentAsAsked(pc', job')
  <2>1. \A g \in Flows : pc'[g] = pc[g] \/ (pc[g] = "searching" /\ pc'[g] = "stopped")
    BY <1>3, <1>5, OnRegistryFacts
  <2> QED BY <1>2, <1>5, <2>1, LineStays DEF Asking
<1>6. ASSUME NEW f \in Flows, Returns(f) \/ GiveUp(f)
      PROVE  LineOK(pendingDelegate', pc', job', asked') /\ SentAsAsked(pc', job')
  <2>1. pc[f] = "sending" /\ UNCHANGED <<pendingDelegate, asked>>
    BY <1>6 DEF Returns, GiveUp, askVars
  <2>2. \A g \in Flows \ {f} : job'[g] = job[g]
    BY <1>6 DEF Returns, GiveUp, PageTypes, JobsOK
  <2>3. /\ pc'[f] # "sending"
        /\ \A g \in Flows \ {f} :
             \/ pc'[g] = pc[g]
             \/ pc[g] \in {"searching", "waiting"} /\ pc'[g] # "sending"
    <3>1. CASE GiveUp(f)
      BY <1>3, <2>1, <3>1, FailedFacts DEF GiveUp
    <3>2. CASE Returns(f)
      <4> DEFINE end == IF f = "upgrade" THEN "idle" ELSE "done"
                 s == [pc EXCEPT ![f] = end]
      <4>1. pc' = OnRegistry(s, view')
        BY <3>2 DEF Returns
      <4>2. end \in StepsOf(f) \cap Steps /\ end \notin {"sending", "searching"}
        BY <1>3, <2>1, FlowNames DEF StepsOK, StepsOf, Flows, Steps
      <4>3. f # "start" /\ (f = "work" => pc["start"] \notin {"idle", "challenging"})
        BY <1>3, <2>1, FlowNames DEF StepsOK, StepsOf
      <4> HIDE DEF end
      <4>4. StepsOK(s) /\ s[f] = end /\ \A g \in Flows \ {f} : s[g] = pc[g]
        <5>1. StepsOK(s)
          BY <1>3, <4>2, <4>3, StepTypes
        <5> QED BY <1>3, <5>1 DEF StepsOK
      <4> HIDE DEF s
      <4>5. \A g \in Flows : pc'[g] = s[g] \/ (s[g] = "searching" /\ pc'[g] = "stopped")
        BY <4>1, <4>4, OnRegistryFacts
      <4> QED BY <4>2, <4>4, <4>5
    <3> QED BY <1>6, <3>1, <3>2
  <2> QED BY <1>2, <2>1, <2>2, <2>3, LineStays DEF Asking
<1>7. CASE UNCHANGED pageVars
  BY <1>4, <1>7 DEF pageVars, askVars
<1>8. CASE Users \/ FindNonce
  BY <1>2, <1>8, LineStarts, LineGrows DEF Users
<1>9. CASE Timeouts \/ OnErr
  BY <1>9 DEF Timeouts, TimeoutAsk, OnErr, FailNextDelegate
<1>10. CASE Sendings
  BY <1>6, <1>10 DEF Sendings, Acknowledge, AcknowledgeForOther
<1>11. CASE \E d \in Delegates : OnDelegateResponse(d)
  BY <1>2, <1>11, LineAnswers
<1>12. CASE \E d \in sent : Apply(d) \/ ToldOf(d)
  BY <1>4, <1>5, <1>12 DEF Apply, ToldOf, Merged, askVars
<1>13. CASE Elsewhere \/ Push
  BY <1>4, <1>13 DEF Elsewhere, Push, askVars
<1>14. CASE Refresh \/ ReceiveState
  BY <1>5, <1>14 DEF Refresh, Merged, ReceiveState, askVars
<1> QED BY <1>7, <1>8, <1>9, <1>10, <1>11, <1>12, <1>13, <1>14 DEF PageNext

LEMMA LineStart == PageInit => LineInv
<1> SUFFICES ASSUME PageInit PROVE LineOK(pendingDelegate, pc, job, asked) /\ SentAsAsked(pc, job)
  BY DEF LineInv
<1>1. ASSUME NEW d \in Delegates
      PROVE  \E m : Serving(m, d, pendingDelegate, pc, job, asked[d])
  <2> DEFINE m == [i \in {} |-> 0]
  <2>1. DOMAIN asked[d] = {} /\ DOMAIN pendingDelegate = {} /\ m \in [{} -> {}]
    BY DEF PageInit
  <2> HIDE DEF m
  <2>2. Serving(m, d, pendingDelegate, pc, job, asked[d])
    BY <2>1 DEF Serving
  <2> QED BY <2>2
<1> QED BY <1>1 DEF LineOK, SentAsAsked, PageInit

LEMMA LineInvariant == PageSpec => [](PageTypes /\ LineInv)
BY LineStart, LineKept, PageTypesInvariant, PTL DEF PageSpec

\* An answer finds the flow that asked for it, as long as nobody leaves the line
\* unanswered: what a flow sends to the registry is what it asked to be signed.
THEOREM AnswersFindTheirAskers == PageSpec => []SendsWhatItAsked
<1>1. PageTypes /\ LineInv => SendsWhatItAsked
  BY DEF LineInv, SentAsAsked, SendsWhatItAsked
<1> QED BY <1>1, LineInvariant, PTL

-----------------------------------------------------------------------------
(***************************************************************************)
(* The page's own record.  In a registry it only grows: its admission gets *)
(* earlier and its nickname newer.  The view of the page stays below it.   *)
(***************************************************************************)

\* s has an admission no later and a nickname no older than r.
Below(r, s) ==
  /\ r.nickname.version <= s.nickname.version
  /\ Admitted(r) => Admitted(s) /\ s.core.ts <= r.core.ts

\* A record to which an admission x and a nickname n would add nothing newer.
Dominates(r, x, n) == Below(x, r) /\ (Admitted(r) => n.version <= r.nickname.version)

\* A view shows nothing of a record before it is there, but for these versions.
ViewBelow(v, r, versions) ==
  Known(v) => /\ Admitted(r) /\ v.admittedTs >= r.core.ts
              /\ v.nicknameVersion <= r.nickname.version \/ v.nicknameVersion \in versions

\* A view that goes on from v.
ViewGrows(v, w) == (Known(v) => Known(w)) /\ v.nicknameVersion <= w.nicknameVersion

LEMMA RecordTypes ==
  ASSUME NEW r \in Records \cup {NotAdmitted}
  PROVE  /\ r.core.ts \in Nat /\ r.nickname.version \in Nat /\ r.nickname.sig \in Nat
         /\ Admitted(r) => r \in Records /\ r.core \in Cores
         /\ ~Admitted(r) => r = NotAdmitted /\ r.nickname.version = 0
<1>1. CASE r = NotAdmitted
  BY <1>1 DEF NotAdmitted, NoCore, NoNickname, Admitted
<1>2. CASE r \in Records
  <2>1. r.core \in Cores /\ r.nickname \in Nicknames \cup {NoNickname} /\ Admitted(r)
    BY <1>2, RecordOps DEF Records
  <2>2. r.core.ts \in Nat
    BY <2>1, CoreAssumption
  <2>3. r.nickname.version \in Nat /\ r.nickname.sig \in Nat
    BY <2>1, NicknameAssumption DEF NoNickname
  <2> QED BY <1>2, <2>1, <2>2, <2>3
<1> QED BY <1>1, <1>2

LEMMA BelowTransitive ==
  ASSUME NEW r \in Records \cup {NotAdmitted}, NEW s \in Records \cup {NotAdmitted},
         NEW t \in Records \cup {NotAdmitted}, Below(r, s), Below(s, t)
  PROVE  Below(r, t)
BY RecordTypes DEF Below

\* The better of two nicknames is one of them, and no older than either.
LEMMA BetterFacts ==
  ASSUME NEW n \in Nicknames \cup {NoNickname}, NEW m \in Nicknames \cup {NoNickname}
  PROVE  /\ BetterNickname(n, m) \in {n, m}
         /\ n.version <= BetterNickname(n, m).version
         /\ m.version <= BetterNickname(n, m).version
<1>1. n.version \in Nat /\ m.version \in Nat
  BY NicknameAssumption DEF NoNickname
<1> QED BY <1>1 DEF BetterNickname, NicknameLess

\* A record is merged into another.
LEMMA InsertGrows ==
  ASSUME NEW mine \in Records \cup {NotAdmitted}, NEW r \in Records
  PROVE  /\ Below(mine, InsertRecord(mine, r)) /\ Below(r, InsertRecord(mine, r))
         /\ InsertRecord(mine, r).core \in {mine.core, r.core}
<1> DEFINE s == InsertRecord(mine, r)
<1>1. /\ s \in Records /\ Admitted(s) /\ Admitted(r)
      /\ r.core.ts \in Nat /\ r.nickname.version \in Nat /\ mine.core.ts \in Nat
      /\ r.nickname \in Nicknames \cup {NoNickname}
  BY RecordOps, RecordTypes DEF Records
<1>2. CASE ~Admitted(mine)
  <2>1. s = r /\ mine.nickname.version = 0
    BY <1>2, RecordTypes DEF InsertRecord
  <2> QED BY <1>1, <1>2, <2>1 DEF Below
<1>3. CASE Admitted(mine)
  <2>1. /\ s.core = IF CoreLess(r.core, mine.core) THEN r.core ELSE mine.core
        /\ s.nickname = BetterNickname(mine.nickname, r.nickname)
    BY <1>3 DEF InsertRecord
  <2>2. mine.nickname \in Nicknames \cup {NoNickname}
    BY <1>3, RecordTypes DEF Records
  <2>3. mine.nickname.version <= s.nickname.version /\ r.nickname.version <= s.nickname.version
    BY <1>1, <2>1, <2>2, BetterFacts
  <2>4. s.core.ts <= mine.core.ts /\ s.core.ts <= r.core.ts /\ s.core \in {mine.core, r.core}
    BY <1>1, <2>1 DEF CoreLess
  <2> QED BY <1>1, <2>3, <2>4 DEF Below
<1> QED BY <1>2, <1>3

\* A delta is applied to a registry.
LEMMA RecordGrows ==
  ASSUME NEW reg \in Registries, NEW d \in Deltas, NEW a \in Authors
  PROVE  LET r == ApplyDelta(reg, d)[a]
         IN  /\ r \in Records \cup {NotAdmitted} /\ Below(reg[a], r)
             /\ Dominates(r, d.admissions[a], d.nicknames[a])
             /\ r.core \in {reg[a].core, d.admissions[a].core}
<1> DEFINE mine == reg[a]
           x == d.admissions[a]
           n == d.nicknames[a]
           mid == Merge(reg, d.admissions)[a]
           r == ApplyNickname(mid, n)
<1>1. /\ mine \in Records \cup {NotAdmitted} /\ x \in Records \cup {NotAdmitted}
      /\ n \in Nicknames \cup {NoNickname} /\ mid \in Records \cup {NotAdmitted}
  BY MergeType DEF Registries, Deltas
<1>2. mid = IF Admitted(x) THEN InsertRecord(mine, x) ELSE mine
  BY DEF Merge
<1>3. ApplyDelta(reg, d)[a] = r /\ ApplyDelta(reg, d) \in Registries
  BY ApplyDeltaType DEF ApplyDelta
<1>4. r \in Records \cup {NotAdmitted}
  BY <1>3 DEF Registries
<1> HIDE DEF mine, x, n, mid, r
<1>5. Below(mine, mid) /\ Below(x, mid) /\ mid.core \in {mine.core, x.core}
  <2>1. CASE Admitted(x)
    BY <1>1, <1>2, <2>1, InsertGrows, RecordTypes
  <2>2. CASE ~Admitted(x)
    BY <1>1, <1>2, <2>2, RecordTypes DEF Below
  <2> QED BY <2>1, <2>2
<1>6. /\ Below(mid, r) /\ r.core = mid.core
      /\ Admitted(r) => n.version <= r.nickname.version
  <2>1. CASE ~Admitted(mid)
    BY <1>1, <2>1, RecordTypes DEF r, ApplyNickname, Below
  <2>2. CASE Admitted(mid)
    <3>1. mid \in Records /\ mid.nickname \in Nicknames \cup {NoNickname} /\ mid.core.ts \in Nat
      BY <1>1, <2>2, RecordTypes DEF Records
    <3>2. r.core = mid.core /\ r.nickname = BetterNickname(mid.nickname, n)
      BY <2>2, <3>1 DEF r, ApplyNickname, Records
    <3>3. mid.nickname.version <= r.nickname.version /\ n.version <= r.nickname.version
      BY <1>1, <3>1, <3>2, BetterFacts
    <3> QED BY <2>2, <3>1, <3>2, <3>3 DEF Below, Admitted
  <2> QED BY <2>1, <2>2
<1>7. Below(mine, r) /\ Below(x, r)
  BY <1>1, <1>4, <1>5, <1>6, BelowTransitive
<1>8. Dominates(r, x, n) /\ r.core \in {mine.core, x.core}
  BY <1>5, <1>6, <1>7 DEF Dominates
<1> QED BY <1>3, <1>4, <1>7, <1>8 DEF mine, x, n

\* A nickname is shown.
LEMMA NameShown ==
  ASSUME NEW v \in ShownRecords, NEW name \in Nat, NEW version \in Nat
  PROVE  LET u == ApplyNicknameJs(v, name, version)
         IN  /\ u \in ShownRecords /\ u.admittedTs = v.admittedTs
             /\ Known(v) <=> Known(u)
             /\ v.nicknameVersion <= u.nicknameVersion
             /\ u.nicknameVersion \in {v.nicknameVersion, version}
             /\ Known(v) => version <= u.nicknameVersion
<1> DEFINE u == ApplyNicknameJs(v, name, version)
<1>1. v.nicknameVersion \in Nat
  BY DEF ShownRecords
<1>2. CASE Known(v) /\ version > v.nicknameVersion
  <2>1. u = [v EXCEPT !.nickname = name, !.nicknameVersion = version]
    BY <1>2 DEF ApplyNicknameJs
  <2>2. u \in ShownRecords /\ u.admittedTs = v.admittedTs /\ u.nicknameVersion = version
    BY <2>1 DEF ShownRecords
  <2>3. Known(u)
    BY <1>1, <1>2, <2>2 DEF Known, Unknown
  <2> QED BY <1>1, <1>2, <2>2, <2>3
<1>3. CASE ~(Known(v) /\ version > v.nicknameVersion)
  <2>1. u = v
    BY <1>3 DEF ApplyNicknameJs
  <2> QED BY <1>1, <1>3, <2>1
<1> QED BY <1>2, <1>3

\* A record is shown.
LEMMA RecordShown ==
  ASSUME NEW v \in ShownRecords, NEW r \in Records
  PROVE  LET u == InsertAdmission(v, Decoded(r))
         IN  /\ u \in ShownRecords /\ Known(u)
             /\ u.admittedTs \in {v.admittedTs, r.core.ts}
             /\ ~Known(v) => u.admittedTs = r.core.ts
             /\ v.nicknameVersion <= u.nicknameVersion
             /\ u.nicknameVersion \in {v.nicknameVersion, r.nickname.version}
<1> DEFINE w == Decoded(r)
           x == IF w.admittedTs < v.admittedTs
                  THEN [v EXCEPT !.tier = w.tier, !.admittedTs = w.admittedTs] ELSE v
           u == InsertAdmission(v, w)
<1>1. /\ w \in ShownRecords /\ Known(w) /\ w.tier # "none" /\ w.admittedTs = r.core.ts
      /\ w.nicknameVersion = r.nickname.version /\ w.nickname \in Nat /\ w.nicknameVersion \in Nat
  <2>1. w \in ShownRecords
    BY DecodedShows
  <2>2. r.core \in Cores
    BY DEF Records
  <2>3. w.tier # "none" /\ w.admittedTs = r.core.ts /\ w.nicknameVersion = r.nickname.version
    BY <2>2, CoreAssumption DEF Decoded
  <2>4. Known(w)
    BY <2>3 DEF Known, Unknown
  <2> QED BY <2>1, <2>3, <2>4 DEF ShownRecords
<1> HIDE DEF w
<1>2. CASE ~Known(v)
  <2>1. u = w /\ v.nicknameVersion = 0
    BY <1>2 DEF InsertAdmission, Known, Unknown
  <2> QED BY <1>1, <1>2, <2>1 DEF w
<1>3. CASE Known(v)
  <2>1. /\ x \in ShownRecords /\ Known(x) /\ x.admittedTs \in {v.admittedTs, w.admittedTs}
        /\ x.nicknameVersion = v.nicknameVersion
    <3>1. CASE w.admittedTs < v.admittedTs
      <4>1. x = [v EXCEPT !.tier = w.tier, !.admittedTs = w.admittedTs]
        BY <3>1
      <4>2. /\ x \in ShownRecords /\ x.tier = w.tier /\ x.admittedTs = w.admittedTs
            /\ x.nicknameVersion = v.nicknameVersion
        BY <1>1, <4>1 DEF ShownRecords
      <4> HIDE DEF x
      <4>3. Known(x)
        BY <1>1, <4>2 DEF Known, Unknown
      <4> QED BY <4>2, <4>3
    <3>2. CASE ~(w.admittedTs < v.admittedTs)
      BY <1>3, <3>2
    <3> QED BY <3>1, <3>2
  <2>2. u = ApplyNicknameJs(x, w.nickname, w.nicknameVersion)
    BY <1>3 DEF InsertAdmission
  <2> HIDE DEF x, u
  <2>3. /\ u \in ShownRecords /\ u.admittedTs = x.admittedTs /\ Known(u)
        /\ x.nicknameVersion <= u.nicknameVersion
        /\ u.nicknameVersion \in {x.nicknameVersion, w.nicknameVersion}
    BY <1>1, <2>1, <2>2, NameShown
  <2> QED BY <1>1, <1>3, <2>1, <2>3 DEF u, w
<1> QED BY <1>2, <1>3

\* A registry is shown, and one is merged into what is shown.
LEMMA StateShown ==
  ASSUME NEW r \in Records \cup {NotAdmitted}, NEW s \in Records \cup {NotAdmitted},
         Below(r, s), NEW versions
  PROVE  ViewBelow(Decoded(r), s, versions)
<1>1. Known(Decoded(r)) = Admitted(r)
  BY DecodedShows DEF ShowsLike
<1> QED BY <1>1, RecordTypes DEF Below, ViewBelow, Decoded

LEMMA MergeShown ==
  ASSUME NEW v \in Views, NEW reg \in Registries, NEW a \in Authors,
         NEW r \in Records \cup {NotAdmitted}, NEW versions
  PROVE  LET u == MergeIntoView(v, reg)[a]
         IN  /\ u \in ShownRecords /\ ViewGrows(v[a], u)
             /\ ViewBelow(v[a], r, versions) /\ Below(reg[a], r) => ViewBelow(u, r, versions)
<1> DEFINE u == MergeIntoView(v, reg)[a]
           x == reg[a]
<1>1. /\ v[a] \in ShownRecords /\ x \in Records \cup {NotAdmitted}
      /\ v[a].nicknameVersion \in Nat /\ v[a].admittedTs \in Nat
  BY DEF Views, Registries, ShownRecords
<1>2. u = IF Admitted(x) THEN InsertAdmission(v[a], Decoded(x)) ELSE v[a]
  BY DEF MergeIntoView
<1> HIDE DEF u, x
<1>3. CASE ~Admitted(x)
  BY <1>1, <1>2, <1>3 DEF ViewGrows, u, x
<1>4. CASE Admitted(x)
  <2>1. x \in Records /\ r.core.ts \in Nat /\ r.nickname.version \in Nat /\ x.core.ts \in Nat
        /\ x.nickname.version \in Nat
    BY <1>1, <1>4, RecordTypes
  <2>2. /\ u \in ShownRecords /\ Known(u)
        /\ u.admittedTs \in {v[a].admittedTs, x.core.ts}
        /\ ~Known(v[a]) => u.admittedTs = x.core.ts
        /\ v[a].nicknameVersion <= u.nicknameVersion
        /\ u.nicknameVersion \in {v[a].nicknameVersion, x.nickname.version}
    BY <1>1, <1>2, <1>4, <2>1, RecordShown
  <2>3. ~Known(v[a]) => v[a].nicknameVersion = 0
    BY DEF Known, Unknown
  <2>4. ASSUME ViewBelow(v[a], r, versions), Below(x, r) PROVE ViewBelow(u, r, versions)
    <3>1. Admitted(r) /\ r.core.ts <= x.core.ts /\ x.nickname.version <= r.nickname.version
      BY <1>4, <2>4 DEF Below
    <3>2. u.admittedTs >= r.core.ts
      BY <2>1, <2>2, <2>4, <3>1 DEF ViewBelow
    <3>3. u.nicknameVersion <= r.nickname.version \/ u.nicknameVersion \in versions
      <4>1. CASE u.nicknameVersion = x.nickname.version
        BY <3>1, <4>1
      <4>2. CASE u.nicknameVersion = v[a].nicknameVersion
        <5>1. CASE Known(v[a])
          BY <2>4, <4>2, <5>1 DEF ViewBelow
        <5>2. CASE ~Known(v[a])
          BY <2>1, <2>3, <4>2, <5>2
        <5> QED BY <5>1, <5>2
      <4> QED BY <2>2, <4>1, <4>2
    <3> QED BY <3>1, <3>2, <3>3 DEF ViewBelow
  <2> QED BY <2>2, <2>4 DEF ViewGrows, u, x
<1> QED BY <1>3, <1>4

\* A delta is shown: no more than a record that has it, and what it names.
LEMMA DeltaShown ==
  ASSUME NEW v \in Views, NEW d \in Deltas, NEW a \in Authors,
         NEW r \in Records \cup {NotAdmitted}, NEW versions
  PROVE  LET u == ApplyRegistryDelta(v, d)[a]
         IN  /\ u \in ShownRecords /\ ViewGrows(v[a], u)
             /\ Known(v[a]) => d.nicknames[a].version <= u.nicknameVersion
             /\ /\ ViewBelow(v[a], r, versions) /\ Below(d.admissions[a], r)
                /\ \/ Admitted(r) => d.nicknames[a].version <= r.nickname.version
                   \/ d.nicknames[a].version \in versions
                => ViewBelow(u, r, versions)
<1> DEFINE u == ApplyRegistryDelta(v, d)[a]
           w == MergeIntoView(v, d.admissions)[a]
           n == d.nicknames[a]
           x == d.admissions[a]
<1>1. /\ n \in Nicknames \cup {NoNickname} /\ n.version \in Nat /\ n.sig \in Nat
      /\ v[a] \in ShownRecords /\ d.admissions \in Registries
  <2>1. n \in Nicknames \cup {NoNickname} /\ v[a] \in ShownRecords /\ d.admissions \in Registries
    BY DEF Deltas, Views
  <2> QED BY <2>1, NicknameAssumption DEF NoNickname
<1>2. u = ApplyNicknameJs(w, n.sig, n.version)
  BY DEF ApplyRegistryDelta
<1>3. /\ w \in ShownRecords /\ ViewGrows(v[a], w)
      /\ ViewBelow(v[a], r, versions) /\ Below(x, r) => ViewBelow(w, r, versions)
  BY <1>1, MergeShown
<1> HIDE DEF u, w, n, x
<1>4. /\ u \in ShownRecords /\ u.admittedTs = w.admittedTs
      /\ Known(w) <=> Known(u)
      /\ w.nicknameVersion <= u.nicknameVersion
      /\ u.nicknameVersion \in {w.nicknameVersion, n.version}
      /\ Known(w) => n.version <= u.nicknameVersion
  BY <1>1, <1>2, <1>3, NameShown
<1>5. ViewGrows(v[a], u) /\ (Known(v[a]) => n.version <= u.nicknameVersion)
  <2>1. v[a].nicknameVersion \in Nat /\ w.nicknameVersion \in Nat /\ u.nicknameVersion \in Nat
    BY <1>1, <1>3, <1>4 DEF ShownRecords
  <2> QED BY <1>3, <1>4, <2>1 DEF ViewGrows
<1>6. ASSUME ViewBelow(v[a], r, versions), Below(x, r),
             (Admitted(r) => n.version <= r.nickname.version) \/ n.version \in versions
      PROVE  ViewBelow(u, r, versions)
  BY <1>3, <1>4, <1>6 DEF ViewBelow
<1> QED BY <1>4, <1>5, <1>6 DEF u, n, x

-----------------------------------------------------------------------------
(***************************************************************************)
(* What the steps of the page do to the jobs, as long as every waiter gets *)
(* its answer: they move one flow that signs or sends, or else leave alone *)
(* what is signed and sent.                                                *)
(***************************************************************************)
Others == {"start", "probe", "work", "ghost"}

\* The upgrade is as it was, or failed, or it goes on.
UpgradeStep ==
  \/ pc'["upgrade"] = pc["upgrade"] /\ job'["upgrade"] = job["upgrade"]
  \/ /\ pc["upgrade"] # "idle" /\ pc'["upgrade"] \in {"idle", "proving"}
     /\ job'["upgrade"] = job["upgrade"]
  \/ pc'["upgrade"] = "challenging" /\ job'["upgrade"] = NoJob
  \/ /\ pc["upgrade"] # "idle" /\ pc'["upgrade"] = "signing"
     /\ \E d \in Admissions("ghostkey", UpgradeTs, {0}) :
          job'["upgrade"] = [job["upgrade"] EXCEPT !.want = d, !.seen = view[Me].admittedTs]

\* Nothing is signed, sent or acknowledged.
Quiet ==
  /\ \A e \in Edits : pc'[e] = pc[e] /\ job'[e] = job[e]
  /\ \A f \in Others : pc'[f] = "sending" => pc[f] = "sending" /\ job'[f] = job[f]
  /\ UpgradeStep /\ sent \subseteq sent'

\* f goes on to step, and none of the others does but those that stop.
Moves(f, step) ==
  /\ pc'[f] = step
  /\ \A g \in Flows \ {f} :
       /\ job'[g] = job[g]
       /\ pc'[g] = pc[g] \/ (g \in Others /\ pc'[g] \in {"stopped", "idle"})

Signs(f) ==
  /\ pc[f] = "signing" /\ Signed(f, job[f].want)
  /\ UNCHANGED <<registry, inbox, setBack>>

Heard ==
  \/ Connect \/ Refresh \/ Push \/ ReceiveState \/ Elsewhere
  \/ \E d \in sent : Apply(d) \/ ToldOf(d)

LEMMA OtherFlows ==
  /\ Flows = Others \cup {"upgrade"} \cup Edits
  /\ "upgrade" \in Flows \ Edits /\ Others \cap (Edits \cup {"upgrade"}) = {}
BY DEF Flows, Others

\* Only flows beside the edits and the upgrade change.
LEMMA QuietSteps ==
  ASSUME \A g \in Flows \ Others : pc'[g] = pc[g] /\ job'[g] = job[g],
         \A g \in Others : pc'[g] # "sending" \/ (pc'[g] = pc[g] /\ job'[g] = job[g]),
         sent \subseteq sent'
  PROVE  Quiet
<1>1. \A e \in Edits \cup {"upgrade"} : pc'[e] = pc[e] /\ job'[e] = job[e]
  BY OtherFlows
<1> QED BY <1>1 DEF Quiet, UpgradeStep

\* The worker is stopped, at most.
LEMMA StopsQuietly ==
  ASSUME StepsOK(pc), NEW v, pc' = OnRegistry(pc, v), UNCHANGED job, sent \subseteq sent'
  PROVE  Quiet
<1>1. \A g \in Flows : pc'[g] = pc[g] \/ (g \in Others /\ pc'[g] = "stopped")
  BY OnRegistryFacts DEF Others
<1> QED BY <1>1, QuietSteps, OtherFlows

LEMMA AnswerKinds ==
  ASSUME PageTypes, LineInv, ~misled, NEW d \in Delegates, OnDelegateResponse(d)
  PROVE  (Quiet /\ UNCHANGED <<view, registry, inbox, setBack, sendVars>>) \/ \E f \in Flows : Signs(f)
<1> DEFINE rest == [asked EXCEPT ![d] = Tail(@)]
           n == WaiterFor(d)
           f == pendingDelegate[n]
           line == RemoveAt(pendingDelegate, n)
           head == Head(asked[d])
<1>1. /\ pendingDelegate \in Seq(Flows) /\ AskedOK(asked) /\ asked[d] # <<>> /\ StepsOK(pc)
      /\ LineOK(pendingDelegate, pc, job, asked) /\ UNCHANGED <<registry, inbox, setBack>>
      /\ job \in [Flows -> JobRecords]
  BY AnswerCalls DEF PageTypes, Waiting, LineInv, JobsOK
<1>2. /\ n \in DOMAIN pendingDelegate /\ head.step = pc[f]
      /\ pc[f] = "signing" => head.delta = job[f].want
  BY <1>1, LineRemove
<1>3. f \in Flows /\ pc[f] \in Asking
  BY <1>2, Called DEF PageTypes
<1>4. PICK reply \in Replies(head) : Resume(f, reply, head.delta, line, rest)
  <2>1. pendingDelegate # <<>>
    BY <1>2
  <2> QED BY <2>1, AnswerCalls
<1> HIDE DEF f, n, line, rest, head
<1>5. reply = pc[f] \/ pc[f] = "proving"
  BY <1>2, <1>4 DEF Replies
<1>6. ASSUME NEW g \in Others, pc'[g] # "sending", UNCHANGED <<view, sendVars>>,
             \A h \in Flows \ {g} : pc'[h] = pc[h] /\ job'[h] = job[h]
      PROVE  Quiet /\ UNCHANGED <<view, registry, inbox, setBack, sendVars>>
  BY <1>1, <1>6, QuietSteps, OtherFlows DEF sendVars
<1>7. ASSUME f = "upgrade", UpgradeStep, UNCHANGED <<view, sendVars>>,
             \A h \in Flows \ {f} : pc'[h] = pc[h] /\ job'[h] = job[h]
      PROVE  Quiet /\ UNCHANGED <<view, registry, inbox, setBack, sendVars>>
  BY <1>1, <1>7, OtherFlows DEF Quiet, sendVars
<1>8. CASE pc[f] # reply
  <2>1. pc' = Failed(f) /\ UNCHANGED <<view, job, sendVars>>
    BY <1>4, <1>8 DEF Resume
  <2>2. f \in {"ghost", "upgrade"}
    BY <1>1, <1>3, <1>5, <1>8, FlowNames DEF StepsOK, StepsOf, Flows
  <2>3. /\ StepsOK(pc') /\ pc'[f] \notin Asking \cup {"sending"}
        /\ \A g \in Flows \ {f} :
             pc'[g] = pc[g] \/ (g = "ghost" /\ pc[g] = "waiting" /\ pc'[g] = "idle")
    BY <1>1, <1>3, <2>1, FailedFacts
  <2>4. CASE f = "ghost"
    BY <1>6, <2>1, <2>3, <2>4 DEF Others
  <2>5. CASE f = "upgrade"
    <3>1. pc'["upgrade"] = "idle" /\ pc["upgrade"] # "idle"
      BY <1>3, <2>3, <2>5, FlowNames DEF StepsOK, StepsOf, Asking
    <3>2. UpgradeStep
      BY <2>1, <3>1 DEF UpgradeStep
    <3>3. \A g \in Flows \ Others : pc'[g] = pc[g] \/ g = "upgrade"
      BY <2>3, <2>5 DEF Others
    <3>4. \A g \in Others : pc'[g] = pc[g] \/ pc'[g] = "idle"
      BY <2>3, <2>5, OtherFlows
    <3> QED BY <1>1, <2>1, <3>2, <3>3, <3>4, OtherFlows DEF Quiet, sendVars
  <2> QED BY <2>2, <2>4, <2>5
<1>9. CASE pc[f] = reply /\ reply = "challenging"
  <2>1. UNCHANGED <<view, job, sendVars>>
    BY <1>4, <1>9 DEF Resume
  <2>2. CASE f = "start"
    <3> DEFINE started == [pc EXCEPT !["start"] = "ready", !["work"] = "searching"]
    <3>1. Challenged(line, rest)
      BY <1>4, <1>9, <2>2 DEF Resume
    <3>2. pc' = started \/ pc' = [started EXCEPT !["ghost"] = "proving"]
      BY <3>1 DEF Challenged
    <3>3. \A g \in Flows \ {"start", "work", "ghost"} : pc'[g] = pc[g]
      BY <1>1, <3>2 DEF StepsOK
    <3>4. /\ pc'["start"] = "ready" /\ pc'["work"] = "searching"
          /\ pc'["ghost"] \in {pc["ghost"], "proving"}
      BY <1>1, <3>2, FlowNames DEF StepsOK
    <3>5. Quiet
      <4>1. \A g \in Flows \ Others : pc'[g] = pc[g] /\ job'[g] = job[g]
        BY <2>1, <3>3 DEF Others
      <4>2. \A g \in Others : pc'[g] # "sending" \/ (pc'[g] = pc[g] /\ job'[g] = job[g])
        BY <2>1, <3>3, <3>4, OtherFlows DEF Others
      <4> QED BY <2>1, <4>1, <4>2, QuietSteps DEF sendVars
    <3> QED BY <1>1, <2>1, <3>5
  <2>3. CASE f # "start"
    <3>1. f = "upgrade"
      BY <1>1, <1>3, <1>9, <2>3, FlowNames DEF StepsOK, StepsOf, Flows
    <3>2. pc' = [pc EXCEPT ![f] = "proving"]
      BY <1>4, <1>9, <2>3 DEF Resume, DelegateRoundTrip
    <3>3. pc'[f] = "proving" /\ \A h \in Flows \ {f} : pc'[h] = pc[h]
      BY <1>1, <1>3, <3>2 DEF StepsOK
    <3> QED BY <1>7, <1>9, <2>1, <3>1, <3>3 DEF UpgradeStep
  <2> QED BY <2>2, <2>3
<1>10. CASE pc[f] = reply /\ reply = "probing"
  <2>1. pc' = [pc EXCEPT ![f] = "done"] /\ UNCHANGED <<view, job, sendVars>>
    BY <1>4, <1>10 DEF Resume
  <2>2. f \in Others
    BY <1>1, <1>3, <1>10, FlowNames DEF StepsOK, StepsOf, Flows, Others
  <2>3. pc'[f] = "done" /\ \A g \in Flows \ {f} : pc'[g] = pc[g]
    BY <1>1, <1>3, <2>1 DEF StepsOK
  <2> QED BY <1>6, <2>1, <2>2, <2>3
<1>11. CASE pc[f] = reply /\ reply = "proving"
  <2>1. Proved(f, line, rest) /\ UNCHANGED <<view, sendVars>>
    BY <1>4, <1>11 DEF Resume
  <2>2. CASE f = "ghost"
    <3>1. PICK d2 \in Deltas :
            pc' = [pc EXCEPT ![f] = "signing"] /\ job' = [job EXCEPT ![f].want = d2]
      BY <2>1, <2>2, AskedTypes DEF Proved, AskToSign, DelegateRoundTrip
    <3>2. pc'[f] = "signing" /\ \A g \in Flows \ {f} : pc'[g] = pc[g] /\ job'[g] = job[g]
      BY <1>1, <1>3, <3>1 DEF StepsOK
    <3> QED BY <1>6, <2>1, <2>2, <3>2 DEF Others
  <2>3. CASE f # "ghost"
    <3>1. f = "upgrade"
      BY <1>1, <1>3, <1>11, <2>3, FlowNames DEF StepsOK, StepsOf, Flows
    <3>2. PICK d2 \in Admissions("ghostkey", UpgradeTs, {0}) :
            /\ pc' = [pc EXCEPT ![f] = "signing"]
            /\ job' = [job EXCEPT ![f].want = d2, ![f].seen = view[Me].admittedTs]
      BY <2>1, <2>3 DEF Proved, DelegateRoundTrip
    <3>3. pc'[f] = "signing" /\ \A g \in Flows \ {f} : pc'[g] = pc[g] /\ job'[g] = job[g]
      BY <1>1, <1>3, <3>2 DEF StepsOK
    <3>4. job'[f] = [job[f] EXCEPT !.want = d2, !.seen = view[Me].admittedTs]
      BY <1>1, <1>3, <3>2
    <3>5. UpgradeStep
      BY <1>11, <3>1, <3>3, <3>4 DEF UpgradeStep
    <3> QED BY <1>7, <2>1, <3>1, <3>3, <3>5
  <2> QED BY <2>2, <2>3
<1>12. CASE pc[f] = reply /\ reply = "signing"
  <2>1. Signed(f, head.delta)
    BY <1>4, <1>12 DEF Resume
  <2>2. Signs(f)
    BY <1>1, <1>2, <1>12, <2>1 DEF Signs
  <2> QED BY <1>3, <2>2
<1> QED BY <1>3, <1>8, <1>9, <1>10, <1>11, <1>12 DEF Asking

LEMMA StepKinds ==
  ASSUME PageTypes, LineInv, [PageNext]_pageVars, ~misled'
  PROVE  /\ ~misled
         /\ \/ Quiet /\ (Heard \/ UNCHANGED <<view, registry, inbox, setBack, sendVars>>)
            \/ \E e \in Edits : SetNickname(e)
            \/ \E f \in Flows : \/ Signs(f) \/ GiveUp(f)
                               \/ Acknowledge(f) \/ AcknowledgeForOther(f)
<1>1. ~misled
  BY DEF pageVars, askVars, PageNext, Users, Connect, ClickGhostkey, ClickUpgrade, SetNickname,
         FindNonce, Timeouts, TimeoutAsk, Sendings, Acknowledge, AcknowledgeForOther, Returns,
         GiveUp, OnErr, FailNextDelegate, OnDelegateResponse, Apply, ToldOf, Elsewhere,
         Refresh, Merged, Push, ReceiveState
<1>2. StepsOK(pc) /\ job \in [Flows -> JobRecords]
  BY DEF PageTypes, JobsOK
<1>3. CASE UNCHANGED pageVars
  <2>1. Quiet
    BY <1>3, QuietSteps DEF pageVars, sendVars
  <2> QED BY <1>1, <1>3, <2>1 DEF pageVars
<1>4. CASE Connect
  <2>1. /\ UNCHANGED <<job, sendVars>>
        /\ \/ pc' = [pc EXCEPT !["start"] = "unneeded"]
           \/ pc' = [pc EXCEPT !["start"] = "challenging", !["probe"] = "probing"]
    BY <1>4 DEF Connect
  <2>2. \A g \in Flows : pc'[g] = pc[g] \/ (g \in Others /\ pc'[g] # "sending")
    BY <1>2, <2>1 DEF StepsOK, Others
  <2>3. Quiet
    BY <2>1, <2>2, QuietSteps, OtherFlows DEF sendVars
  <2> QED BY <1>1, <1>4, <2>3 DEF Heard
<1>5. CASE ClickGhostkey \/ FindNonce
  <2>1. /\ UNCHANGED <<view, registry, inbox, setBack, sendVars>>
        /\ \E g \in Others, step \in {"waiting", "proving", "signing"} : \E d :
             /\ pc' = [pc EXCEPT ![g] = step]
             /\ job' = job \/ job' = [job EXCEPT ![g].want = d]
    BY <1>5 DEF ClickGhostkey, FindNonce, AskToSign, DelegateRoundTrip, Others
  <2>2. \E g \in Others : /\ pc'[g] # "sending"
                          /\ \A h \in Flows \ {g} : pc'[h] = pc[h] /\ job'[h] = job[h]
    BY <1>2, <2>1, OtherFlows DEF StepsOK
  <2>3. Quiet
    BY <2>1, <2>2, QuietSteps, OtherFlows DEF sendVars
  <2> QED BY <1>1, <2>1, <2>3
<1>6. CASE ClickUpgrade
  <2>1. /\ UNCHANGED <<view, registry, inbox, setBack, sendVars>>
        /\ pc' = [pc EXCEPT !["upgrade"] = "challenging"]
        /\ job' = [job EXCEPT !["upgrade"] = NoJob]
    BY <1>6 DEF ClickUpgrade, DelegateRoundTrip
  <2>2. /\ pc'["upgrade"] = "challenging" /\ job'["upgrade"] = NoJob
        /\ \A g \in Flows \ {"upgrade"} : pc'[g] = pc[g] /\ job'[g] = job[g]
    BY <1>2, <2>1, OtherFlows DEF StepsOK
  <2>3. Quiet
    BY <2>1, <2>2, OtherFlows DEF Quiet, UpgradeStep, sendVars
  <2> QED BY <1>1, <2>1, <2>3
<1>7. CASE Timeouts \/ OnErr
  BY <1>7 DEF Timeouts, TimeoutAsk, OnErr, FailNextDelegate
<1>8. CASE \E d \in Delegates : OnDelegateResponse(d)
  BY <1>1, <1>8, AnswerKinds
<1>9. ASSUME NEW v, Merged(v) PROVE Quiet
  BY <1>2, <1>9, StopsQuietly DEF Merged, sendVars
<1>10. CASE Push \/ Elsewhere \/ \E d \in sent : Apply(d)
  <2>1. UNCHANGED <<pc, job>> /\ sent \subseteq sent'
    BY <1>10 DEF Push, Elsewhere, Apply, sendVars
  <2>2. Quiet
    BY <2>1, QuietSteps
  <2> QED BY <1>1, <1>10, <2>2 DEF Heard
<1>11. CASE Refresh \/ \E d \in sent : ToldOf(d)
  BY <1>1, <1>9, <1>11 DEF Refresh, ToldOf, Heard
<1>12. CASE ReceiveState
  <2>1. pc' = OnRegistry(pc, view') /\ UNCHANGED <<job, sendVars>>
    BY <1>12 DEF ReceiveState
  <2> QED BY <1>1, <1>2, <1>12, <2>1, StopsQuietly DEF Heard, sendVars
<1> QED BY <1>1, <1>3, <1>4, <1>5, <1>6, <1>7, <1>8, <1>10, <1>11, <1>12
        DEF PageNext, Users, Sendings

LEMMA MovesFacts ==
  ASSUME PageTypes, NEW f \in Flows
  PROVE  /\ Signs(f) => /\ Moves(f, "sending") /\ sent' = sent \cup {job[f].want}
                        /\ job'[f] = [job[f] EXCEPT !.got = job[f].want]
         /\ Returns(f) => /\ Moves(f, IF f = "upgrade" THEN "idle" ELSE "done")
                          /\ job'[f] = Ended(f, TRUE) /\ UNCHANGED sent
         /\ Acknowledge(f) \/ AcknowledgeForOther(f) => Returns(f)
         /\ GiveUp(f) => /\ \E step \in {"idle", "failed"} : Moves(f, step)
                         /\ f \in Edits => Moves(f, "failed")
                         /\ job'[f] = Ended(f, FALSE) /\ UNCHANGED sent
<1>1. StepsOK(pc) /\ job \in [Flows -> JobRecords]
  BY DEF PageTypes, JobsOK
<1>2. ASSUME NEW step \in StepsOf(f) \cap Steps, pc[f] \in {"signing", "sending"},
             step # "searching",
             pc' = [pc EXCEPT ![f] = step] \/ \E v : pc' = OnRegistry([pc EXCEPT ![f] = step], v),
             \A g \in Flows \ {f} : job'[g] = job[g]
      PROVE  Moves(f, step)
  <2> DEFINE s == [pc EXCEPT ![f] = step]
  <2>1. f \notin {"start", "probe"} /\ (f = "work" => pc["start"] \notin {"idle", "challenging"})
    BY <1>1, <1>2, FlowNames DEF StepsOK, StepsOf
  <2>2. StepsOK(s)
    BY <1>1, <1>2, <2>1, StepTypes
  <2>3. s[f] = step /\ \A g \in Flows \ {f} : s[g] = pc[g]
    BY <1>1 DEF StepsOK
  <2>5. pc' = s \/ \E v : pc' = OnRegistry(s, v)
    BY <1>2
  <2> HIDE DEF s
  <2>4. \A g \in Flows : pc'[g] = s[g] \/ (g = "work" /\ s[g] = "searching" /\ pc'[g] = "stopped")
    BY <2>2, <2>5, OnRegistryFacts
  <2> QED BY <1>2, <2>3, <2>4 DEF Moves, Others
<1>3. ASSUME Signs(f)
      PROVE  /\ Moves(f, "sending") /\ sent' = sent \cup {job[f].want}
             /\ job'[f] = [job[f] EXCEPT !.got = job[f].want]
  <2>1. "sending" \in StepsOf(f) \cap Steps
    BY <1>1, <1>3, FlowNames DEF Signs, StepsOK, StepsOf, Flows, Steps
  <2>2. /\ job' = [job EXCEPT ![f].got = job[f].want] /\ sent' = sent \cup {job[f].want}
        /\ \/ pc' = [pc EXCEPT ![f] = "sending"]
           \/ \E v : pc' = OnRegistry([pc EXCEPT ![f] = "sending"], v)
    BY <1>3 DEF Signs, Signed
  <2>3. /\ job'[f] = [job[f] EXCEPT !.got = job[f].want]
        /\ \A g \in Flows \ {f} : job'[g] = job[g]
    BY <1>1, <2>2
  <2> QED BY <1>2, <1>3, <2>1, <2>2, <2>3 DEF Signs
<1>4. ASSUME Returns(f) \/ GiveUp(f)
      PROVE  /\ UNCHANGED sent /\ pc[f] = "sending" /\ \A g \in Flows \ {f} : job'[g] = job[g]
             /\ Returns(f) => job'[f] = Ended(f, TRUE)
             /\ GiveUp(f) => job'[f] = Ended(f, FALSE)
  BY <1>1, <1>4 DEF Returns, GiveUp, sendVars
<1>5. ASSUME Returns(f) PROVE Moves(f, IF f = "upgrade" THEN "idle" ELSE "done")
  <2> DEFINE end == IF f = "upgrade" THEN "idle" ELSE "done"
  <2>1. end \in StepsOf(f) \cap Steps /\ end # "searching"
    BY <1>1, <1>4, <1>5, FlowNames DEF StepsOK, StepsOf, Flows, Steps
  <2>2. \E v : pc' = OnRegistry([pc EXCEPT ![f] = end], v)
    BY <1>5 DEF Returns
  <2> HIDE DEF end
  <2>3. Moves(f, end)
    BY <1>2, <1>4, <1>5, <2>1, <2>2
  <2> QED BY <2>3 DEF end
<1>6. ASSUME GiveUp(f)
      PROVE  (\E step \in {"idle", "failed"} : Moves(f, step)) /\ (f \in Edits => Moves(f, "failed"))
  <2>1. pc' = Failed(f) /\ pc[f] = "sending"
    BY <1>6 DEF GiveUp
  <2>2. f \notin {"start", "probe"}
    BY <1>1, <2>1, FlowNames DEF StepsOK, StepsOf
  <2>3. \A g \in Flows \ {f} : pc'[g] = pc[g] \/ (g \in Others /\ pc'[g] = "idle")
    BY <1>1, <2>1, FailedFacts DEF Others
  <2> DEFINE end == CASE f = "probe" -> "done"
                      [] f \in {"ghost", "upgrade"} -> "idle"
                      [] OTHER -> "failed"
             mid == [pc EXCEPT ![f] = end]
  <2>4. end = IF f \in {"ghost", "upgrade"} THEN "idle" ELSE "failed"
    BY <2>2
  <2>5. pc' = [mid EXCEPT !["ghost"] = IF f = "start" /\ mid["ghost"] = "waiting" THEN "idle"
                                       ELSE IF f = "ghost" THEN "idle" ELSE mid["ghost"]]
    BY <2>1 DEF Failed
  <2>6. mid[f] = end /\ DOMAIN mid = Flows
    BY <1>1 DEF StepsOK
  <2> HIDE DEF mid, end
  <2>7. pc'[f] = end
    BY <2>4, <2>5, <2>6
  <2>8. Moves(f, end)
    BY <1>4, <1>6, <2>3, <2>7 DEF Moves
  <2> QED BY <2>4, <2>8, OtherFlows DEF Others
<1>7. Acknowledge(f) \/ AcknowledgeForOther(f) => Returns(f)
  BY DEF Acknowledge, AcknowledgeForOther
<1> QED BY <1>3, <1>4, <1>5, <1>6, <1>7

LEMMA RenameMoves ==
  ASSUME PageTypes, NEW e \in Edits, SetNickname(e)
  PROVE  /\ pc[e] = "idle" /\ Unlocked(view) /\ Moves(e, "signing")
         /\ \E d \in Renamings(view[Me].nicknameVersion + 1) :
              job'[e] = [job[e] EXCEPT !.want = d, !.after = {f \in Edits : job[f].got # NoDelta}]
         /\ UNCHANGED <<registry, view, inbox, sendVars, setBack>>
<1>1. StepsOK(pc) /\ job \in [Flows -> JobRecords] /\ e \in Flows
  BY FlowNames DEF PageTypes, JobsOK
<1>2. PICK d \in Renamings(view[Me].nicknameVersion + 1) :
        /\ pc' = [pc EXCEPT ![e] = "signing"]
        /\ job' = [job EXCEPT ![e].want = d,
                              ![e].after = {f \in Edits : job[f].got # NoDelta}]
  BY DEF SetNickname, DelegateRoundTrip
<1>3. job'[e] = [job[e] EXCEPT !.want = d, !.after = {f \in Edits : job[f].got # NoDelta}]
  BY <1>1, <1>2
<1>4. pc'[e] = "signing" /\ \A g \in Flows \ {e} : pc'[g] = pc[g] /\ job'[g] = job[g]
  BY <1>1, <1>2 DEF StepsOK
<1> QED BY <1>3, <1>4 DEF Moves, SetNickname

\* The jobs of the edits.  A signed nickname is one of the user.
Version(d) == d.nicknames[Me].version

OwnNames == {NicknameOf(Me, n) : n \in Nicknames}

EditJob(step, j) ==
  /\ step \in {"signing", "sending"} => j.want \in OwnNames
  /\ step \in {"idle", "signing"} => j.got = NoDelta
  /\ j.acked => j.got \in OwnNames

EditJobs == \A e \in Edits : EditJob(pc[e], job[e])

LEMMA OwnNameFacts ==
  /\ \A d \in OwnNames : d \in Deltas /\ d.admissions[Me] = NotAdmitted /\ Version(d) >= 1
  /\ Version(NoDelta) = 0 /\ NoDelta \notin OwnNames /\ NoDelta.admissions[Me] = NotAdmitted
  /\ \A version, d : d \in Renamings(version) => d \in OwnNames /\ Version(d) = version
  /\ \A d \in Deltas : Version(d) \in Nat
<1>1. ASSUME NEW n \in Nicknames
      PROVE  /\ NicknameOf(Me, n) \in Deltas /\ Version(NicknameOf(Me, n)) = n.version
             /\ NicknameOf(Me, n).admissions[Me] = NotAdmitted
             /\ n.version \in Nat \ {0}
  <2>1. NicknameOf(Me, n) =
          [admissions |-> EmptyRegistry,
           nicknames  |-> [b \in Authors |-> IF b = Me THEN n ELSE NoNickname]]
    BY DEF NicknameOf, NoDelta
  <2>2. n.version \in Nat \ {0}
    BY NicknameAssumption
  <2>3. NicknameOf(Me, n) \in Deltas
    BY ClientDeltaType DEF ClientDeltas
  <2> QED BY <2>1, <2>2, <2>3 DEF Version, EmptyRegistry
<1>2. Version(NoDelta) = 0 /\ NoDelta.admissions[Me] = NotAdmitted
  BY DEF Version, NoDelta, NoNickname, EmptyRegistry
<1>3. \A d \in Deltas : Version(d) \in Nat
  BY NicknameAssumption DEF Deltas, Version, NoNickname
<1>4. \A d \in OwnNames : d \in Deltas /\ d.admissions[Me] = NotAdmitted /\ Version(d) >= 1
  BY <1>1 DEF OwnNames
<1>5. NoDelta \notin OwnNames
  BY <1>2, <1>4
<1>6. \A version, d : d \in Renamings(version) => d \in OwnNames /\ Version(d) = version
  BY <1>1 DEF Renamings, OwnNames
<1> QED BY <1>2, <1>3, <1>4, <1>5, <1>6

LEMMA EndedFacts ==
  ASSUME PageTypes, NEW f \in Flows, NEW acked \in BOOLEAN
  PROVE  /\ Ended(f, acked).want = NoDelta
         /\ Ended(f, acked).got = IF f \in Edits THEN job[f].got ELSE NoDelta
         /\ Ended(f, acked).seen = job[f].seen /\ Ended(f, acked).after = job[f].after
         /\ Ended(f, acked).acked = (acked /\ f \in Edits \cup {"upgrade"})
<1>1. job[f] \in JobRecords
  BY DEF PageTypes, JobsOK
<1>2. Ended(f, acked) =
        [job[f] EXCEPT !.want = NoDelta, !.got = IF f \in Edits THEN job[f].got ELSE NoDelta,
                       !.acked = acked /\ f \in Edits \cup {"upgrade"}]
  BY DEF Ended
<1> QED BY <1>1, <1>2 DEF JobRecords

LEMMA EditJobsKept ==
  ASSUME PageTypes, LineInv, EditJobs, [PageNext]_pageVars, ~misled'
  PROVE  EditJobs'
<1>1. /\ job \in [Flows -> JobRecords] /\ Edits \subseteq Flows
      /\ SentAsAsked(pc, job)
  BY StepKinds, FlowNames DEF PageTypes, JobsOK, LineInv
<1>2. \A e \in Edits : EditJob(pc[e], job[e]) /\ job[e] \in JobRecords
  BY <1>1 DEF EditJobs
<1> SUFFICES ASSUME NEW e \in Edits PROVE EditJob(pc'[e], job'[e])
  BY DEF EditJobs
<1>3. ASSUME pc'[e] = pc[e], job'[e] = job[e] PROVE EditJob(pc'[e], job'[e])
  BY <1>2, <1>3
<1>4. ASSUME NEW f \in Flows \ {e}, NEW step, Moves(f, step) PROVE EditJob(pc'[e], job'[e])
  BY <1>1, <1>3, <1>4, OtherFlows DEF Moves
<1>5. CASE Quiet
  BY <1>3, <1>5 DEF Quiet
<1>6. ASSUME NEW f \in Edits, SetNickname(f) PROVE EditJob(pc'[e], job'[e])
  <2>1. CASE f # e
    BY <1>1, <1>4, <1>6, <2>1, RenameMoves
  <2>2. CASE f = e
    <3>1. PICK d \in Renamings(view[Me].nicknameVersion + 1) :
            job'[e] = [job[e] EXCEPT !.want = d, !.after = {g \in Edits : job[g].got # NoDelta}]
      BY <1>6, <2>2, RenameMoves
    <3>2. /\ job'[e].want = d /\ job'[e].got = job[e].got /\ job'[e].acked = job[e].acked
          /\ pc[e] = "idle" /\ pc'[e] = "signing"
      BY <1>2, <1>6, <2>2, <3>1, RenameMoves DEF JobRecords, Moves
    <3> QED BY <1>2, <3>1, <3>2, OwnNameFacts DEF EditJob
  <2> QED BY <2>1, <2>2
<1>7. ASSUME NEW f \in Flows, Signs(f) PROVE EditJob(pc'[e], job'[e])
  <2>1. CASE f # e
    BY <1>4, <1>7, <2>1, MovesFacts
  <2>2. CASE f = e
    <3>1. /\ pc[e] = "signing" /\ pc'[e] = "sending"
          /\ job'[e] = [job[e] EXCEPT !.got = job[e].want]
      BY <1>7, <2>2, MovesFacts DEF Signs, Moves
    <3>2. /\ job'[e].want = job[e].want /\ job'[e].got = job[e].want
          /\ job'[e].acked = job[e].acked
      BY <1>2, <3>1 DEF JobRecords
    <3> QED BY <1>2, <3>1, <3>2, OwnNameFacts DEF EditJob
  <2> QED BY <2>1, <2>2
<1>8. ASSUME NEW f \in Flows, Returns(f) \/ GiveUp(f) PROVE EditJob(pc'[e], job'[e])
  <2>1. CASE f # e
    BY <1>4, <1>8, <2>1, MovesFacts
  <2>2. CASE f = e
    <3>1. pc[e] = "sending" /\ e # "upgrade"
      BY <1>8, <2>2, OtherFlows DEF Returns, GiveUp
    <3>2. pc'[e] \in {"done", "failed"}
      BY <1>8, <2>2, <3>1, MovesFacts DEF Moves
    <3>3. job'[e].got = job[e].got
      BY <1>8, <2>2, MovesFacts, EndedFacts
    <3>4. job[e].got \in OwnNames
      BY <1>1, <1>2, <3>1 DEF SentAsAsked, EditJob
    <3> QED BY <3>2, <3>3, <3>4 DEF EditJob
  <2> QED BY <2>1, <2>2
<1> QED BY <1>5, <1>6, <1>7, <1>8, StepKinds, MovesFacts

-----------------------------------------------------------------------------
(***************************************************************************)
(* UpgradeWins.  The registry has its core from something that was sent,   *)
(* and an upgrade asks for an admission earlier than the one it has seen.  *)
(***************************************************************************)
SentJobs ==
  /\ \A f \in Flows : pc[f] = "sending" => job[f].got \in sent
  /\ Admitted(registry[Me]) =>
       \E d \in sent : d.admissions[Me].core = registry[Me].core

LEMMA MyRecord ==
  ASSUME NEW reg \in Registries
  PROVE  reg[Me] \in Records \cup {NotAdmitted} /\ Below(reg[Me], reg[Me])
<1>1. reg[Me] \in Records \cup {NotAdmitted}
  BY DEF Registries
<1> QED BY <1>1, RecordTypes DEF Below

\* What the registry of the node takes in was sent.
LEMMA RegistryTakes ==
  ASSUME PageTypes, LineInv, SentJobs, [PageNext]_pageVars, ~misled'
  PROVE  /\ sent \subseteq sent'
         /\ registry' = registry \/ \E d \in sent' : registry' = ApplyDelta(registry, d)
<1>1. CASE Quiet /\ (Heard \/ UNCHANGED registry)
  BY <1>1 DEF Quiet, Heard, Connect, Refresh, Merged, Push, ReceiveState, Elsewhere, Apply,
              ToldOf
<1>2. ASSUME NEW e \in Edits, SetNickname(e) PROVE UNCHANGED <<registry, sendVars>>
  BY <1>2, RenameMoves
<1>3. ASSUME NEW f \in Flows, Signs(f) PROVE UNCHANGED registry /\ sent \subseteq sent'
  BY <1>3, MovesFacts DEF Signs
<1>4. ASSUME NEW f \in Flows, Acknowledge(f)
      PROVE  UNCHANGED sent /\ job[f].got \in sent /\ registry' = ApplyDelta(registry, job[f].got)
  BY <1>4 DEF Acknowledge, Returns, SentJobs
<1>5. ASSUME NEW f \in Flows, AcknowledgeForOther(f) \/ GiveUp(f) PROVE UNCHANGED <<registry, sent>>
  BY <1>5 DEF AcknowledgeForOther, Returns, GiveUp, sendVars
<1> QED BY <1>1, <1>2, <1>3, <1>4, <1>5, StepKinds DEF sendVars

LEMMA RegistryGrows ==
  ASSUME PageTypes, PageTypes', LineInv, SentJobs, [PageNext]_pageVars, ~misled'
  PROVE  /\ registry \in Registries /\ registry' \in Registries /\ Below(registry[Me], registry'[Me])
         /\ \/ registry'[Me].core = registry[Me].core
            \/ \E d \in sent' : registry'[Me].core = d.admissions[Me].core
<1>1. registry \in Registries /\ registry' \in Registries /\ sent' \subseteq Deltas
  BY DEF PageTypes, DataOK, JobsOK
<1>2. CASE registry' = registry
  BY <1>1, <1>2, MyRecord
<1>3. ASSUME NEW d \in sent', registry' = ApplyDelta(registry, d)
      PROVE  /\ Below(registry[Me], registry'[Me])
             /\ registry'[Me].core \in {registry[Me].core, d.admissions[Me].core}
  BY <1>1, <1>3, RecordGrows
<1> QED BY <1>1, <1>2, <1>3, RegistryTakes

LEMMA SentJobsKept ==
  ASSUME PageTypes, PageTypes', LineInv, SentJobs, [PageNext]_pageVars, ~misled'
  PROVE  SentJobs'
<1>1. sent \subseteq sent'
  BY RegistryTakes
<1>2. Admitted(registry'[Me]) => \E d \in sent' : d.admissions[Me].core = registry'[Me].core
  <2>1. CASE registry'[Me].core = registry[Me].core
    BY <1>1, <2>1 DEF SentJobs, Admitted
  <2> QED BY <2>1, RegistryGrows
<1>3. ASSUME NEW f \in Flows, NEW step, Moves(f, step),
             step = "sending" => job'[f].got \in sent'
      PROVE  \A g \in Flows : pc'[g] = "sending" => job'[g].got \in sent'
  BY <1>1, <1>3 DEF Moves, SentJobs
<1>4. CASE Quiet
  <2>1. \A g \in Flows : pc'[g] = "sending" => pc[g] = "sending" /\ job'[g] = job[g]
    BY <1>4, OtherFlows DEF Quiet, UpgradeStep
  <2> QED BY <1>1, <1>2, <2>1 DEF SentJobs
<1>5. ASSUME NEW e \in Edits, SetNickname(e) PROVE Moves(e, "signing") /\ e \in Flows
  BY <1>5, RenameMoves, FlowNames
<1>6. ASSUME NEW f \in Flows, Signs(f)
      PROVE  Moves(f, "sending") /\ job'[f].got \in sent'
  <2>1. job[f] \in JobRecords
    BY DEF PageTypes, JobsOK
  <2>2. job'[f] = [job[f] EXCEPT !.got = job[f].want]
    BY <1>6, MovesFacts
  <2>3. job'[f].got = job[f].want
    BY <2>1, <2>2 DEF JobRecords
  <2> QED BY <1>6, <2>3, MovesFacts
<1>7. ASSUME NEW f \in Flows, Returns(f) \/ GiveUp(f)
      PROVE  \E step : step # "sending" /\ Moves(f, step)
  <2>1. CASE Returns(f)
    <3> DEFINE end == IF f = "upgrade" THEN "idle" ELSE "done"
    <3>1. Moves(f, end) /\ end # "sending"
      BY <2>1, MovesFacts
    <3> QED BY <3>1
  <2>2. CASE GiveUp(f)
    BY <2>2, MovesFacts
  <2> QED BY <1>7, <2>1, <2>2
<1>8. ASSUME \A g \in Flows : pc'[g] = "sending" => job'[g].got \in sent' PROVE SentJobs'
  BY <1>2, <1>8 DEF SentJobs
<1> QED BY <1>3, <1>4, <1>5, <1>6, <1>7, <1>8, StepKinds, MovesFacts

UpgradeJob ==
  LET up == job["upgrade"]
  IN  /\ pc["upgrade"] # "idle" => ~up.acked
      /\ pc["upgrade"] \in {"signing", "sending"} =>
           \E r \in Records : /\ up.want = AdmissionOf(Me, r)
                              /\ up.seen # 0 => r.core.ts < up.seen
      /\ up.acked /\ up.seen # 0 =>
           \/ "upgrade" \in crossed
           \/ Admitted(registry[Me]) /\ registry[Me].core.ts < up.seen

\* Who was acknowledged for another is remembered.
LEMMA CrossedGrows ==
  ASSUME PageTypes, LineInv, [PageNext]_pageVars, ~misled'
  PROVE  /\ crossed \subseteq crossed'
         /\ \A f \in Flows : AcknowledgeForOther(f) => f \in crossed'
<1>1. ASSUME UNCHANGED sendVars PROVE UNCHANGED crossed
  BY <1>1 DEF sendVars
<1>2. ASSUME Heard PROVE UNCHANGED crossed
  <2>1. ASSUME Elsewhere PROVE UNCHANGED crossed
    BY <2>1 DEF Elsewhere
  <2>2. ASSUME ~Elsewhere PROVE UNCHANGED sendVars
    BY <1>2, <2>2 DEF Heard, Connect, Refresh, ToldOf, Merged, Push, ReceiveState, Apply
  <2> QED BY <1>1, <2>1, <2>2
<1>3. ASSUME NEW e \in Edits, SetNickname(e) PROVE UNCHANGED crossed
  BY <1>1, <1>3, RenameMoves
<1>4. ASSUME NEW f \in Flows, Signs(f) \/ GiveUp(f) \/ Acknowledge(f) PROVE UNCHANGED crossed
  BY <1>1, <1>4 DEF Signs, Signed, GiveUp, Acknowledge
<1>5. \A f \in Flows : AcknowledgeForOther(f) => crossed' = crossed \cup {f}
  BY DEF AcknowledgeForOther
<1> QED BY <1>1, <1>2, <1>3, <1>4, <1>5, StepKinds

LEMMA UpgradeJobKept ==
  ASSUME PageTypes, PageTypes', LineInv, SentJobs, UpgradeJob, [PageNext]_pageVars, ~misled'
  PROVE  UpgradeJob'
<1> DEFINE u == "upgrade"
           up == job[u]
           new == job'[u]
           Earlier(j) == \E r \in Records : /\ j.want = AdmissionOf(Me, r)
                                            /\ j.seen # 0 => r.core.ts < j.seen
           Kept(j, reg) == Admitted(reg[Me]) /\ reg[Me].core.ts < j.seen
<1>1. /\ pc[u] # "idle" => ~up.acked
      /\ pc[u] \in {"signing", "sending"} => Earlier(up)
      /\ up.acked /\ up.seen # 0 => u \in crossed \/ Kept(up, registry)
  BY DEF UpgradeJob
<1>2. up \in JobRecords /\ new \in JobRecords /\ u \in Flows
  BY OtherFlows DEF PageTypes, JobsOK
<1>3. /\ registry[Me] \in Records \cup {NotAdmitted} /\ registry'[Me] \in Records \cup {NotAdmitted}
      /\ Below(registry[Me], registry'[Me])
  BY RegistryGrows, MyRecord
<1>4. \A n \in Nat : Admitted(registry[Me]) /\ registry[Me].core.ts < n
                       => Admitted(registry'[Me]) /\ registry'[Me].core.ts < n
  BY <1>3, RecordTypes DEF Below
<1>5. ASSUME /\ pc'[u] # "idle" => ~new.acked
             /\ pc'[u] \in {"signing", "sending"} => Earlier(new)
             /\ new.acked /\ new.seen # 0 => u \in crossed' \/ Kept(new, registry')
      PROVE  UpgradeJob'
  BY <1>5 DEF UpgradeJob
<1>6. ASSUME pc'[u] = pc[u], new = up PROVE UpgradeJob'
  <2>1. up.seen \in Nat
    BY <1>2 DEF JobRecords
  <2> HIDE DEF up, new
  <2> QED BY <1>1, <1>4, <1>5, <1>6, <2>1, CrossedGrows
<1>7. ASSUME NEW f \in Flows \ {u}, NEW step, Moves(f, step) PROVE UpgradeJob'
  BY <1>2, <1>6, <1>7, OtherFlows DEF Moves
<1> HIDE DEF up, new, Earlier, Kept
<1>8. CASE Quiet
  <2>1. CASE /\ pc[u] # "idle" /\ pc'[u] \in {"idle", "proving"}
             /\ new = up
    BY <1>1, <1>5, <2>1
  <2>2. CASE pc'[u] = "challenging" /\ new = NoJob
    <3>1. ~new.acked
      BY <2>2 DEF NoJob
    <3> QED BY <1>5, <2>2, <3>1
  <2>3. ASSUME NEW d \in Admissions("ghostkey", UpgradeTs, {0}), pc[u] # "idle",
               pc'[u] = "signing",
               new = [up EXCEPT !.want = d, !.seen = view[Me].admittedTs]
        PROVE  UpgradeJob'
    <3>1. new.want = d /\ new.seen = view[Me].admittedTs /\ new.acked = up.acked
      BY <1>2, <2>3 DEF JobRecords
    <3>2. PICK r \in Records : d = AdmissionOf(Me, r) /\ r.core.ts = UpgradeTs
      BY DEF Admissions
    <3>3. ASSUME view[Me].admittedTs # 0 PROVE r.core.ts < view[Me].admittedTs
      <4>1. Unlocked(view) /\ view[Me].admittedTs \in Nat
        BY <3>3 DEF Unlocked, Known, Unknown, PageTypes, DataOK, Views, ShownRecords
      <4> QED BY <3>2, <4>1 DEF UpgradeTs
    <3>4. Earlier(new)
      BY <3>1, <3>2, <3>3 DEF Earlier
    <3> QED BY <1>1, <1>5, <2>3, <3>1, <3>4
  <2> QED BY <1>6, <1>8, <2>1, <2>2, <2>3 DEF Quiet, UpgradeStep, up, new
<1>9. ASSUME NEW e \in Edits, SetNickname(e) PROVE UpgradeJob'
  BY <1>7, <1>9, RenameMoves, OtherFlows
<1>10. ASSUME NEW f \in Flows, Signs(f) PROVE UpgradeJob'
  <2>1. CASE f = u
    <3>1. /\ pc[u] = "signing" /\ pc'[u] = "sending" /\ new = [up EXCEPT !.got = up.want]
      BY <1>10, <2>1, MovesFacts DEF Signs, Moves, up, new
    <3>2. new.want = up.want /\ new.seen = up.seen /\ new.acked = up.acked
      BY <1>2, <3>1 DEF JobRecords
    <3>3. ~new.acked /\ Earlier(new)
      BY <1>1, <3>1, <3>2 DEF Earlier
    <3> QED BY <1>5, <3>1, <3>3
  <2> QED BY <1>7, <1>10, <2>1, MovesFacts
<1>11. ASSUME NEW f \in Flows, GiveUp(f) PROVE UpgradeJob'
  <2>1. CASE f = u
    <3>1. /\ new = Ended(u, FALSE)
          /\ \E step \in {"idle", "failed"} : Moves(u, step)
      BY <1>2, <1>11, <2>1, MovesFacts DEF new
    <3>2. ~new.acked
      BY <1>2, <3>1, EndedFacts
    <3>3. pc'[u] \in {"idle", "failed"}
      BY <3>1 DEF Moves
    <3> QED BY <1>5, <3>2, <3>3
  <2> QED BY <1>7, <1>11, <2>1, MovesFacts
<1>12. ASSUME NEW f \in Flows, Acknowledge(f) PROVE UpgradeJob'
  <2>1. CASE f = u
    <3>1. /\ pc[u] = "sending" /\ pc'[u] = "idle" /\ new.seen = up.seen
          /\ registry' = ApplyDelta(registry, up.got)
      <4>1. Moves(u, "idle") /\ new = Ended(u, TRUE)
        BY <1>2, <1>12, <2>1, MovesFacts DEF new
      <4>2. new.seen = up.seen
        BY <1>2, <4>1, EndedFacts DEF up
      <4>3. pc[u] = "sending" /\ registry' = ApplyDelta(registry, up.got)
        BY <1>12, <2>1 DEF Acknowledge, Returns, up
      <4> QED BY <4>1, <4>2, <4>3 DEF Moves
    <3>2. up.got = up.want /\ up.got \in Deltas /\ up.seen \in Nat
      BY <1>2, <3>1, StepKinds DEF LineInv, SentAsAsked, JobRecords, up
    <3>3. PICK r \in Records : /\ up.want = AdmissionOf(Me, r)
                               /\ up.seen # 0 => r.core.ts < up.seen
      BY <1>1, <3>1 DEF Earlier
    <3>4. up.got.admissions[Me] = r
      BY <3>2, <3>3 DEF AdmissionOf, NoDelta, EmptyRegistry
    <3>5. Below(r, registry'[Me])
      BY <3>1, <3>2, <3>4, RecordGrows, RegistryGrows DEF Dominates
    <3>6. Admitted(r) /\ r.core.ts \in Nat
      BY RecordOps, RecordTypes
    <3>7. up.seen # 0 => Kept(new, registry')
      BY <1>3, <3>1, <3>2, <3>3, <3>5, <3>6, RecordTypes DEF Below, Kept
    <3> QED BY <1>5, <3>1, <3>7
  <2> QED BY <1>7, <1>12, <2>1, MovesFacts
<1>13. ASSUME NEW f \in Flows, AcknowledgeForOther(f) PROVE UpgradeJob'
  <2>1. CASE f = u
    <3>1. pc'[u] = "idle" /\ u \in crossed'
      BY <1>2, <1>13, <2>1, MovesFacts, CrossedGrows DEF Moves
    <3> QED BY <1>5, <3>1
  <2> QED BY <1>7, <1>13, <2>1, MovesFacts
<1> QED BY <1>8, <1>9, <1>10, <1>11, <1>12, <1>13, StepKinds

-----------------------------------------------------------------------------
(***************************************************************************)
(* ShowsWhatIsKept.  The view and the states on their way stay below the   *)
(* registry of the node, but for the names that the page itself has sent.  *)
(***************************************************************************)
EditVersions == {Version(job[e].got) : e \in Edits}

Shown ==
  /\ ViewBelow(view[Me], registry[Me], EditVersions)
  /\ \A i \in DOMAIN inbox : Below(inbox[i][Me], registry[Me])

LEMMA ViewStaysBelow ==
  ASSUME NEW v \in ShownRecords, NEW r \in Records \cup {NotAdmitted},
         NEW s \in Records \cup {NotAdmitted}, NEW V, NEW W, V \subseteq W \cup {0},
         ViewBelow(v, r, V), Below(r, s)
  PROVE  ViewBelow(v, s, W)
<1>1. v.nicknameVersion \in Nat /\ v.admittedTs \in Nat
  BY DEF ShownRecords
<1>2. /\ r.core.ts \in Nat /\ r.nickname.version \in Nat
      /\ s.core.ts \in Nat /\ s.nickname.version \in Nat
  BY RecordTypes
<1> QED BY <1>1, <1>2 DEF ViewBelow, Below

\* An edit's delta is what it was, or now the one that it asked for.
LEMMA EditsGot ==
  ASSUME PageTypes, LineInv, EditJobs, [PageNext]_pageVars, ~misled', NEW e \in Edits
  PROVE  IF Signs(e) THEN /\ job[e].got = NoDelta /\ job[e].want \in OwnNames
                          /\ job'[e].got = job[e].want
                     ELSE job'[e].got = job[e].got
<1>1. e \in Flows /\ job[e] \in JobRecords /\ e # "upgrade" /\ e \notin Others
  BY OtherFlows, FlowNames DEF PageTypes, JobsOK
<1>2. ASSUME NEW f \in Flows, NEW step, Moves(f, step), f # e PROVE job'[e].got = job[e].got
  BY <1>1, <1>2 DEF Moves
<1>3. ASSUME Quiet PROVE job'[e].got = job[e].got
  BY <1>3 DEF Quiet
<1>4. ASSUME NEW f \in Edits, SetNickname(f) PROVE job'[e].got = job[e].got
  <2>1. CASE f = e
    <3>1. PICK d : job'[e] = [job[e] EXCEPT !.want = d,
                                            !.after = {g \in Edits : job[g].got # NoDelta}]
      BY <1>4, <2>1, RenameMoves
    <3> QED BY <1>1, <3>1 DEF JobRecords
  <2> QED BY <1>2, <1>4, <2>1, RenameMoves, FlowNames
<1>5. ASSUME Signs(e)
      PROVE  /\ job'[e].got = job[e].want
             /\ job[e].got = NoDelta /\ job[e].want \in OwnNames
  <2>1. job'[e] = [job[e] EXCEPT !.got = job[e].want]
    BY <1>1, <1>5, MovesFacts
  <2>2. job'[e].got = job[e].want
    BY <1>1, <2>1 DEF JobRecords
  <2> QED BY <1>5, <2>2 DEF Signs, EditJobs, EditJob
<1>6. ASSUME NEW f \in Flows, Returns(f) \/ GiveUp(f) PROVE job'[e].got = job[e].got
  <2>1. CASE f = e
    <3>1. job'[e] = Ended(e, TRUE) \/ job'[e] = Ended(e, FALSE)
      BY <1>6, <2>1, MovesFacts
    <3> QED BY <1>1, <3>1, EndedFacts
  <2> QED BY <1>2, <1>6, <2>1, MovesFacts
<1>7. ASSUME NEW f \in Flows, Signs(f), f # e PROVE job'[e].got = job[e].got
  BY <1>2, <1>7, MovesFacts
<1> QED BY <1>3, <1>4, <1>5, <1>6, <1>7, StepKinds, MovesFacts

LEMMA EditVersionsGrow ==
  ASSUME PageTypes, LineInv, EditJobs, [PageNext]_pageVars, ~misled'
  PROVE  EditVersions \subseteq EditVersions' \cup {0}
<1> SUFFICES ASSUME NEW e \in Edits PROVE Version(job[e].got) \in EditVersions' \cup {0}
  BY DEF EditVersions
<1>1. CASE job'[e].got = job[e].got
  BY <1>1 DEF EditVersions
<1>2. CASE job[e].got = NoDelta
  BY <1>2, OwnNameFacts
<1> QED BY <1>1, <1>2, EditsGot

LEMMA ShownKept ==
  ASSUME PageTypes, PageTypes', LineInv, EditJobs, SentJobs, Shown,
         [PageNext]_pageVars, ~misled', crossed' \subseteq Edits
  PROVE  /\ Shown'
         /\ ~setBack' => ~setBack /\ ViewGrows(view[Me], view'[Me])
<1> DEFINE r == registry[Me]
           s == registry'[Me]
           v == view[Me]
           V == EditVersions
           W == EditVersions'
<1>1. /\ view \in Views /\ v \in ShownRecords /\ v.nicknameVersion \in Nat
      /\ r \in Records \cup {NotAdmitted} /\ s \in Records \cup {NotAdmitted}
      /\ registry \in Registries /\ registry' \in Registries
      /\ inbox \in Seq(Registries) /\ sent \subseteq Deltas
      /\ \A i \in DOMAIN inbox : inbox[i][Me] \in Records \cup {NotAdmitted}
  <2>1. /\ view \in Views /\ registry \in Registries /\ registry' \in Registries
        /\ inbox \in Seq(Registries) /\ sent \subseteq Deltas
    BY DEF PageTypes, DataOK, JobsOK
  <2>2. \A i \in DOMAIN inbox : inbox[i] \in Registries
    BY <2>1
  <2> QED BY <2>1, <2>2, MyRecord DEF Views, ShownRecords
<1>2. Below(r, s) /\ Below(r, r) /\ Below(s, s)
  BY <1>1, RegistryGrows, MyRecord
<1>3. V \subseteq W \cup {0}
  BY EditVersionsGrow
<1>4. ViewBelow(v, r, V) /\ \A i \in DOMAIN inbox : Below(inbox[i][Me], r)
  BY DEF Shown
<1> HIDE DEF r, s, v, V, W
<1>5. ViewBelow(v, r, W) /\ ViewBelow(v, s, W)
  BY <1>1, <1>2, <1>3, <1>4, ViewStaysBelow
<1>6. \A i \in DOMAIN inbox : Below(inbox[i][Me], s)
  BY <1>1, <1>2, <1>4, BelowTransitive
<1>7. ViewGrows(v, v)
  BY <1>1 DEF ViewGrows
<1>8. ASSUME UNCHANGED inbox, ViewBelow(view'[Me], s, W) PROVE Shown'
  BY <1>6, <1>8 DEF Shown, s, W
<1>9. ASSUME UNCHANGED <<view, inbox, setBack>>
      PROVE  Shown' /\ (~setBack' => ~setBack /\ ViewGrows(view[Me], view'[Me]))
  BY <1>5, <1>7, <1>8, <1>9 DEF v
<1>10. ASSUME NEW d \in Deltas, view' = ApplyRegistryDelta(view, d), UNCHANGED <<inbox, setBack>>,
              Below(d.admissions[Me], s),
              (Admitted(s) => Version(d) <= s.nickname.version) \/ Version(d) \in W
       PROVE  Shown' /\ (~setBack' => ~setBack /\ ViewGrows(view[Me], view'[Me]))
  <2>1. view'[Me] = ApplyRegistryDelta(view, d)[Me]
    BY <1>10
  <2>2. ViewGrows(view[Me], view'[Me]) /\ ViewBelow(view'[Me], s, W)
    BY <1>1, <1>5, <1>10, <2>1, DeltaShown DEF Version, v
  <2> QED BY <1>8, <1>10, <2>2
<1>11. CASE Quiet /\ Heard
  <2>1. CASE Connect
    <3>1. /\ view' = DecodeRegistryState(registry) /\ UNCHANGED <<registry, inbox, setBack>>
          /\ pc["start"] = "idle"
      BY <2>1 DEF Connect
    <3>2. view'[Me] = Decoded(r) /\ s = r
      BY <3>1 DEF DecodeRegistryState, r, s
    <3>3. ViewBelow(view'[Me], s, W)
      BY <1>1, <1>2, <3>2, StateShown
    <3>4. v = Unknown
      BY <3>1 DEF PageTypes, Unconnected, v
    <3>5. ViewGrows(v, view'[Me])
      <4>1. Decoded(r).nicknameVersion \in Nat
        BY <1>1, RecordTypes DEF Decoded
      <4> QED BY <3>2, <3>4, <4>1 DEF ViewGrows, Known, Unknown
    <3> QED BY <1>8, <3>1, <3>3, <3>5 DEF v
  <2>2. CASE Refresh
    <3>1. view' = MergeIntoView(view, registry) /\ UNCHANGED <<registry, inbox, setBack>>
      BY <2>2 DEF Refresh, Merged
    <3>2. view'[Me] = MergeIntoView(view, registry)[Me] /\ s = r
      BY <3>1 DEF r, s
    <3>3. Below(registry[Me], s)
      BY <1>2, <3>2 DEF r
    <3>4. ViewGrows(view[Me], view'[Me]) /\ ViewBelow(view'[Me], s, W)
      BY <1>1, <1>5, <3>2, <3>3, MergeShown DEF v
    <3> QED BY <1>8, <3>1, <3>4
  <2>3. ASSUME NEW d \in sent, ToldOf(d)
        PROVE  Shown' /\ (~setBack' => ~setBack /\ ViewGrows(view[Me], view'[Me]))
    <3>1. /\ view' = ApplyRegistryDelta(view, d) /\ UNCHANGED <<registry, inbox, setBack>>
          /\ ApplyDelta(registry, d) = registry
      BY <2>3 DEF ToldOf, Merged
    <3>2. Dominates(s, d.admissions[Me], d.nicknames[Me])
      BY <1>1, <3>1, RecordGrows DEF s
    <3> QED BY <1>1, <1>10, <3>1, <3>2 DEF Dominates, Version
  <2>4. CASE Push
    <3>1. inbox' = Append(inbox, registry) /\ UNCHANGED <<registry, view, setBack>>
      BY <2>4 DEF Push
    <3>2. \A i \in DOMAIN inbox' : (i \in DOMAIN inbox /\ inbox'[i] = inbox[i]) \/ inbox'[i] = registry
      BY <1>1, <3>1
    <3>3. \A i \in DOMAIN inbox' : Below(inbox'[i][Me], s)
      BY <1>2, <1>6, <3>2 DEF r
    <3> QED BY <1>5, <1>7, <3>1, <3>3 DEF Shown, s, v, W
  <2>5. CASE ReceiveState
    <3>1. /\ inbox # <<>> /\ inbox' = Tail(inbox) /\ UNCHANGED registry
          /\ view' = DecodeRegistryState(Head(inbox))
      BY <2>5 DEF ReceiveState
    <3>2. 1 \in DOMAIN inbox /\ Head(inbox) = inbox[1]
      BY <1>1, <3>1
    <3>3. view'[Me] = Decoded(inbox[1][Me])
      BY <3>1, <3>2 DEF DecodeRegistryState
    <3>4. ViewBelow(view'[Me], s, W)
      BY <1>1, <1>6, <3>2, <3>3, StateShown
    <3>5. \A i \in DOMAIN inbox' : \E j \in DOMAIN inbox : inbox'[i] = inbox[j]
      <4> SUFFICES ASSUME NEW i \in DOMAIN inbox' PROVE \E j \in DOMAIN inbox : inbox'[i] = inbox[j]
        OBVIOUS
      <4>1. i + 1 \in DOMAIN inbox /\ inbox'[i] = inbox[i + 1]
        BY <1>1, <3>1
      <4> QED BY <4>1
    <3>6. \A i \in DOMAIN inbox' : Below(inbox'[i][Me], s)
      BY <1>6, <3>5
    <3>7. ~setBack' => ~setBack /\ ViewGrows(v, view'[Me])
      <4>1. /\ setBack' = (\/ setBack
                           \/ Unlocked(view) /\ ~Unlocked(view')
                           \/ view'[Me].nicknameVersion < view[Me].nicknameVersion)
        BY <2>5 DEF ReceiveState
      <4>2. view'[Me].nicknameVersion \in Nat
        BY <1>1, <3>2, <3>3, RecordTypes DEF Decoded
      <4> QED BY <1>1, <4>1, <4>2 DEF ViewGrows, Unlocked, v
    <3> QED BY <3>4, <3>6, <3>7 DEF Shown, s, v, W
  <2>6. CASE Elsewhere \/ \E d \in sent : Apply(d)
    BY <1>9, <2>6 DEF Elsewhere, Apply
  <2> QED BY <1>11, <2>1, <2>2, <2>3, <2>4, <2>5, <2>6 DEF Heard
<1>12. ASSUME NEW e \in Edits, SetNickname(e) PROVE UNCHANGED <<view, inbox, setBack>>
  BY <1>12 DEF SetNickname
<1>13. ASSUME NEW f \in Flows, Signs(f)
       PROVE  Shown' /\ (~setBack' => ~setBack /\ ViewGrows(view[Me], view'[Me]))
  <2>1. CASE f \notin Edits
    BY <1>9, <1>13, <2>1 DEF Signs, Signed
  <2>2. CASE f \in Edits
    <3> DEFINE d == job[f].want
    <3>1. view' = ApplyRegistryDelta(view, d) /\ UNCHANGED <<inbox, setBack>>
      BY <1>13, <2>2 DEF Signs, Signed
    <3>2. d \in OwnNames /\ job'[f].got = d
      BY <1>13, <2>2, EditsGot, OwnNameFacts
    <3>3. Version(d) \in W
      BY <2>2, <3>2 DEF EditVersions, W
    <3>4. d \in Deltas /\ d.admissions[Me] = NotAdmitted
      BY <3>2, OwnNameFacts
    <3>5. Below(d.admissions[Me], s)
      BY <1>1, <3>4, RecordTypes DEF Below, NotAdmitted, NoNickname, NoCore, Admitted
    <3> HIDE DEF d
    <3> QED BY <1>10, <3>1, <3>3, <3>4, <3>5
  <2> QED BY <2>1, <2>2
<1>14. ASSUME NEW f \in Flows, Acknowledge(f)
       PROVE  Shown' /\ (~setBack' => ~setBack /\ ViewGrows(view[Me], view'[Me]))
  <2>1. CASE f \in Edits
    BY <1>9, <1>14, <2>1 DEF Acknowledge, Returns
  <2>2. CASE f \notin Edits
    <3> DEFINE d == job[f].got
    <3>1. /\ view' = ApplyRegistryDelta(view, d) /\ UNCHANGED <<inbox, setBack>>
          /\ registry' = ApplyDelta(registry, d)
      BY <1>14, <2>2 DEF Acknowledge, Returns
    <3>2. d \in Deltas
      BY DEF PageTypes, JobsOK, JobRecords
    <3>3. Dominates(s, d.admissions[Me], d.nicknames[Me])
      BY <1>1, <3>1, <3>2, RecordGrows DEF s
    <3> HIDE DEF d
    <3> QED BY <1>10, <3>1, <3>2, <3>3 DEF Dominates, Version
  <2> QED BY <2>1, <2>2
<1>15. ASSUME NEW f \in Flows, GiveUp(f) PROVE UNCHANGED <<view, inbox, setBack>>
  BY <1>15 DEF GiveUp
<1>16. ASSUME NEW f \in Flows, AcknowledgeForOther(f) PROVE UNCHANGED <<view, inbox, setBack>>
  <2>1. f \in Edits
    BY <1>16, CrossedGrows
  <2> QED BY <1>16, <2>1 DEF AcknowledgeForOther, Returns
<1> QED BY <1>9, <1>11, <1>12, <1>13, <1>14, <1>15, <1>16, StepKinds

-----------------------------------------------------------------------------
(***************************************************************************)
(* LastEditWins.  What an edit came after has an older version, and what   *)
(* is acknowledged is not newer than the registry's nickname.              *)
(***************************************************************************)
EditAfter(f) ==
  /\ pc[f] # "idle" => Unlocked(view)
  /\ Version(job[f].got) <= view[Me].nicknameVersion
  /\ \A e \in job[f].after :
       /\ job[e].got # NoDelta
       /\ pc[f] \in {"signing", "sending"} => Version(job[e].got) < Version(job[f].want)
       /\ job[f].got # NoDelta => Version(job[e].got) < Version(job[f].got)
  /\ job[f].acked => f \in crossed \/ Version(job[f].got) <= registry[Me].nickname.version

EditOrder == \A f \in Edits : EditAfter(f)

LEMMA EditOrderKept ==
  ASSUME PageTypes, PageTypes', LineInv, EditJobs, SentJobs, Shown, setBack \/ EditOrder,
         [PageNext]_pageVars, ~misled', crossed' \subseteq Edits
  PROVE  setBack' \/ EditOrder'
<1> SUFFICES ASSUME ~setBack', NEW f \in Edits PROVE EditAfter(f)'
  BY DEF EditOrder
<1> DEFINE v == view[Me]
           w == view'[Me]
           r == registry[Me].nickname.version
           s == registry'[Me].nickname.version
           old == job[f]
           new == job'[f]
<1>1. /\ ~setBack /\ ViewGrows(v, w) /\ EditOrder
      /\ f \in Flows /\ f # "upgrade" /\ f \notin Others
      /\ r <= s /\ (Admitted(registry[Me]) => Admitted(registry'[Me]))
  BY ShownKept, RegistryGrows, OtherFlows DEF Below
<1>2. /\ old \in JobRecords /\ new \in JobRecords /\ old.after \subseteq Edits
      /\ v.nicknameVersion \in Nat /\ w.nicknameVersion \in Nat /\ r \in Nat /\ s \in Nat
      /\ \A e \in Edits : job[e] \in JobRecords /\ job[e].got \in Deltas
      /\ view \in Views /\ registry \in Registries
  <2>1. \A e \in Edits : job[e] \in JobRecords /\ job'[e] \in JobRecords
    BY OtherFlows DEF PageTypes, JobsOK
  <2>2. view \in Views /\ registry \in Registries /\ view' \in Views /\ registry' \in Registries
    BY DEF PageTypes, DataOK
  <2>3. v.nicknameVersion \in Nat /\ w.nicknameVersion \in Nat
    BY <2>2 DEF Views, ShownRecords
  <2> QED BY <2>1, <2>2, <2>3, MyRecord, RecordTypes DEF JobRecords
<1>3. /\ pc[f] # "idle" => Known(v)
      /\ Version(old.got) <= v.nicknameVersion
      /\ \A e \in old.after :
           /\ job[e].got # NoDelta
           /\ pc[f] \in {"signing", "sending"} => Version(job[e].got) < Version(old.want)
           /\ old.got # NoDelta => Version(job[e].got) < Version(old.got)
      /\ old.acked => f \in crossed \/ Version(old.got) <= r
  BY <1>1 DEF EditOrder, EditAfter, Unlocked
<1>4. \A e \in Edits : Version(job[e].got) \in Nat /\ Version(job[e].got) <= v.nicknameVersion
  BY <1>1, <1>2, OwnNameFacts DEF EditOrder, EditAfter
<1>5. ASSUME NEW e \in Edits, job[e].got # NoDelta PROVE job'[e].got = job[e].got
  BY <1>5, EditsGot
<1>6. ASSUME /\ pc'[f] # "idle" => Known(v)
             /\ Version(new.got) <= w.nicknameVersion
             /\ \A e \in new.after :
                  /\ e \in Edits /\ job[e].got # NoDelta
                  /\ pc'[f] \in {"signing", "sending"} => Version(job[e].got) < Version(new.want)
                  /\ new.got # NoDelta => Version(job[e].got) < Version(new.got)
             /\ new.acked => f \in crossed' \/ Version(new.got) <= s
      PROVE  EditAfter(f)'
  <2>1. pc'[f] # "idle" => Known(w)
    BY <1>1, <1>6 DEF ViewGrows
  <2>2. \A e \in new.after : job'[e].got = job[e].got
    BY <1>5, <1>6
  <2> HIDE DEF w, s
  <2>3. \A e \in new.after :
          /\ job'[e].got # NoDelta
          /\ pc'[f] \in {"signing", "sending"} => Version(job'[e].got) < Version(new.want)
          /\ new.got # NoDelta => Version(job'[e].got) < Version(new.got)
    BY <1>6, <2>2
  <2> QED BY <1>6, <2>1, <2>3 DEF EditAfter, Unlocked, w, s
<1> HIDE DEF v, w, r, s, old, new
<1>7. /\ Version(old.got) <= w.nicknameVersion
      /\ old.acked => f \in crossed' \/ Version(old.got) <= s
  <2>1. Version(old.got) \in Nat
    BY <1>4 DEF old
  <2> QED BY <1>1, <1>2, <1>3, <2>1, CrossedGrows DEF ViewGrows
<1>8. ASSUME pc'[f] = pc[f], new = old PROVE EditAfter(f)'
  BY <1>2, <1>3, <1>6, <1>7, <1>8
<1>9. ASSUME NEW g \in Flows \ {f}, NEW step, Moves(g, step) PROVE EditAfter(f)'
  BY <1>1, <1>8, <1>9 DEF Moves, old, new
<1>10. CASE Quiet
  BY <1>8, <1>10 DEF Quiet, old, new
<1>11. ASSUME NEW e \in Edits, SetNickname(e) PROVE EditAfter(f)'
  <2>1. CASE e = f
    <3>1. /\ pc[f] = "idle" /\ pc'[f] = "signing" /\ Known(v)
          /\ \E d \in Renamings(v.nicknameVersion + 1) :
               new = [old EXCEPT !.want = d, !.after = {g \in Edits : job[g].got # NoDelta}]
      BY <1>11, <2>1, RenameMoves DEF Moves, Unlocked, v, old, new
    <3>2. PICK d \in Renamings(v.nicknameVersion + 1) :
            new = [old EXCEPT !.want = d, !.after = {g \in Edits : job[g].got # NoDelta}]
      BY <3>1
    <3>3. /\ new.want = d /\ new.after = {g \in Edits : job[g].got # NoDelta}
          /\ new.got = old.got /\ new.acked = old.acked
      BY <1>2, <3>2 DEF JobRecords
    <3>4. old.got = NoDelta
      BY <3>1 DEF EditJobs, EditJob, old
    <3>5. Version(d) = v.nicknameVersion + 1
      BY OwnNameFacts
    <3>6. \A e2 \in new.after :
            /\ e2 \in Edits /\ job[e2].got # NoDelta
            /\ Version(job[e2].got) < Version(new.want)
      BY <1>2, <1>4, <3>3, <3>5
    <3> QED BY <1>6, <1>7, <3>1, <3>3, <3>4, <3>6
  <2> QED BY <1>9, <1>11, <2>1, RenameMoves, OtherFlows
<1>12. ASSUME NEW g \in Flows, Signs(g) PROVE EditAfter(f)'
  <2>1. CASE g = f
    <3>1. pc[f] = "signing" /\ pc'[f] = "sending" /\ new = [old EXCEPT !.got = old.want]
      BY <1>12, <2>1, MovesFacts DEF Signs, Moves, old, new
    <3>2. /\ new.want = old.want /\ new.got = old.want /\ new.after = old.after
          /\ new.acked = old.acked
      BY <1>2, <3>1 DEF JobRecords
    <3>3. old.want \in OwnNames /\ ~old.acked
      BY <3>1, OwnNameFacts DEF EditJobs, EditJob, old
    <3>4. Version(new.got) <= w.nicknameVersion
      <4>1. view' = ApplyRegistryDelta(view, old.want)
        BY <1>12, <2>1 DEF Signs, Signed, old
      <4>2. old.want \in Deltas /\ Known(v)
        BY <1>3, <3>1, <3>3, OwnNameFacts
      <4>4. Known(view[Me]) => old.want.nicknames[Me].version
                                 <= ApplyRegistryDelta(view, old.want)[Me].nicknameVersion
        BY <1>2, <4>2, DeltaShown, MyRecord
      <4> QED BY <3>2, <4>1, <4>2, <4>4 DEF Version, v, w
    <3> QED BY <1>2, <1>3, <1>6, <3>1, <3>2, <3>3, <3>4
  <2> QED BY <1>9, <1>12, <2>1, MovesFacts
<1>13. ASSUME NEW g \in Flows, Acknowledge(g) \/ AcknowledgeForOther(g) \/ GiveUp(g)
       PROVE  EditAfter(f)'
  <2>1. CASE g = f
    <3>1. pc[f] = "sending"
      BY <1>13, <2>1, MovesFacts DEF Returns, GiveUp
    <3>2. pc'[f] \in {"done", "failed"}
      BY <1>1, <1>13, <2>1, MovesFacts DEF Moves
    <3>3. /\ new = Ended(f, TRUE) \/ new = Ended(f, FALSE)
          /\ GiveUp(f) => new = Ended(f, FALSE)
      BY <1>1, <1>13, <2>1, MovesFacts DEF new
    <3>4. new.got = old.got /\ new.after = old.after /\ (GiveUp(f) => ~new.acked)
      BY <1>1, <3>3, EndedFacts DEF old
    <3>5. ASSUME AcknowledgeForOther(f) PROVE f \in crossed'
      BY <1>1, <3>5, CrossedGrows
    <3>6. ASSUME Acknowledge(f) PROVE Version(old.got) <= s
      <4>1. registry' = ApplyDelta(registry, old.got) /\ old.got \in Deltas
        BY <1>2, <3>6 DEF Acknowledge, old
      <4>2. Admitted(registry'[Me])
        BY <1>1, <1>3, <3>1 DEF Shown, ViewBelow, v
      <4>3. Dominates(registry'[Me], old.got.admissions[Me], old.got.nicknames[Me])
        BY <1>2, <4>1, RecordGrows
      <4> QED BY <4>2, <4>3 DEF Dominates, Version, s
    <3> QED BY <1>2, <1>3, <1>6, <1>7, <1>13, <2>1, <3>1, <3>2, <3>4, <3>5, <3>6
  <2> QED BY <1>9, <1>13, <2>1, MovesFacts
<1> QED BY <1>10, <1>11, <1>12, <1>13, StepKinds

-----------------------------------------------------------------------------
(***************************************************************************)
(* All of it, until a waiter goes without its answer; and, for what the    *)
(* page shows, until an admission is acknowledged by another's response.   *)
(***************************************************************************)
PageInv ==
  /\ PageTypes /\ LineInv
  /\ misled \/ (EditJobs /\ SentJobs /\ UpgradeJob)
  /\ misled \/ ~(crossed \subseteq Edits) \/ (Shown /\ (setBack \/ EditOrder))

LEMMA PageInvariant == PageSpec => []PageInv
<1>1. PageInit /\ PageTypes => PageInv
  <2> SUFFICES ASSUME PageInit, PageTypes PROVE PageInv
    OBVIOUS
  <2>1. /\ "upgrade" \in Flows /\ Edits \subseteq Flows /\ Me \in Authors
        /\ view[Me] = Unknown /\ registry[Me] = NotAdmitted /\ inbox = <<>>
        /\ \A f \in Flows : pc[f] = "idle" /\ job[f] = NoJob
    BY OtherFlows DEF PageInit, EmptyRegistry
  <2>2. NoJob.got = NoDelta /\ NoJob.after = {} /\ ~NoJob.acked
    BY DEF NoJob
  <2>3. EditJobs
    BY <2>1, <2>2 DEF EditJobs, EditJob
  <2>4. SentJobs
    BY <2>1 DEF SentJobs, NotAdmitted, Admitted
  <2>5. UpgradeJob
    BY <2>1, <2>2 DEF UpgradeJob
  <2>6. Shown
    BY <2>1 DEF Shown, ViewBelow, Known
  <2>7. EditOrder
    <3>1. Version(NoDelta) <= Unknown.nicknameVersion
      BY OwnNameFacts DEF Unknown
    <3> QED BY <2>1, <2>2, <3>1 DEF EditOrder, EditAfter
  <2> QED BY LineStart, <2>3, <2>4, <2>5, <2>6, <2>7 DEF PageInv
<1>2. PageInv /\ PageTypes' /\ LineInv' /\ [PageNext]_pageVars => PageInv'
  <2> SUFFICES ASSUME PageInv, PageTypes', LineInv', [PageNext]_pageVars PROVE PageInv'
    OBVIOUS
  <2>1. CASE misled'
    BY <2>1 DEF PageInv
  <2>2. CASE ~misled'
    <3>1. /\ PageTypes /\ LineInv /\ EditJobs /\ SentJobs /\ UpgradeJob
          /\ crossed \subseteq Edits => Shown /\ (setBack \/ EditOrder)
      BY <2>2, StepKinds DEF PageInv
    <3>2. EditJobs' /\ SentJobs' /\ UpgradeJob'
      BY <2>2, <3>1, EditJobsKept, SentJobsKept, UpgradeJobKept
    <3>3. ASSUME crossed' \subseteq Edits PROVE Shown' /\ (setBack' \/ EditOrder')
      <4>1. crossed \subseteq Edits
        BY <2>2, <3>1, <3>3, CrossedGrows
      <4> QED BY <2>2, <3>1, <3>3, <4>1, ShownKept, EditOrderKept
    <3> QED BY <3>2, <3>3 DEF PageInv
  <2> QED BY <2>1, <2>2
<1> QED BY <1>1, <1>2, LineInvariant, PTL DEF PageSpec

\* What a page shows of its user, the node has or the page has sent, unless another's
\* response acknowledged an admission.
THEOREM ShownIsKept == PageSpec => []ShowsWhatIsKept
<1>1. PageInv => ShowsWhatIsKept
  BY DEF PageInv, Shown, ViewBelow, EditVersions, Version, ShowsWhatIsKept, Unlocked
<1> QED BY <1>1, PageInvariant, PTL

\* An upgrade that is acknowledged, by the response to it, wins, now and against all that
\* is sent later, but for an admission by work from before the one that it replaced.
THEOREM UpgradesWin == PageSpec => []UpgradeWins
<1>1. ASSUME PageInv PROVE UpgradeWins
  <2> DEFINE up == job["upgrade"]
  <2> SUFFICES ASSUME up.acked, ~misled, "upgrade" \notin crossed, up.seen # 0,
                      registry[Me].core.tier # "ghostkey"
               PROVE  \E d \in sent : LET c == d.admissions[Me].core
                                      IN  c.tier = "pow" /\ c.ts < up.seen
    BY DEF UpgradeWins
  <2>1. SentJobs /\ UpgradeJob /\ registry \in Registries
    BY <1>1 DEF PageInv, PageTypes, DataOK
  <2>2. Admitted(registry[Me]) /\ registry[Me].core.ts < up.seen
    BY <2>1 DEF UpgradeJob
  <2>3. registry[Me].core.tier = "pow"
    BY <2>1, <2>2, MyRecord, RecordTypes, CoreAssumption
  <2>4. PICK d \in sent : d.admissions[Me].core = registry[Me].core
    BY <2>1, <2>2 DEF SentJobs
  <2> QED BY <2>2, <2>3, <2>4
<1> QED BY <1>1, PageInvariant, PTL

\* The nickname of an edit does not come back after a later edit was acknowledged, by the
\* response to it.
THEOREM LastEditsWin == PageSpec => []LastEditWins
<1>1. ASSUME PageInv PROVE LastEditWins
  <2> SUFFICES ASSUME NEW e \in Edits, NEW f \in Edits, e \in job[f].after, job[f].acked,
                      ~misled, ~setBack, crossed \subseteq Edits \ {f}
               PROVE  registry[Me].nickname # job[e].got.nicknames[Me]
    BY DEF LastEditWins
  <2>1. EditJobs /\ EditOrder /\ JobsOK /\ registry \in Registries
    BY <1>1 DEF PageInv, PageTypes, DataOK
  <2>2. job[f].got # NoDelta /\ job[f].got \in Deltas /\ job[e].got \in Deltas
    BY <2>1, OwnNameFacts, OtherFlows DEF EditJobs, EditJob, JobsOK, JobRecords
  <2>3. /\ Version(job[e].got) < Version(job[f].got)
        /\ Version(job[f].got) <= registry[Me].nickname.version
    BY <2>1, <2>2 DEF EditOrder, EditAfter
  <2>4. /\ Version(job[e].got) \in Nat /\ Version(job[f].got) \in Nat
        /\ registry[Me].nickname.version \in Nat
    BY <2>1, <2>2, OwnNameFacts, MyRecord, RecordTypes
  <2> QED BY <2>3, <2>4 DEF Version
<1> QED BY <1>1, PageInvariant, PTL
-----------------------------------------------------------------------------
(***************************************************************************)
(* What a page shows of anybody, whatever happens to its waiters.          *)
(***************************************************************************)

\* w shows an author no later admitted and no older named than v does, and what has not
\* changed its date or version is the same.
ShownGoesOn(v, w) ==
  Known(v) =>
    /\ Known(w)
    /\ w.admittedTs < v.admittedTs \/ (w.admittedTs = v.admittedTs /\ w.tier = v.tier)
    /\ \/ w.nicknameVersion > v.nicknameVersion
       \/ w.nicknameVersion = v.nicknameVersion /\ w.nickname = v.nickname

LEMMA NameGoesOn ==
  ASSUME NEW v \in ShownRecords, NEW name \in Nat, NEW version \in Nat
  PROVE  ShownGoesOn(v, ApplyNicknameJs(v, name, version))
<1> DEFINE u == [v EXCEPT !.nickname = name, !.nicknameVersion = version]
<1>1. v.nicknameVersion \in Nat /\ v.admittedTs \in Nat
  BY DEF ShownRecords
<1>2. CASE Known(v) /\ version > v.nicknameVersion
  <2>1. /\ u.nicknameVersion = version /\ u.admittedTs = v.admittedTs /\ u.tier = v.tier
        /\ ApplyNicknameJs(v, name, version) = u
    BY <1>2 DEF ApplyNicknameJs, ShownRecords
  <2>2. Known(u)
    <3>1. u.nicknameVersion # 0
      BY <1>1, <1>2, <2>1
    <3> QED BY <3>1 DEF Known, Unknown
  <2> QED BY <1>2, <2>1, <2>2 DEF ShownGoesOn
<1>3. CASE ~(Known(v) /\ version > v.nicknameVersion)
  <2>1. ApplyNicknameJs(v, name, version) = v
    BY <1>3 DEF ApplyNicknameJs
  <2> QED BY <2>1 DEF ShownGoesOn
<1> QED BY <1>2, <1>3

LEMMA GoesOnAgain ==
  ASSUME NEW u \in ShownRecords, NEW v \in ShownRecords, NEW w \in ShownRecords,
         ShownGoesOn(u, v), ShownGoesOn(v, w)
  PROVE  ShownGoesOn(u, w)
<1>1. /\ {u.admittedTs, v.admittedTs, w.admittedTs} \subseteq Nat
      /\ {u.nicknameVersion, v.nicknameVersion, w.nicknameVersion} \subseteq Nat
  BY DEF ShownRecords
<1> QED BY <1>1 DEF ShownGoesOn

\* An admission in a record is merged into the view of its author.
LEMMA AdmissionGoesOn ==
  ASSUME NEW v \in ShownRecords, NEW r \in Records
  PROVE  ShownGoesOn(v, InsertAdmission(v, Decoded(r)))
<1> DEFINE w == Decoded(r)
           x == [v EXCEPT !.tier = w.tier, !.admittedTs = w.admittedTs]
           y == IF w.admittedTs < v.admittedTs THEN x ELSE v
<1>1. /\ w \in ShownRecords /\ w.tier # "none"
      /\ w.nickname \in Nat /\ w.nicknameVersion \in Nat /\ w.admittedTs \in Nat
      /\ v.admittedTs \in Nat /\ v.nicknameVersion \in Nat
  <2>1. w \in ShownRecords
    BY DecodedShows
  <2>2. r.core \in Cores /\ w.tier = r.core.tier
    BY DEF Records, Decoded
  <2> QED BY <2>1, <2>2, CoreAssumption DEF ShownRecords
<1>2. x \in ShownRecords /\ x.tier = w.tier /\ x.admittedTs = w.admittedTs
      /\ x.nickname = v.nickname /\ x.nicknameVersion = v.nicknameVersion
  BY <1>1 DEF ShownRecords
<1>3. InsertAdmission(v, w)
        = IF ~Known(v) THEN w ELSE ApplyNicknameJs(y, w.nickname, w.nicknameVersion)
  BY DEF InsertAdmission
<1> HIDE DEF w, x
<1>4. y \in ShownRecords /\ ShownGoesOn(v, y)
  BY <1>1, <1>2 DEF ShownGoesOn, Known, Unknown
<1> HIDE DEF y
<1>5. /\ ShownGoesOn(y, ApplyNicknameJs(y, w.nickname, w.nicknameVersion))
      /\ ApplyNicknameJs(y, w.nickname, w.nicknameVersion) \in ShownRecords
  <2>1. ApplyNicknameJs(y, w.nickname, w.nicknameVersion) \in ShownRecords
    BY <1>1, <1>4 DEF ApplyNicknameJs, ShownRecords
  <2> QED BY <1>1, <1>4, <2>1, NameGoesOn
<1>6. ShownGoesOn(v, ApplyNicknameJs(y, w.nickname, w.nicknameVersion))
  BY <1>4, <1>5, GoesOnAgain
<1>7. ~Known(v) => ShownGoesOn(v, InsertAdmission(v, w))
  BY DEF ShownGoesOn
<1> QED BY <1>3, <1>6, <1>7 DEF w

LEMMA ViewGoesOn ==
  ASSUME NEW v \in Views, NEW reg \in Registries, NEW d \in Deltas, NEW a \in Authors
  PROVE  /\ ShownGoesOn(v[a], MergeIntoView(v, reg)[a])
         /\ ShownGoesOn(v[a], ApplyRegistryDelta(v, d)[a])
<1>1. v[a] \in ShownRecords
  BY DEF Views
<1>2. ASSUME NEW s \in Registries
      PROVE  /\ ShownGoesOn(v[a], MergeIntoView(v, s)[a])
             /\ MergeIntoView(v, s)[a] \in ShownRecords
  <2>1. s[a] \in Records \cup {NotAdmitted} /\ MergeIntoView(v, s) \in Views
    BY ViewTypes DEF Registries
  <2>2. Admitted(s[a]) => s[a] \in Records
    BY <2>1, RecordTypes
  <2>3. ShownGoesOn(v[a], v[a])
    BY DEF ShownGoesOn
  <2> QED BY <1>1, <2>1, <2>2, <2>3, AdmissionGoesOn DEF MergeIntoView, Views
<1> DEFINE w == MergeIntoView(v, d.admissions)[a]
           n == d.nicknames[a]
<1>3. d.admissions \in Registries /\ n.sig \in Nat /\ n.version \in Nat
  <2>1. d.admissions \in Registries /\ n \in Nicknames \cup {NoNickname}
    BY DEF Deltas
  <2> QED BY <2>1, NicknameAssumption DEF NoNickname
<1>4. /\ ApplyRegistryDelta(v, d)[a] = ApplyNicknameJs(w, n.sig, n.version)
      /\ ApplyRegistryDelta(v, d)[a] \in ShownRecords
  BY ViewTypes DEF ApplyRegistryDelta, Views
<1>5. w \in ShownRecords /\ ShownGoesOn(v[a], w)
  BY <1>2, <1>3
<1> HIDE DEF w, n
<1> QED BY <1>1, <1>2, <1>3, <1>4, <1>5, NameGoesOn, GoesOnAgain

\* How a step comes to change the view.
LEMMA ViewSteps ==
  ASSUME PageTypes, [PageNext]_pageVars
  PROVE  \/ ReceiveState \/ UNCHANGED view \/ \A a \in Authors : ~Known(view[a])
         \/ view' = MergeIntoView(view, registry)
         \/ \E d \in Deltas : view' = ApplyRegistryDelta(view, d)
<1>1. CASE Connect
  BY <1>1 DEF Connect, PageTypes, Unconnected, Known
<1>2. CASE \E d \in Delegates : OnDelegateResponse(d)
  <2>1. PICK d \in Delegates : OnDelegateResponse(d)
    BY <1>2
  <2> DEFINE rest == [asked EXCEPT ![d] = Tail(@)]
             n == WaiterFor(d)
             delta == Head(asked[d]).delta
  <2>2. delta \in Deltas /\ Head(asked[d]).step \in Asking
    <3>1. Head(asked[d]) \in Requests
      BY <2>1, AnswerCalls
    <3> QED BY <3>1 DEF Requests
  <2>3. CASE n \in DOMAIN pendingDelegate
             /\ \E reply \in {Head(asked[d]).step, "denied"} :
                  Resume(pendingDelegate[n], reply, delta, RemoveAt(pendingDelegate, n), rest)
    <3>1. PICK reply \in {Head(asked[d]).step, "denied"} :
            Resume(pendingDelegate[n], reply, delta, RemoveAt(pendingDelegate, n), rest)
      BY <2>3
    <3>2. pc[pendingDelegate[n]] \in Asking
      BY <2>3, Called DEF PageTypes
    <3>3. reply \in Asking \cup {"denied"}
      BY <2>2
    <3> DEFINE f == pendingDelegate[n]
               line == RemoveAt(pendingDelegate, n)
    <3> HIDE DEF f, line, rest, n, delta
    <3>4. UNCHANGED view \/ Signed(f, delta)
      <4>1. Resume(f, reply, delta, line, rest) /\ pc[f] \in Asking
        BY <3>1, <3>2 DEF f, line
      <4> QED BY <4>1, <3>3 DEF Resume, Asking
    <3> QED BY <2>2, <3>4 DEF Signed
  <2>4. CASE UNCHANGED view
    BY <2>4
  <2> QED BY <2>1, <2>3, <2>4, AnswerCalls
<1>3. CASE \E f \in Flows : Acknowledge(f) \/ AcknowledgeForOther(f)
  BY <1>3 DEF Acknowledge, AcknowledgeForOther, Returns, PageTypes, JobsOK, JobRecords
<1>4. CASE Refresh \/ \E d \in sent : ToldOf(d)
  BY <1>4 DEF Refresh, ToldOf, Merged, PageTypes, JobsOK
<1>5. CASE ClickGhostkey \/ ClickUpgrade \/ FindNonce \/ \E e \in Edits : SetNickname(e)
  BY <1>5 DEF ClickGhostkey, ClickUpgrade, FindNonce, SetNickname
<1>6. CASE Timeouts \/ OnErr \/ \E f \in Flows : GiveUp(f)
  BY <1>6 DEF Timeouts, TimeoutAsk, OnErr, GiveUp
<1>7. CASE Push \/ Elsewhere \/ UNCHANGED pageVars \/ \E d \in sent : Apply(d)
  BY <1>7 DEF Push, Elsewhere, Apply, pageVars
<1> QED BY <1>1, <1>2, <1>3, <1>4, <1>5, <1>6, <1>7 DEF PageNext, Users, Sendings

\* Nothing but a whole state that replaces the view takes back what a page shows of
\* anybody: no refresh, no delta, no acknowledgement and no signature that was meant for
\* another makes a tier unknown, an admission later or a nickname older.  (onNotification
\* and syncAll assign the registry that they decode; the rest of backend.ts merges.)
OnlyStatesTakeBack ==
  [][ReceiveState \/ \A a \in Authors : ShownGoesOn(view[a], view'[a])]_pageVars

THEOREM ViewsGoOn == PageSpec => OnlyStatesTakeBack
<1>1. ASSUME PageTypes, [PageNext]_pageVars, ~ReceiveState
      PROVE  \A a \in Authors : ShownGoesOn(view[a], view'[a])
  <2>1. view \in Views /\ registry \in Registries
    BY <1>1 DEF PageTypes, DataOK
  <2>2. CASE UNCHANGED view \/ \A a \in Authors : ~Known(view[a])
    BY <2>2 DEF ShownGoesOn
  <2>3. NoDelta \in Deltas
    BY EmptyType
  <2> QED BY <1>1, <2>1, <2>2, <2>3, ViewSteps, ViewGoesOn
<1> QED BY <1>1, PageTypesInvariant, PTL DEF PageSpec, OnlyStatesTakeBack
=============================================================================
