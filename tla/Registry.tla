------------------------------ MODULE Registry ------------------------------
(***************************************************************************)
(* The identity registry CRDT of common/src/registry.rs.  A registry maps  *)
(* every admitted author to a record: the core of its admission, of which  *)
(* the smallest survives, and a nickname, of which the largest survives.   *)
(*                                                                         *)
(* A core is [ts, sig, tier] and a nickname [version, sig]; `sig' is the   *)
(* rank of the signature bytes, distinct for distinct contents.            *)
(***************************************************************************)
EXTENDS Naturals

CONSTANTS Authors, Cores, Nicknames

ASSUME CoreAssumption ==
  \A c \in Cores :
    /\ c.ts \in Nat /\ c.sig \in Nat /\ c.tier \in {"pow", "ghostkey"}
    /\ \A d \in Cores : c.ts = d.ts /\ c.sig = d.sig => c = d

\* Clients sign versions from 1 on: 0 stands for no nickname in a summary.
ASSUME NicknameAssumption ==
  \A n \in Nicknames :
    /\ n.version \in Nat \ {0} /\ n.sig \in Nat
    /\ \A m \in Nicknames : n.version = m.version /\ n.sig = m.sig => n = m

\* Below every nickname in the order of better_nickname.
NoNickname == [version |-> 0, sig |-> 0]

Records == [core : Cores, nickname : Nicknames \cup {NoNickname}]

NoCore == [ts |-> 0, sig |-> 0, tier |-> "none"]

NotAdmitted == [core |-> NoCore, nickname |-> NoNickname]

Admitted(r) == r.core # NoCore

EmptyRegistry == [a \in Authors |-> NotAdmitted]

Registries == [Authors -> Records \cup {NotAdmitted}]

\* A delta has at most one admission and one nickname of each author.
Deltas == [admissions : Registries, nicknames : [Authors -> Nicknames \cup {NoNickname}]]

-----------------------------------------------------------------------------
\* core_key's order: the earlier admission, then the smaller signature.
CoreLess(c, d) == c.ts < d.ts \/ (c.ts = d.ts /\ c.sig < d.sig)

NicknameLess(n, m) ==
  n.version < m.version \/ (n.version = m.version /\ n.sig < m.sig)

\* better_nickname.
BetterNickname(n, m) == IF NicknameLess(n, m) THEN m ELSE n

\* The core of the record that came first stays.
FirstRecord(mine, r) ==
  IF ~Admitted(mine) THEN r
  ELSE [mine EXCEPT !.nickname = BetterNickname(@, r.nickname)]

\* insert_record: the smaller core and the better nickname.
InsertRecord(mine, r) ==
  IF ~Admitted(mine) THEN r
  ELSE [core |-> IF CoreLess(r.core, mine.core) THEN r.core ELSE mine.core,
        nickname |-> BetterNickname(mine.nickname, r.nickname)]

\* Dropped for an author that is not (yet) admitted.
ApplyNickname(mine, n) ==
  IF Admitted(mine)
    THEN [mine EXCEPT !.nickname = BetterNickname(@, n)] ELSE mine

\* RegistryState::merge.  An author has one record, so the order in which the
\* records are inserted is immaterial.
Merge(reg, other) ==
  [a \in Authors |-> IF Admitted(other[a]) THEN InsertRecord(reg[a], other[a])
                     ELSE reg[a]]

NoDelta == [admissions |-> EmptyRegistry, nicknames |-> [a \in Authors |-> NoNickname]]

\* What the delegate signs: an admission of an author, or a new nickname.
AdmissionOf(a, r) ==
  [NoDelta EXCEPT !.admissions = [EmptyRegistry EXCEPT ![a] = r]]

NicknameOf(a, n) ==
  [NoDelta EXCEPT !.nicknames = [b \in Authors |-> IF b = a THEN n ELSE NoNickname]]

\* RegistryState::apply_delta: the admissions first.
ApplyDelta(reg, delta) ==
  [a \in Authors |->
     ApplyNickname(Merge(reg, delta.admissions)[a], delta.nicknames[a])]

\* The nickname version of every author known.
Summarize(reg) ==
  [a \in {b \in Authors : Admitted(reg[b])} |-> reg[a].nickname.version]

\* A delta of the missing records alone.
AdmissionsDelta(reg, summary) ==
  [NoDelta EXCEPT !.admissions = [a \in Authors |->
     IF a \in DOMAIN summary THEN NotAdmitted ELSE reg[a]]]

\* RegistryState::delta: the records the requester lacks entirely and the
\* nicknames of a version newer than its own.
Delta(reg, summary) ==
  [admissions |-> [a \in Authors |->
     IF a \in DOMAIN summary THEN NotAdmitted ELSE reg[a]],
   nicknames |-> [a \in Authors |->
     IF a \in DOMAIN summary /\ Admitted(reg[a])
        /\ reg[a].nickname.version > summary[a]
     THEN reg[a].nickname ELSE NoNickname]]
=============================================================================
