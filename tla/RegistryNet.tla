----------------------------- MODULE RegistryNet -----------------------------
(***************************************************************************)
(* The replicas of the registry contract (contracts/registry-contract) on  *)
(* the network of ContractNet.  Signatures and proofs of admission are     *)
(* valid, as honest clients make them.                                     *)
(***************************************************************************)
EXTENDS Registry

CONSTANTS Peers, MaxClock, MaxMsgs, Skew

VARIABLES state, clock, net, heard

ASSUME BoundAssumption == MaxClock \in Nat /\ MaxMsgs \in Nat /\ Skew \in Nat

\* merge_state checks no clock; apply_delta checks that of the admissions.
VerifyState(reg, now) == TRUE

VerifyDelta(delta, now) ==
  \A a \in Authors :
    Admitted(delta.admissions[a]) => delta.admissions[a].core.ts <= now + Skew

\* What clients send.
ClientDeltas ==
  {AdmissionOf(a, r) : a \in Authors, r \in Records}
  \cup {NicknameOf(a, n) : a \in Authors, n \in Nicknames}

\* History: the cores and nicknames a peer accepted.  A nickname on its own
\* counts where its author is admitted by then.
CoreOf(a, c) == [author |-> a, core |-> c, nickname |-> NoNickname]

NameOf(a, n) == [author |-> a, core |-> NoCore, nickname |-> n]

NamesOf(a, n) == IF n = NoNickname THEN {} ELSE {NameOf(a, n)}

RecordOf(a, r) ==
  IF Admitted(r) THEN {CoreOf(a, r.core)} \cup NamesOf(a, r.nickname) ELSE {}

EntriesOf(reg) == UNION {RecordOf(a, reg[a]) : a \in Authors}

ToldBy(delta, reg) ==
  EntriesOf(delta.admissions)
  \cup UNION {NamesOf(a, delta.nicknames[a]) : a \in {b \in Authors : Admitted(reg[b])}}

INSTANCE ContractNet WITH
  Genesis <- EmptyRegistry,
  MergeOp <- Merge, ApplyOp <- ApplyDelta,
  SummaryOp <- Summarize, DeltaOp <- Delta,
  StateOk <- VerifyState, DeltaOk <- VerifyDelta,
  StateEntries <- EntriesOf, DeltaEntries <- ToldBy

-----------------------------------------------------------------------------
\* A summary is [an author known -> a version]; Delta makes sense of any.
MessageOK(m) ==
  \/ m.kind = "summary" /\ m.from \in Peers /\ m.to \in Peers
  \/ m \in [kind : {"state", "delta", "both"}, from : Peers, to : Peers,
            state : Registries, delta : Deltas]

Entries == [author : Authors, core : Cores \cup {NoCore},
            nickname : Nicknames \cup {NoNickname}]

\* The types: every registry is well formed, so a nickname has an admission.
TypeOK ==
  /\ state \in [Peers -> Registries]
  /\ clock \in [Peers -> 0 .. MaxClock]
  /\ \A m \in net : MessageOK(m)
  /\ heard \in [Peers -> SUBSET Entries]

\* Record r is the join of what the entries H tell of author a.
HoldsEarliest(r, a, H) ==
  LET told == {e \in H : e.author = a /\ e.core # NoCore}
  IN IF told = {} THEN r = NotAdmitted
     ELSE CoreOf(a, r.core) \in told /\ \A e \in told : ~CoreLess(e.core, r.core)

HoldsNewest(r, a, H) ==
  LET told == {e \in H : e.author = a /\ e.core = NoCore}
  IN IF told = {} THEN r.nickname = NoNickname
     ELSE /\ NameOf(a, r.nickname) \in told
          /\ \A e \in told : ~NicknameLess(r.nickname, e.nickname)

\* Order is immaterial: of the admissions of an author that a peer was told,
\* in whatever order and form, it keeps the earliest.  The tier, and so the
\* cooldown that every tile applies, follows.  (insert_record: "core min".)
EarliestCore ==
  \A p \in Peers, a \in Authors : HoldsEarliest(state[p][a], a, heard[p])

\* Likewise the newest nickname is kept of those that came with an admission
\* or after one.  (insert_record: "nickname max".)
NewestNickname ==
  \A p \in Peers, a \in Authors : HoldsNewest(state[p][a], a, heard[p])

\* Both, for everything that reaches a replica: its records are the join of what
\* it was told, however that came.  (insert_record: "core min, nickname
\* max".)
RecordsAreJoins == EarliestCore /\ NewestNickname

\* An author once admitted stays so on every replica, and its tier changes
\* only for that of an earlier admission.
AdmissionIsForGood ==
  [][\A p \in Peers, a \in Authors : Admitted(state[p][a]) =>
       /\ Admitted(state'[p][a])
       /\ \/ state'[p][a].core = state[p][a].core
          \/ CoreLess(state'[p][a].core, state[p][a].core)]_vars

\* Summaries and deltas alone bring every admission, and the version of every
\* nickname that any replica holds, to all replicas.  (apply_nickname: the
\* divergence of a dropped nickname "is transient".)
NicknamesSpread ==
  <>[](\A p, q \in Peers, a \in Authors :
         /\ Admitted(state[p][a]) = Admitted(state[q][a])
         /\ state[p][a].nickname.version = state[q][a].nickname.version)
=============================================================================
