----------------------------- MODULE WebRegistry -----------------------------
(***************************************************************************)
(* Pages beside the replicas of RegistryNet: what a page makes of the      *)
(* states and deltas that are about, and what it puts.                     *)
(***************************************************************************)
EXTENDS RegistryNet, RegistryJs

DeltasSeen ==
  {m.delta : m \in {n \in net : n.kind \in {"delta", "both"}}} \cup ClientDeltas

\* Putting a merged registry does what the update would have done (merge.ts), for
\* every replica that can be fetched and every delta.
PutsLikeUpdates ==
  \A p \in Peers, d \in DeltasSeen :
    MergeRegistryState(state[p], d) = ApplyDelta(state[p], d)

\* A view of record r: the time and the version always, and tier and name unless
\* another admission or nickname ties with r's.
ShowsLike(v, r) ==
  /\ Known(v) = Admitted(r)
  /\ v.admittedTs = r.core.ts /\ v.nicknameVersion = r.nickname.version
  /\ (\A c \in Cores : c.ts = r.core.ts => c = r.core) => v.tier = r.core.tier
  /\ (\A n \in Nicknames : n.version = r.nickname.version => n = r.nickname)
       => v.nickname = r.nickname.sig

\* In whatever way a page learns of one replica's registry and then of another's
\* or of a delta, it shows the admission and the nickname that the contract would
\* keep, but for ties, which the view cannot break as the contract does ("the Rust
\* side tiebreaks equal ts on signature bytes", state.ts).
ViewFollows ==
  \A p \in Peers :
    LET view == DecodeRegistryState(state[p])
    IN /\ \A d \in DeltasSeen, a \in Authors :
            ShowsLike(ApplyRegistryDelta(view, d)[a], ApplyDelta(state[p], d)[a])
       /\ \A q \in Peers, a \in Authors :
            ShowsLike(MergeIntoView(view, state[q])[a], Merge(state[p], state[q])[a])
=============================================================================
