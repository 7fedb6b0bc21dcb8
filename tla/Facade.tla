------------------------------- MODULE Facade -------------------------------
(***************************************************************************)
(* The facade contract (common/src/facade.rs, contracts/facade-contract):  *)
(* the stable URL, whose state is the owner's newest signed pointer to the *)
(* current web application.  Its replicas live on the network of           *)
(* ContractNet.                                                            *)
(*                                                                         *)
(* A pointer is [version, sig]; `sig' is the rank of the signature, which  *)
(* covers the pointer and the hash of the web archive it travels with.     *)
(***************************************************************************)
EXTENDS Naturals, FiniteSets

CONSTANTS Pointers,     \* the pointers that the owner signs
          Peers, MaxClock, MaxMsgs

VARIABLES state, clock, net, heard

\* Releases are versioned by the second: 0 stands for the empty state.
ASSUME PointerAssumption ==
  \A f \in Pointers :
    /\ f.version \in Nat \ {0} /\ f.sig \in Nat
    /\ \A g \in Pointers : f.version = g.version /\ f.sig = g.sig => f = g

ASSUME FacadeBoundAssumption == MaxClock \in Nat /\ MaxMsgs \in Nat

\* The empty bytes: the genesis state and the delta of a converged peer.
NoPointer == [version |-> 0, sig |-> 0]

-----------------------------------------------------------------------------
\* FacadeMetadata::order_key.
OrderLess(f, g) ==
  f.version < g.version \/ (f.version = g.version /\ f.sig < g.sig)

\* Slips: versions decide alone, deltas are never sent.
LaterVersion(f, g) == IF f.version < g.version THEN g ELSE f

NothingNew(f, version) == NoPointer

\* update_state_impl on one update, whose bytes are a whole framed state in
\* every kind of it (of a StateAndDelta the state is used, which is what the
\* delta of PushBoth repeats).
Newer(f, g) == IF f = NoPointer \/ OrderLess(f, g) THEN g ELSE f

\* Empty bytes do not parse as a frame; the clock is not looked at.
Parses(f, now) == f # NoPointer

\* summarize_state and get_state_delta.
VersionOf(f) == f.version

Delta(f, version) == IF f.version <= version THEN NoPointer ELSE f

Single(f) == {f}

ToldBy(f, current) == {f}

Host == INSTANCE ContractNet WITH
  ClientDeltas <- Pointers, Genesis <- NoPointer, NoDelta <- NoPointer,
  MergeOp <- Newer, ApplyOp <- Newer,
  SummaryOp <- VersionOf, DeltaOp <- Delta,
  StateOk <- Parses, DeltaOk <- Parses,
  StateEntries <- Single, DeltaEntries <- ToldBy

\* The host keeps exchanging summaries and deltas.
FacadeSpec == Host!DeltaSpec

-----------------------------------------------------------------------------
States == Pointers \cup {NoPointer}

MessageOK(m) ==
  \/ m.kind = "summary" /\ m.from \in Peers /\ m.to \in Peers
  \/ m \in [kind : {"state", "delta", "both"}, from : Peers, to : Peers,
            state : States, delta : States]

\* The types of the replicas, of what they were told and of the messages.
FacadeTypeOK ==
  /\ state \in [Peers -> States]
  /\ clock \in [Peers -> 0 .. MaxClock]
  /\ \A m \in net : MessageOK(m)
  /\ heard \in [Peers -> SUBSET Pointers]

\* f is the greatest pointer of H in the order of the contract.
IsNewest(f, H) ==
  IF H = {} THEN f = NoPointer
  ELSE f \in H /\ \A g \in H : ~OrderLess(f, g)

\* A peer serves the newest pointer it was ever told, in whatever order and
\* form.  (facade-contract: "last-writer-wins on the deterministic (version,
\* signature) key, so merges commute".)
ServesNewest == \A p \in Peers : IsNewest(state[p], heard[p])

\* No update takes the stable URL back to an older release.
NeverRollsBack ==
  [][\A p \in Peers : state'[p] = state[p] \/ OrderLess(state[p], state'[p])]_(Host!vars)

\* By summaries and deltas alone every peer comes to serve the same release,
\* unless two were signed with one version.
EveryoneFollows ==
  <>[](\A p, q \in Peers : state[p].version = state[q].version)
=============================================================================
