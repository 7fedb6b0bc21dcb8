------------------------------- MODULE TileNet -------------------------------
(***************************************************************************)
(* The replicas of one tile: the batch operations of common/src/tile.rs,   *)
(* the checks of contracts/tile-contract and the picture derived from a    *)
(* replica, on the network of ContractNet.                                 *)
(***************************************************************************)
EXTENDS Tile, Sequences, SequencesExt

CONSTANTS Peers, MaxClock, MaxMsgs,
          Skew,         \* MAX_FUTURE_SKEW_SECS
          Cooldown      \* the tile cooldown of each admitted author's tier

VARIABLES state, clock, net, heard

ASSUME BoundAssumption == MaxClock \in Nat /\ MaxMsgs \in Nat /\ Skew \in Nat

ASSUME CooldownAssumption ==
  DOMAIN Cooldown \subseteq Authors /\ \A a \in DOMAIN Cooldown : Cooldown[a] \in Nat

-----------------------------------------------------------------------------
\* The iteration order of a map of logs: by author, then by timestamp.
Before(x, y) == x.author < y.author \/ (x.author = y.author /\ x.ts < y.ts)

InOrder(S) ==
  [i \in 1 .. Cardinality(S) |->
     CHOOSE x \in S : Cardinality({y \in S : Before(y, x)}) = i - 1]

\* TileState::merge: the other's live entries are inserted, then its baked
\* entries go straight to the baked layer.
Merge(tile, other) ==
  FoldLeft(Bake, FoldLeft(Insert, tile, InOrder(other.live)),
           InOrder(other.baked))

ApplyDelta(tile, delta) == FoldLeft(Insert, tile, delta)

Entries(tile) == tile.live \cup tile.baked

\* TileState::summarize: the newest timestamp of every author.
Summarize(tile) ==
  [a \in {x.author : x \in Entries(tile)} |->
     Max({x.ts : x \in {y \in Entries(tile) : y.author = a}})]

\* A delta that predates the baked layer.
LiveDelta(tile, marks) ==
  InOrder({x \in tile.live : x.author \in DOMAIN marks => x.ts > marks[x.author]})

\* TileState::delta: what is newer than the watermarks, and all there is of an
\* author without one; live entries first.  An empty delta is the None that is
\* sent as zero bytes.
Delta(tile, marks) ==
  LET Missing(log) ==
        {x \in log : x.author \in DOMAIN marks => x.ts > marks[x.author]}
  IN InOrder(Missing(tile.live)) \o InOrder(Missing(tile.baked))

\* verify_placement's clock check, on all entries of a state or a delta.
InTime(S, now) == \A x \in S : x.ts <= now + Skew

VerifyState(tile, now) == InTime(Entries(tile), now)

VerifyDelta(delta, now) == InTime(ToSet(delta), now)

\* verify_state_structure; that entries are stored under their own keys is the shape
\* of the model's layers.
VerifyStructure(tile, now) ==
  /\ \A a \in Authors :
       /\ Cardinality({x \in tile.live : x.author = a}) <= LogCap
       /\ Cardinality({x \in tile.baked : x.author = a}) <= BakedCap
  /\ InTime(Entries(tile), now)

\* Whether validate_state answers Valid, when the host supplies no registry, <<>>, or
\* one with certain authors, <<admitted>>.
ValidateState(tile, related, now) ==
  /\ \/ tile.live = {} \/ related = <<>>
     \/ \A x \in Entries(tile) : x.author \in related[1]
  /\ VerifyStructure(tile, now)

-----------------------------------------------------------------------------
\* TileState::valid_placements for one author: one greedy chain over the baked
\* and the live entries, oldest first.
Accept(chain, x) ==
  IF chain = <<>> \/ x.ts >= Last(chain).ts + Cooldown[x.author]
    THEN Append(chain, x) ELSE chain

\* A chain that starts anew at the live layer.
LiveChain(tile, a) ==
  FoldLeft(Accept, <<>>, InOrder({x \in tile.live : x.author = a}))

Chain(tile, a) ==
  FoldLeft(Accept, <<>>, InOrder({x \in Entries(tile) : x.author = a}))

ValidPlacements(tile) ==
  UNION {ToSet(Chain(tile, a)) : a \in DOMAIN Cooldown}

\* A last writer without tie-breaks.
TimedLastWriter(x, S) == \A y \in S : y.coord = x.coord => x.ts >= y.ts

\* derive_canvas: the last writer of every coordinate.
LastWriter(x, S) ==
  \A y \in S : y.coord = x.coord =>
    \/ x.ts > y.ts
    \/ x.ts = y.ts /\ x.author > y.author
    \/ x.ts = y.ts /\ x.author = y.author /\ x.sig >= y.sig

DeriveCanvas(tile) ==
  {x \in ValidPlacements(tile) : LastWriter(x, ValidPlacements(tile))}

-----------------------------------------------------------------------------
ClientDeltas == {<<x>> : x \in Placements}

ToldBy(delta, tile) == ToSet(delta)

INSTANCE ContractNet WITH
  Genesis <- EmptyTile, NoDelta <- <<>>,
  MergeOp <- Merge, ApplyOp <- ApplyDelta,
  SummaryOp <- Summarize, DeltaOp <- Delta,
  StateOk <- VerifyState, DeltaOk <- VerifyDelta,
  StateEntries <- Entries, DeltaEntries <- ToldBy

-----------------------------------------------------------------------------
\* The types; and validate_state, asked with the whole registry or with none, refuses
\* nothing that update_state makes, by whichever part of an update it came: each
\* author's caps are kept, and nothing is from beyond the clock's skew.
TypeOK ==
  /\ DOMAIN state = Peers /\ DOMAIN heard = Peers
  /\ clock \in [Peers -> 0 .. MaxClock]
  /\ \A p \in Peers :
       /\ heard[p] \subseteq Placements
       /\ state[p] \in [live : SUBSET Placements, baked : SUBSET Placements]
       /\ \A r \in {<<>>, <<Authors>>} : ValidateState(state[p], r, clock[p])
  /\ Cardinality(net) <= MaxMsgs

\* Arrival order does not matter: after any interleaving of single placements,
\* deltas (stale, repeated) and whole states, the live log holds an author's
\* newest LogCap slots of everything the peer was told and the baked log the
\* next BakedCap.  What the caps dropped is never missed.
\* (log_insert: "any merge order of the same placement sets converges".)
LayersAreNewest == \A p \in Peers : state[p] = NewestTile(heard[p])

\* An entry is baked for a reason: its author has a full live log of newer
\* entries.  (summarize: "baked entries are older than the live log in every
\* honestly reachable state", on which its watermarks rest.)
BakedAreOlder ==
  \A p \in Peers : \A x \in state[p].baked :
    LET live == {y.ts : y \in {z \in state[p].live : z.author = x.author}}
    IN Cardinality(live) = LogCap /\ \A t \in live : t > x.ts

\* V is what the cooldowns leave of S when the earlier placement goes first.
GreedyChoice(V, S) ==
  /\ V \subseteq S
  /\ \A x \in S :
       x \in V <=> /\ x.author \in DOMAIN Cooldown
                   /\ \A y \in V : y.author = x.author /\ y.ts < x.ts =>
                        x.ts >= y.ts + Cooldown[x.author]

\* Moving a placement to the baked layer changes no verdict of the cooldown
\* filter: while the baked layer has dropped nothing, the placements shown are
\* the greedy choice among everything heard.  (valid_placements: "one chain
\* runs over baked then live entries".)
BakingLaundersNothing ==
  \A p \in Peers :
    LET slots == Winners(heard[p])
        Dropped(a) == Cardinality({x \in slots : x.author = a}) > LogCap + BakedCap
    IN (\A a \in Authors : ~Dropped(a)) => GreedyChoice(ValidPlacements(state[p]), slots)

\* A peer that starts from nothing gets the whole tile, both layers included,
\* from one delta.  (delta: "a fresh peer reconstructs the full state from the
\* delta alone".)
FreshPeerCatchesUp ==
  \A p \in Peers :
    ApplyDelta(EmptyTile, Delta(state[p], Summarize(EmptyTile))) = state[p]

\* Peers that have accepted the same placements show the same canvas, one
\* placement at a coordinate, regardless of arrival order (README.md).
SameCanvas ==
  \A p, q \in Peers : heard[p] = heard[q] =>
    LET mine == DeriveCanvas(state[p])
        theirs == DeriveCanvas(state[q])
    IN /\ {x.coord : x \in mine} = {x.coord : x \in theirs}
       /\ \A x \in mine, y \in theirs : x.coord = y.coord => x = y

\* Eviction shows nothing that the cooldown hid: what is visible would be so if
\* the logs had no caps.  (valid_placements: "so eviction cannot launder a
\* rapid-fire burst into permanently visible pixels".)
NothingLaundered ==
  \A p \in Peers :
    ValidPlacements(state[p])
      \subseteq ValidPlacements([live |-> Winners(heard[p]), baked |-> {}])
=============================================================================
