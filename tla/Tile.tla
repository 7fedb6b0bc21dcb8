-------------------------------- MODULE Tile --------------------------------
(***************************************************************************)
(* The tile CRDT of common/src/tile.rs.  A tile keeps, for every author,   *)
(* two logs keyed by timestamp: the live log with the newest LogCap        *)
(* placements and the baked log with the BakedCap next ones, displaced     *)
(* from the live log.  A log is modelled as a set of placements, of which  *)
(* no two have the same author and timestamp.                              *)
(*                                                                         *)
(* A placement is [author, ts, sig, coord].  `sig' is the rank of its      *)
(* signature bytes; distinct payloads have distinct signatures, so the     *)
(* colour needs no field of its own.                                       *)
(***************************************************************************)
EXTENDS Naturals, FiniteSets

CONSTANTS Authors,      \* ids of the identities, ordered as their key bytes
          Placements,   \* the placements that authors may sign
          MaxField,     \* bounds a timestamp (u64) and a signature's rank
          LogCap,       \* MAX_PLACEMENTS_PER_AUTHOR
          BakedCap      \* MAX_BAKED_PER_AUTHOR

ASSUME CapAssumption ==
  LogCap \in Nat \ {0} /\ BakedCap \in Nat \ {0} /\ MaxField \in Nat

\* Keys and fields have a fixed width, so there are finitely many placements.
ASSUME PlacementAssumption ==
  /\ Authors \subseteq Nat /\ IsFiniteSet(Placements)
  /\ \A x \in Placements :
       /\ x.author \in Authors
       /\ x.ts \in 0 .. MaxField /\ x.sig \in 0 .. MaxField
       /\ \A y \in Placements :
            x.author = y.author /\ x.ts = y.ts /\ x.sig = y.sig => x = y

EmptyTile == [live |-> {}, baked |-> {}]

\* Two placements that claim the same slot of an author's log.
SameSlot(x, y) == x.author = y.author /\ x.ts = y.ts

SlotWins(x, y) == x.sig >= y.sig

\* What is left of a set of placements when each slot keeps its winner.
Winners(S) == {x \in S : \A y \in S : SameSlot(x, y) => SlotWins(x, y)}

\* The timestamps of x's author in S that are newer than x.
NewerKeys(x, S) ==
  {y.ts : y \in {z \in S : z.author = x.author /\ z.ts > x.ts}}

\* The newest `cap' entries of every author.
Newest(S, cap) == {x \in S : Cardinality(NewerKeys(x, S)) < cap}

-----------------------------------------------------------------------------
\* A cap that nothing enforces.
UncappedLogInsert(log, x, cap) == Winners(log \cup {x})

\* log_insert on a log that holds at most `cap' entries per author: the slot's
\* winner stays, and the oldest entry goes when the cap is exceeded.
LogInsert(log, x, cap) == Newest(Winners(log \cup {x}), cap)

Displaced(log, x, cap) == Winners(log \cup {x}) \ LogInsert(log, x, cap)

Bake(tile, x) == [tile EXCEPT !.baked = LogInsert(@, x, BakedCap)]

\* A live cap that drops instead of baking.
DroppingInsert(tile, x) == [tile EXCEPT !.live = LogInsert(@, x, LogCap)]

\* TileState::insert: what the live cap displaces (one placement at most, of
\* x's author) is baked.
Insert(tile, x) ==
  [live  |-> LogInsert(tile.live, x, LogCap),
   baked |-> Newest(Winners(tile.baked \cup Displaced(tile.live, x, LogCap)),
                    BakedCap)]

\* What a tile shows of all the placements in S, whatever the order in which
\* they arrived: the reference that the logs are compared with.
NewestTile(S) ==
  LET kept == Newest(Winners(S), LogCap + BakedCap)
      live == Newest(kept, LogCap)
  IN [live |-> live, baked |-> kept \ live]
=============================================================================
