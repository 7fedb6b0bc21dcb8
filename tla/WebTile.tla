------------------------------- MODULE WebTile -------------------------------
(***************************************************************************)
(* The tile in the browser: TileStateJs of web/src/state.ts, a map of logs *)
(* that are maps from a timestamp, and mergeTileState of web/src/merge.ts, *)
(* which the fallback of an update uses to compute the state that it puts. *)
(* "Must mirror common/src/ exactly", says state.ts: the properties        *)
(* compare a page with the replicas of TileNet.                            *)
(***************************************************************************)
EXTENDS TileNet

\* JavaScript's Map.set.
MapSet(map, key, value) ==
  [k \in DOMAIN map \cup {key} |-> IF k = key THEN value ELSE map[k]]

\* The maps of a new page; a log is made when its author is first inserted.
NoLogs == [a \in {} |-> <<>>]

NewPage == [placements |-> NoLogs, baked |-> NoLogs]

NoLog == [t \in {} |-> t]

LogOf(logs, a) == IF a \in DOMAIN logs THEN logs[a] ELSE NoLog

\* placementSlotWinner.
PlacementSlotWinner(x, y) == IF x.sig >= y.sig THEN x ELSE y

Slotted(log, x) ==
  MapSet(log, x.ts,
         IF x.ts \in DOMAIN log THEN PlacementSlotWinner(log[x.ts], x) ELSE x)

\* The timestamps that the loop of logInsert deletes, oldest first.
Evicted(log, cap) ==
  {t \in DOMAIN log : Cardinality({u \in DOMAIN log : u > t}) >= cap}

LogInsertJs(log, x, cap) ==
  LET slotted == Slotted(log, x)
  IN Restrict(slotted, DOMAIN slotted \ Evicted(slotted, cap))

\* What logInsert returns.
DisplacedJs(log, x, cap) ==
  LET slotted == Slotted(log, x)
  IN InOrder({slotted[t] : t \in Evicted(slotted, cap)})

BakeJs(page, x) ==
  [page EXCEPT !.baked =
     MapSet(@, x.author, LogInsertJs(LogOf(@, x.author), x, BakedCap))]

InsertJs(page, x) ==
  LET log == LogOf(page.placements, x.author)
  IN FoldLeft(BakeJs,
              [page EXCEPT !.placements =
                 MapSet(@, x.author, LogInsertJs(log, x, LogCap))],
              DisplacedJs(log, x, LogCap))

ApplyDeltaJs(page, delta) == FoldLeft(InsertJs, page, delta)

\* The entries of a map of logs as a codec writes or iterates them: by author,
\* then by timestamp.
EntriesJs(logs) ==
  UNION {{logs[a][t] : t \in DOMAIN logs[a]} : a \in DOMAIN logs}

\* The fields of the state's bytes, entries in their order; an empty baked layer
\* is absent, which reads as empty.
EncodeTileState(page) ==
  [placements |-> InOrder(EntriesJs(page.placements)),
   baked      |-> InOrder(EntriesJs(page.baked))]

\* What the contract's serializer makes of a replica.
Bytes(tile) == [placements |-> InOrder(tile.live), baked |-> InOrder(tile.baked)]

DecodeTileState(bytes) ==
  FoldLeft(BakeJs, FoldLeft(InsertJs, NewPage, bytes.placements), bytes.baked)

MergeTileState(bytes, delta) ==
  EncodeTileState(ApplyDeltaJs(DecodeTileState(bytes), delta))

\* A fold of the live log alone: "made every baked pixel invisible".
MergeLiveInto(page, decoded) ==
  FoldLeft(InsertJs, page, InOrder(EntriesJs(decoded.placements)))

\* mergeTileInto: how a page takes in a whole state.
MergeTileInto(page, decoded) ==
  FoldLeft(BakeJs,
           FoldLeft(InsertJs, page, InOrder(EntriesJs(decoded.placements))),
           InOrder(EntriesJs(decoded.baked)))

-----------------------------------------------------------------------------
AcceptJs(chain, x) ==
  IF chain = <<>> \/ x.ts - Last(chain).ts >= Cooldown[x.author]
    THEN Append(chain, x) ELSE chain

\* validPlacements of one author, for the board as it was at a time: only what
\* is not newer than that takes part in the filter.
ValidOfJs(page, a, cutoff) ==
  FoldLeft(AcceptJs, <<>>,
           InOrder({x \in EntriesJs(page.baked) \cup EntriesJs(page.placements) :
                      x.author = a /\ x.ts <= cutoff}))

\* `sort' of the keys of authors.
KeyBefore(a, b) == a < b

Sort(K) ==
  [i \in 1 .. Cardinality(K) |->
     CHOOSE a \in K : Cardinality({b \in K : KeyBefore(b, a)}) = i - 1]

\* The authors in the page's maps who have a tier.
AuthorsJs(page) ==
  Sort((DOMAIN page.placements \cup DOMAIN page.baked) \cap DOMAIN Cooldown)

PushAll(accepted, chain) == accepted \o chain

ValidPlacementsJs(page, cutoff) ==
  FoldLeft(PushAll, <<>>,
           [i \in DOMAIN AuthorsJs(page) |-> ValidOfJs(page, AuthorsJs(page)[i], cutoff)])

\* A comparison without tie-breaks.
LwwLater(x, y) == x.ts > y.ts

LwwGreater(x, y) ==
  \/ x.ts > y.ts
  \/ x.ts = y.ts /\ x.author > y.author
  \/ x.ts = y.ts /\ x.author = y.author /\ x.sig > y.sig

Overwrite(winners, x) ==
  IF x.coord \notin DOMAIN winners \/ LwwGreater(x, winners[x.coord])
    THEN MapSet(winners, x.coord, x) ELSE winners

\* The winner of every coordinate that has one.
DeriveWinners(page, cutoff) ==
  FoldLeft(Overwrite, [c \in {} |-> c], ValidPlacementsJs(page, cutoff))

-----------------------------------------------------------------------------
PageOf(tile) == DecodeTileState(Bytes(tile))

\* "The merged bytes must be exactly what the Rust side would produce"
\* (merge.ts): for every replica that can be fetched, putting the state that
\* the page has merged with what it sends does what the update would have done;
\* and a page that has one replica's tile and takes in another's, whole, holds
\* what the contract makes of the two.
PageMergesAlike ==
  \A p \in Peers :
    /\ \A d \in ClientDeltas :
         MergeTileState(Bytes(state[p]), d) = Bytes(ApplyDelta(state[p], d))
    /\ \A q \in Peers \ {p} :
         EncodeTileState(MergeTileInto(PageOf(state[p]), PageOf(state[q])))
           = Bytes(Merge(state[p], state[q]))

\* "Peers agree on the derived canvas only if every client applies the same pure
\* functions" (state.ts): a page shows the canvas that the contract's crate
\* derives.  In a replay it shows the one that there would be had only the
\* placements up to the cutoff existed.
PageShowsCanvas ==
  \A p \in Peers, cutoff \in 0 .. MaxField :
    LET Upto(log) == {x \in log : x.ts <= cutoff}
        winners == DeriveWinners(PageOf(state[p]), cutoff)
    IN {winners[c] : c \in DOMAIN winners}
         = DeriveCanvas([live |-> Upto(state[p].live), baked |-> Upto(state[p].baked)])
=============================================================================
