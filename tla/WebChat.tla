------------------------------- MODULE WebChat -------------------------------
(***************************************************************************)
(* The chat in the browser: ChatStateJs of web/src/state.ts, a map from    *)
(* message ids, and mergeChatState of web/src/merge.ts.                    *)
(***************************************************************************)
EXTENDS ChatNet

NewPage == [k \in {} |-> k]

\* JavaScript's Map.set.
MapSet(map, key, value) ==
  [k \in DOMAIN map \cup {key} |-> IF k = key THEN value ELSE map[k]]

\* messageIdKey, a string whose order is that of the padded fields.
MessageIdKey(x) == <<x.ts, x.author, x.seq>>

KeyLess(k, l) ==
  \/ k[1] < l[1]
  \/ k[1] = l[1] /\ k[2] < l[2]
  \/ k[1] = l[1] /\ k[2] = l[2] /\ k[3] < l[3]

\* The keys of K but the newest n: `slice' on the sorted keys.
AllButNewest(K, n) ==
  IF Cardinality(K) <= n THEN {}
  ELSE {k \in K : Cardinality({l \in K : KeyLess(k, l)}) >= n}

Slotted(page, x) ==
  LET key == MessageIdKey(x)
  IN IF key \notin DOMAIN page \/ SlotBeats(x, page[key])
       THEN MapSet(page, key, x) ELSE page

Without(page, K) == Restrict(page, DOMAIN page \ K)

\* The ring buffer before the author's cap.
RingFirst(page, x) ==
  LET slotted == Slotted(page, x)
      ring    == Without(slotted, AllButNewest(DOMAIN slotted, Cap))
      mine    == {k \in DOMAIN ring : k[2] = x.author}
  IN Without(ring, AllButNewest(mine, AuthorCap))

InsertJs(page, x) ==
  LET slotted == Slotted(page, x)
      mine    == {k \in DOMAIN slotted : k[2] = x.author}
      fair    == Without(slotted, AllButNewest(mine, AuthorCap))
  IN Without(fair, AllButNewest(DOMAIN fair, Cap))

ApplyDeltaJs(page, delta) == FoldLeft(InsertJs, page, delta)

\* What the codec reads and writes: the messages, in the order of their ids.
DecodeChatState(chat) == FoldLeft(InsertJs, NewPage, InOrder(chat))

EncodeChatState(page) == {page[k] : k \in DOMAIN page}

MergeChatState(chat, delta) ==
  EncodeChatState(ApplyDeltaJs(DecodeChatState(chat), delta))

Shown(out, x) ==
  [shown |-> Append(out.shown, x), lastAccepted |-> MapSet(out.lastAccepted, x.author, x.ts)]

\* An interval that must be exceeded.
ShowLater(out, x) ==
  IF x.author \in DOMAIN out.lastAccepted => x.ts - out.lastAccepted[x.author] > Interval
    THEN Shown(out, x) ELSE out

\* validMessages keeps the time of each author's last message on display.
Show(out, x) ==
  IF x.author \in DOMAIN out.lastAccepted => x.ts - out.lastAccepted[x.author] >= Interval
    THEN Shown(out, x) ELSE out

ValidMessagesJs(page) ==
  FoldLeft(Show, [shown |-> <<>>, lastAccepted |-> [a \in {} |-> a]],
           InOrder(EncodeChatState(page))).shown

-----------------------------------------------------------------------------
\* Putting a merged state does what the update would have done ("the merged bytes
\* must be exactly what the Rust side would produce", merge.ts), for every
\* replica that can be fetched and any messages in the delta, with both caps at
\* work.
PutsLikeUpdates ==
  \A p \in Peers : \A q \in Peers \ {p} : LET delta == InOrder(state[q]) IN
    MergeChatState(state[p], delta) = ApplyDelta(state[p], delta)

\* A page that takes in messages one by one, from deltas and from whole states,
\* shows those that the contract's crate would, in the order of their ids.
PageShowsChat ==
  \A p \in Peers :
    ValidMessagesJs(DecodeChatState(state[p])) = InOrder(ValidMessages(state[p]))
=============================================================================
