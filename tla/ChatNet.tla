------------------------------- MODULE ChatNet -------------------------------
(***************************************************************************)
(* The replicas of the chat: the batch operations of common/src/chat.rs,   *)
(* the checks of contracts/chat-contract and the display filter, on the    *)
(* network of ContractNet.                                                 *)
(***************************************************************************)
EXTENDS Chat, Sequences, SequencesExt

CONSTANTS Peers, MaxClock, MaxMsgs,
          Skew,       \* MAX_FUTURE_SKEW_SECS
          Interval    \* CHAT_MIN_MESSAGE_INTERVAL_SECS

VARIABLES state, clock, net, heard

ASSUME BoundAssumption ==
  MaxClock \in Nat /\ MaxMsgs \in Nat /\ Skew \in Nat /\ Interval \in Nat

\* The messages of a map in the order of their ids: the i-th has i - 1 before it.
InOrder(S) ==
  [i \in 1 .. Cardinality(S) |->
     CHOOSE x \in S : Cardinality({y \in S : IdLess(y, x)}) = i - 1]

ApplyDelta(chat, delta) == FoldLeft(Insert, chat, delta)

\* ChatState::summarize: every author's newest (ts, seq), as its message.
Summarize(chat) ==
  [a \in {x.author : x \in chat} |->
     LET newest == CHOOSE x \in OfAuthor(chat, a) :
                     \A y \in OfAuthor(chat, a) : ~IdLess(x, y)
     IN [ts |-> newest.ts, seq |-> newest.seq]]

\* ChatState::delta: what is newer than the watermarks, and all there is of an
\* author without one.
Delta(chat, marks) ==
  LET After(x, w) == x.ts > w.ts \/ (x.ts = w.ts /\ x.seq > w.seq)
  IN InOrder({x \in chat : x.author \in DOMAIN marks => After(x, marks[x.author])})

Merge(chat, other) == ApplyDelta(chat, InOrder(other))

\* verify_message's clock check.
InTime(S, now) == \A x \in S : x.ts <= now + Skew

VerifyState(chat, now) == InTime(chat, now)

VerifyDelta(delta, now) == InTime(ToSet(delta), now)

\* verify_state_structure.
VerifyStructure(chat, now) ==
  /\ Cardinality(chat) <= Cap
  /\ \A a \in Authors : Cardinality(OfAuthor(chat, a)) <= AuthorCap
  /\ InTime(chat, now)

\* Whether validate_state answers Valid, when the host supplies no registry, <<>>, or
\* one with certain authors, <<admitted>>.
ValidateState(chat, related, now) ==
  /\ chat = {} \/ related = <<>> \/ \A x \in chat : x.author \in related[1]
  /\ VerifyStructure(chat, now)

\* An interval that must be exceeded.
StrictAccept(shown, x) ==
  IF \A y \in OfAuthor(shown, x.author) : x.ts - y.ts > Interval
    THEN shown \cup {x} ELSE shown

\* ChatState::valid_messages: oldest first, each author's next message an
\* interval after the last one shown.
Accept(shown, x) ==
  IF \A y \in OfAuthor(shown, x.author) : x.ts - y.ts >= Interval
    THEN shown \cup {x} ELSE shown

ValidMessages(chat) == FoldLeft(Accept, {}, InOrder(chat))

-----------------------------------------------------------------------------
ClientDeltas == {<<x>> : x \in Messages}

ToldBy(delta, chat) == ToSet(delta)

INSTANCE ContractNet WITH
  Genesis <- {}, NoDelta <- <<>>,
  MergeOp <- Merge, ApplyOp <- ApplyDelta,
  SummaryOp <- Summarize, DeltaOp <- Delta,
  StateOk <- VerifyState, DeltaOk <- VerifyDelta,
  StateEntries <- LAMBDA chat : chat, DeltaEntries <- ToldBy

-----------------------------------------------------------------------------
\* The types; and validate_state, asked with the whole registry or with none, refuses
\* nothing that update_state makes: both caps are kept, and the clock's skew.
TypeOK ==
  /\ DOMAIN state = Peers /\ DOMAIN heard = Peers
  /\ clock \in [Peers -> 0 .. MaxClock]
  /\ \A p \in Peers :
       /\ state[p] \subseteq Messages /\ heard[p] \subseteq Messages
       /\ \A r \in {<<>>, <<Authors>>} : ValidateState(state[p], r, clock[p])
  /\ Cardinality(net) <= MaxMsgs

\* Arrival order does not matter, although two caps evict: after any
\* interleaving of messages, deltas and whole states a replica holds the
\* newest Cap of the messages that the authors' own caps leave of everything
\* it was told.  (insert_bounded: "any merge order of the same message set
\* converges".)
BufferIsNewest == \A p \in Peers : state[p] = NewestChat(heard[p])

\* Whatever the buffer has dropped, an author's messages on display are an
\* interval apart, the oldest one held is on display, and one is hidden only
\* behind another.  (valid_messages: the greedy interval filter.)
DisplayIsSpaced ==
  \A p \in Peers, a \in Authors :
    LET held  == OfAuthor(state[p], a)
        shown == OfAuthor(ValidMessages(state[p]), a)
    IN \A x \in held : x \in shown <=>
         \A y \in shown : IdLess(y, x) => x.ts - y.ts >= Interval
=============================================================================
