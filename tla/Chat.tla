-------------------------------- MODULE Chat --------------------------------
(***************************************************************************)
(* The chat CRDT of common/src/chat.rs: a set of messages, at most         *)
(* AuthorCap of one author and Cap in all, the newest kept.                *)
(*                                                                         *)
(* A message is [author, ts, seq, sig]; `sig' is the rank of its signature *)
(* bytes, distinct for distinct contents, which need no field then.        *)
(***************************************************************************)
EXTENDS Naturals, FiniteSets

CONSTANTS Authors,    \* ids of the identities, ordered as their key bytes
          Messages,   \* the messages that authors may sign
          MaxField,   \* bounds ts, seq and sig
          Cap,        \* CHAT_MESSAGE_CAP
          AuthorCap   \* CHAT_MAX_MESSAGES_PER_AUTHOR

ASSUME ChatCapAssumption ==
  Cap \in Nat \ {0} /\ AuthorCap \in Nat \ {0} /\ MaxField \in Nat

\* Keys, fields and texts have a bounded width, so there are finitely many messages.
ASSUME MessageAssumption ==
  /\ Authors \subseteq Nat /\ IsFiniteSet(Messages)
  /\ \A x \in Messages :
       /\ x.author \in Authors /\ x.ts \in 0 .. MaxField
       /\ x.seq \in 0 .. MaxField /\ x.sig \in 0 .. MaxField
       /\ \A y \in Messages :
            /\ x.author = y.author /\ x.ts = y.ts
            /\ x.seq = y.seq /\ x.sig = y.sig
            => x = y

SameId(x, y) == x.ts = y.ts /\ x.author = y.author /\ x.seq = y.seq

\* MessageId's derived order: by time, then author, then sequence number.
IdLess(x, y) ==
  \/ x.ts < y.ts
  \/ x.ts = y.ts /\ x.author < y.author
  \/ x.ts = y.ts /\ x.author = y.author /\ x.seq < y.seq

SlotBeats(x, y) == x.sig > y.sig

\* What is left of a set of messages when each id keeps its winner.
Winners(S) == {x \in S : \A y \in S : SameId(x, y) => ~SlotBeats(y, x)}

\* The messages after which the newest n others come go.
NewestOf(S, n) == {x \in S : Cardinality({y \in S : IdLess(x, y)}) < n}

OfAuthor(S, a) == {x \in S : x.author = a}

-----------------------------------------------------------------------------
\* Inserts that forget the cap of all, the author's cap, and the id's winner.
UncappedInsert(chat, x) ==
  LET slotted == Winners(chat \cup {x})
      mine    == OfAuthor(slotted, x.author)
  IN (slotted \ mine) \cup NewestOf(mine, AuthorCap)

FirstInsert(chat, x) ==
  LET slotted == IF \E y \in chat : SameId(x, y) THEN chat ELSE chat \cup {x}
      mine    == OfAuthor(slotted, x.author)
      fair    == (slotted \ mine) \cup NewestOf(mine, AuthorCap)
  IN NewestOf(fair, Cap)

\* ChatState::insert: the id's winner stays, the author's oldest messages go,
\* then the oldest of all.
Insert(chat, x) ==
  LET slotted == Winners(chat \cup {x})
      mine    == OfAuthor(slotted, x.author)
      fair    == (slotted \ mine) \cup NewestOf(mine, AuthorCap)
  IN NewestOf(fair, Cap)

\* What a chat holds of all the messages in S, whatever the order in which
\* they arrived: the reference that replicas are compared with.
Fair(S) ==
  UNION {NewestOf(OfAuthor(Winners(S), a), AuthorCap) : a \in Authors}

NewestChat(S) == NewestOf(Fair(S), Cap)
=============================================================================
