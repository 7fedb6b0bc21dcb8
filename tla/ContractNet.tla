----------------------------- MODULE ContractNet -----------------------------
(***************************************************************************)
(* The replicas of one contract on the peers of a Freenet network.  The    *)
(* host is external: it moves summaries, deltas and whole states between   *)
(* peers, may lose, repeat and reorder them, and calls the contract's      *)
(* entry points.  The entry points have the same shape in the tile, chat   *)
(* and registry contracts; the module is instantiated with the operators   *)
(* of each.                                                                *)
(***************************************************************************)
EXTENDS Naturals, FiniteSets

CONSTANTS Peers,
          ClientDeltas,      \* the deltas clients submit to a peer
          MaxClock,          \* bound on the peers' clocks
          MaxMsgs,           \* bound on the messages in flight
          Genesis, NoDelta,  \* the empty state; the zero-byte delta
          MergeOp(_, _),     \* merge_state's CRDT join
          ApplyOp(_, _),     \* apply_delta's CRDT join
          SummaryOp(_), DeltaOp(_, _),
          StateOk(_, _),     \* does merge_state accept it at this time?
          DeltaOk(_, _),     \* does apply_delta accept it at this time?
          StateEntries(_),   \* what a state tells
          DeltaEntries(_, _) \* what a delta told a replica now in a state

VARIABLES state,   \* state[p]: p's replica
          clock,   \* clock[p]: p's clock, drifting freely from the others
          net,     \* messages in flight
          heard    \* history: everything p accepted in an update

vars == <<state, clock, net, heard>>

Summary(p, q) == [kind |-> "summary", from |-> p, to |-> q,
                  marks |-> SummaryOp(state[p])]

Delivery(p, q, kind, s, d) ==
  [kind |-> kind, from |-> p, to |-> q, state |-> s, delta |-> d]

\* Every part of an update is verified before any of it is kept: a part that
\* fails, a zero-byte delta included, fails the whole update.
Accepted(m, t) ==
  /\ m.kind \in {"state", "both"} => StateOk(m.state, t)
  /\ m.kind \in {"delta", "both"} => m.delta # NoDelta /\ DeltaOk(m.delta, t)

\* update_state on an accepted update: the state part, then the delta part.
Updated(s, m) ==
  LET merged == IF m.kind = "delta" THEN s ELSE MergeOp(s, m.state)
  IN IF m.kind = "state" THEN merged ELSE ApplyOp(merged, m.delta)

Told(s, m) ==
  (IF m.kind = "delta" THEN {} ELSE StateEntries(m.state))
  \cup (IF m.kind = "state" THEN {} ELSE DeltaEntries(m.delta, Updated(s, m)))

Update(p, m) ==
  IF Accepted(m, clock[p])
    THEN /\ state' = [state EXCEPT ![p] = Updated(@, m)]
         /\ heard' = [heard EXCEPT ![p] = @ \cup Told(state[p], m)]
    ELSE UNCHANGED <<state, heard>>

-----------------------------------------------------------------------------
Init ==
  /\ state = [p \in Peers |-> Genesis]
  /\ clock = [p \in Peers |-> 0]
  /\ net = {}
  /\ heard = [p \in Peers |-> {}]

Tick(p) ==
  /\ clock[p] < MaxClock
  /\ clock' = [clock EXCEPT ![p] = @ + 1]
  /\ UNCHANGED <<state, net, heard>>

\* A client sends a signed delta to its own peer, possibly once more.
Submit(p, d) ==
  /\ Update(p, Delivery(p, p, "delta", Genesis, d))
  /\ UNCHANGED <<clock, net>>

Send(m) ==
  /\ Cardinality(net) < MaxMsgs
  /\ net' = net \cup {m}
  /\ UNCHANGED <<state, clock, heard>>

\* p asks q for what p is missing.
Ask(p, q) == Send(Summary(p, q))

\* The summary is answered, perhaps long after it was made, by the delta that
\* its reader has for it then; nothing is sent when that is zero bytes.
Answer(m) ==
  /\ m.kind = "summary"
  /\ LET d == DeltaOp(state[m.to], m.marks)
     IN net' = (net \ {m}) \cup (IF d = NoDelta THEN {} ELSE
                               {Delivery(m.to, m.from, "delta", Genesis, d)})
  /\ UNCHANGED <<state, clock, heard>>

PushState(p, q) == Send(Delivery(p, q, "state", state[p], NoDelta))

PushBoth(p, q) ==
  Send(Delivery(p, q, "both", state[p],
                DeltaOp(state[p], SummaryOp(Genesis))))

\* A message stays in flight when it is received: it may come again.
Receive(m) ==
  /\ m.kind # "summary"
  /\ Update(m.to, m)
  /\ UNCHANGED <<clock, net>>

Lose(m) ==
  /\ net' = net \ {m}
  /\ UNCHANGED <<state, clock, heard>>

Next ==
  \/ \E p \in Peers : Tick(p)
  \/ \E p \in Peers, d \in ClientDeltas : Submit(p, d)
  \/ \E p \in Peers : \E q \in Peers \ {p} :
       Ask(p, q) \/ PushState(p, q) \/ PushBoth(p, q)
  \/ \E m \in net : Answer(m) \/ Receive(m) \/ Lose(m)

Spec == Init /\ [][Next]_vars

-----------------------------------------------------------------------------
\* The host keeps exchanging summaries and deltas between every two peers; of what is sent again and again, something arrives, and
\* nothing stays in flight for ever.
FairHost ==
  /\ \A p \in Peers : WF_vars(Tick(p))
  /\ WF_vars(\E m \in net : Lose(m))

Arrives(p, q, kind) ==
  \E m \in net : m.kind = kind /\ m.from = p /\ m.to = q /\ Receive(m)

FairDeltas ==
  \A p \in Peers : \A q \in Peers \ {p} :
    /\ SF_vars(Ask(p, q))
    /\ SF_vars(\E m \in net : m.from = p /\ m.to = q /\ Answer(m))
    /\ SF_vars(Arrives(q, p, "delta"))

DeltaSpec == Spec /\ FairHost /\ FairDeltas
=============================================================================
