------------------------------- MODULE WebSync -------------------------------
(***************************************************************************)
(* The connection of a page to its node: RealBackend (web/src/backend.ts). *)
(* Every `await' ends a step, and whatever runs next may come between.     *)
(* All procedures use the client that is the latest when they make a call, *)
(* and several of them run at once: the onOpen of every connection, with   *)
(* its syncAll, and passes of retryPendingSync.                            *)
(***************************************************************************)
EXTENDS Naturals, Sequences, FiniteSets

CONSTANTS NumTiles,   \* the tiles of the canvas
          MaxConns,   \* bound on the connections made and due
          MaxCloses,  \* bound on the connections lost
          MaxPasses   \* bound on the retry passes that run at once

ASSUME BoundsAssumption == {NumTiles, MaxConns, MaxCloses, MaxPasses} \subseteq Nat \ {0}

VARIABLES socket,        \* the state of every connection
          client,        \* the latest connection: this.client
          reconnects,    \* reconnections that are due
          task,          \* the procedures: what each is waiting for
          pendingChat, pendingTiles,   \* to be retried
          timer,         \* syncRetryTimer is set
          refreshing,    \* the slow refresh was started
          status,        \* what the page shows of the connection
          subscribed,    \* what was subscribed to, on which connection
          current,       \* what was fetched since the latest connection was made
          raced,         \* history: a procedure wrote what a later one had replaced
          belated        \* history: whoever set the status had lost its connection

connVars == <<socket, client, reconnects>>
syncVars == <<task, pendingChat, pendingTiles, timer, refreshing>>
statusVars == <<status, belated>>
vars == <<connVars, syncVars, statusVars, subscribed, current, raced>>

Registry == <<"registry", 0>>
Chat == <<"chat", 0>>
Nothing == <<"nothing", 0>>
Tile(n) == <<"tile", n>>
TileList == [n \in 1 .. NumTiles |-> Tile(n)]   \* config.tiles
Tiles == {Tile(n) : n \in 1 .. NumTiles}
Items == {Registry, Chat} \cup Tiles

Conns == 1 .. MaxConns
Passes == MaxConns + 1 .. MaxConns + MaxPasses
Tasks == Conns \cup Passes

\* A task waits for the fetch of an item, or once it is fetched for the
\* subscription, on the connection that the call was made on; todo are the
\* tiles of its loop that are left.  A pass keeps what failed again in still,
\* and is live while the array it runs over is this.pendingTiles.
Idle == [item |-> Nothing, via |-> 0, got |-> FALSE,
         todo |-> <<>>, still |-> <<>>, live |-> FALSE]

Busy(k) == task[k].item # Nothing

Init ==
  /\ socket = [c \in Conns |-> IF c = 1 THEN "opening" ELSE "none"]
  /\ client = 1 /\ reconnects = 0
  /\ task = [k \in Tasks |-> Idle]
  /\ pendingChat = FALSE /\ pendingTiles = <<>> /\ timer = FALSE
  /\ refreshing = FALSE /\ status = "connecting"
  /\ subscribed = {} /\ current = {} /\ raced = FALSE /\ belated = FALSE

-----------------------------------------------------------------------------
(* Connections *)

\* connect: a socket is made, and is this.client before it opens.
Connect ==
  /\ reconnects > 0 /\ client < MaxConns
  /\ client' = client + 1 /\ reconnects' = reconnects - 1
  /\ socket' = [socket EXCEPT ![client'] = "opening"]
  /\ current' = {}
  /\ UNCHANGED <<syncVars, statusVars, subscribed, raced>>

Call(r, i) == [r EXCEPT !.item = i, !.via = client, !.got = FALSE]

\* onOpen starts: the identity and the registry come first, taken for one call.
Open(c) ==
  /\ socket[c] = "opening"
  /\ socket' = [socket EXCEPT ![c] = "open"]
  /\ task' = [task EXCEPT ![c] = Call([Idle EXCEPT !.todo = TileList], Registry)]
  /\ UNCHANGED <<client, reconnects, pendingChat, pendingTiles, timer, refreshing,
                 statusVars, subscribed, current, raced>>

ScheduleReconnect ==
  reconnects' = reconnects + 1 /\ status' = "reconnecting" /\ belated' = FALSE

\* No catch on the connect.
RejectedForGood(c) == UNCHANGED <<reconnects, statusVars>>

\* A connect that was rejected is tried again, but for the first, by start().
Rejected(c) ==
  IF c = 1 THEN UNCHANGED <<reconnects, statusVars>> ELSE ScheduleReconnect

\* onClose: a socket that never opened rejects its connect, another reconnects.
Close(c) ==
  /\ socket[c] \in {"opening", "open"} /\ client + reconnects < MaxConns
  /\ Cardinality({d \in Conns : socket[d] = "closed"}) < MaxCloses
  /\ socket' = [socket EXCEPT ![c] = "closed"]
  /\ IF socket[c] = "opening" THEN Rejected(c) ELSE ScheduleReconnect
  /\ UNCHANGED <<client, syncVars, subscribed, current, raced>>

-----------------------------------------------------------------------------
(* One item: fetch, then subscribe, each on the latest connection *)

Up(k) == socket[task[k].via] = "open"

Fetch(k) ==
  /\ Busy(k) /\ ~task[k].got /\ Up(k)
  /\ task' = [task EXCEPT ![k].got = TRUE, ![k].via = client]
  /\ current' = current \cup {task[k].item}
  /\ UNCHANGED <<connVars, pendingChat, pendingTiles, timer, refreshing,
                 statusVars, subscribed, raced>>

\* The item is done: subscribed to, or failed or timed out at either call.
Outcome(k, ok) ==
  IF ok
    THEN /\ task[k].got /\ Up(k)
         /\ subscribed' = subscribed \cup {<<task[k].item, task[k].via>>}
    ELSE UNCHANGED subscribed

\* The first call of a task's next round, if a tile is left.
NextTile(r) ==
  IF r.todo = <<>> THEN Idle ELSE Call([r EXCEPT !.todo = Tail(@)], Head(r.todo))

\* this.pendingTiles becomes another array: no pass runs over it.
Detached == [k \in Tasks |-> [task[k] EXCEPT !.live = FALSE]]

-----------------------------------------------------------------------------
(* onOpen and syncAll *)

\* The registry is fatal: without it the connect is rejected, while its socket
\* stays open.
RegistryDone(c, ok) ==
  /\ task[c].item = Registry
  /\ Outcome(c, ok)
  /\ IF ok THEN /\ task' = [task EXCEPT ![c] = Call(@, Chat)]
                /\ UNCHANGED <<reconnects, statusVars>>
           ELSE /\ task' = [task EXCEPT ![c] = Idle]
                /\ Rejected(c)
  /\ UNCHANGED <<socket, client, pendingChat, pendingTiles, timer, refreshing,
                 current, raced>>

ChatDone(c, ok) ==
  /\ task[c].item = Chat
  /\ Outcome(c, ok)
  /\ pendingChat' = ~ok /\ pendingTiles' = <<>>
  /\ task' = [Detached EXCEPT ![c] = NextTile(task[c])]
  /\ raced' = (raced \/ (ok /\ task[c].via # client))
  /\ UNCHANGED <<connVars, timer, refreshing, statusVars, current>>

\* A failed tile is queued, where a live pass will come to it.
Queue(t) == [k \in Tasks |-> IF task[k].live THEN [task[k] EXCEPT !.todo = Append(@, t)]
                             ELSE task[k]]

\* onOpen that waits for every item before it says that it is connected.
AnnounceComplete(c) ==
  /\ status' = IF pendingChat \/ pendingTiles' # <<>> THEN status ELSE "connected"
  /\ belated' = (socket[c] # "open")

\* onOpen does not look whether its connection is still open.
Announce(c) == status' = "connected" /\ belated' = (socket[c] # "open")

\* After the last tile the timer is set and the page told that it is connected.
TileDone(c, ok) ==
  LET t == task[c].item IN
  /\ t \in Tiles
  /\ Outcome(c, ok)
  /\ pendingTiles' = IF ok THEN pendingTiles ELSE Append(pendingTiles, t)
  /\ task' = [(IF ok THEN task ELSE Queue(t)) EXCEPT ![c] = NextTile(task[c])]
  /\ IF task[c].todo = <<>>
       THEN /\ timer' = (timer \/ pendingChat \/ pendingTiles' # <<>>)
            /\ refreshing' = TRUE /\ Announce(c)
       ELSE UNCHANGED <<timer, refreshing, statusVars>>
  /\ UNCHANGED <<connVars, pendingChat, current, raced>>

-----------------------------------------------------------------------------
(* retryPendingSync *)

\* The end of a pass that does not set the timer again.
EndLastPass(p, still, armed) ==
  /\ pendingTiles' = still
  /\ task' = [Detached EXCEPT ![p] = Idle]
  /\ timer' = armed

\* The end of a pass: what failed again becomes what is pending, and the timer
\* is set if that is anything.
EndPass(p, still, armed) ==
  /\ pendingTiles' = still
  /\ task' = [Detached EXCEPT ![p] = Idle]
  /\ timer' = (armed \/ pendingChat' \/ still # <<>>)

\* The loop over the array that is this.pendingTiles when the chat is done with.
LoopTiles(p, armed) ==
  IF pendingTiles = <<>> THEN EndPass(p, <<>>, armed)
  ELSE /\ task' = [task EXCEPT ![p] = NextTile([Idle EXCEPT !.todo = pendingTiles,
                                                           !.live = TRUE])]
       /\ timer' = armed
       /\ UNCHANGED pendingTiles

\* The timer has fired.
StartPass ==
  \E p \in Passes :
  /\ timer /\ ~Busy(p) /\ \A q \in Passes : q < p => Busy(q)
  /\ UNCHANGED pendingChat
  /\ IF pendingChat
       THEN /\ task' = [task EXCEPT ![p] = Call(Idle, Chat)]
            /\ timer' = FALSE
            /\ UNCHANGED pendingTiles
       ELSE LoopTiles(p, FALSE)
  /\ UNCHANGED <<connVars, refreshing, statusVars, subscribed, current, raced>>

PassChatDone(p, ok) ==
  /\ task[p].item = Chat
  /\ Outcome(p, ok)
  /\ pendingChat' = (pendingChat /\ ~ok)
  /\ LoopTiles(p, timer)
  /\ raced' = (raced \/ (ok /\ task[p].via # client))
  /\ UNCHANGED <<connVars, refreshing, statusVars, current>>

PassTileDone(p, ok) ==
  LET t == task[p].item
      still == IF ok THEN task[p].still ELSE Append(task[p].still, t) IN
  /\ t \in Tiles
  /\ Outcome(p, ok)
  /\ UNCHANGED pendingChat
  /\ IF task[p].todo = <<>>
       THEN /\ EndPass(p, still, timer)
            /\ raced' = (raced \/ ~task[p].live)
       ELSE /\ task' = [task EXCEPT ![p] = NextTile([@ EXCEPT !.still = still])]
            /\ UNCHANGED <<pendingTiles, timer, raced>>
  /\ UNCHANGED <<connVars, refreshing, statusVars, current>>

-----------------------------------------------------------------------------
\* A refresh of the tiles alone.
RefreshTiles(i) ==
  /\ refreshing /\ socket[client] = "open" /\ i \in Tiles
  /\ current' = current \cup {i}
  /\ UNCHANGED <<connVars, syncVars, statusVars, subscribed, raced>>

\* refreshAll reads an item again; each one's failure is passed over.
Refresh(i) ==
  /\ refreshing /\ socket[client] = "open"
  /\ current' = current \cup {i}
  /\ UNCHANGED <<connVars, syncVars, statusVars, subscribed, raced>>

\* What a task may do when its call is settled.
Settle(k, ok) ==
  IF k \in Passes THEN PassChatDone(k, ok) \/ PassTileDone(k, ok)
  ELSE RegistryDone(k, ok) \/ ChatDone(k, ok) \/ TileDone(k, ok)

Next ==
  \/ Connect
  \/ \E c \in Conns : Open(c) \/ Close(c)
  \/ \E k \in Tasks : Fetch(k) \/ \E ok \in BOOLEAN : Settle(k, ok)
  \/ StartPass
  \/ \E i \in Items : Refresh(i)

SafeSpec == Init /\ [][Next]_vars

\* Sockets open, timers fire, a call is answered or times out, and whoever keeps
\* calling is answered in the end.
Spec ==
  /\ SafeSpec
  /\ WF_vars(Connect \/ \E c \in Conns : Open(c))
  /\ WF_vars(StartPass)
  /\ \A k \in Tasks : WF_vars(Fetch(k) \/ \E ok \in BOOLEAN : Settle(k, ok))
  /\ SF_vars(\E k \in Tasks : Fetch(k))
  /\ SF_vars(\E k \in Tasks : Settle(k, TRUE))
  /\ \A i \in Items : WF_vars(Refresh(i))

-----------------------------------------------------------------------------
Records == [item : Items \cup {Nothing}, via : Conns \cup {0}, got : BOOLEAN,
            todo : Seq(Tiles), still : Seq(Tiles), live : BOOLEAN]

\* The types; a task that waits does so on a connection that was made.
TypeOK ==
  /\ socket \in [Conns -> {"none", "opening", "open", "closed"}]
  /\ client \in Conns /\ reconnects \in Nat
  /\ task \in [Tasks -> Records]
  /\ \A k \in Tasks : Busy(k) => task[k].via \in 1 .. client
  /\ pendingTiles \in Seq(Tiles) /\ current \subseteq Items
  /\ subscribed \subseteq Items \X Conns
  /\ {pendingChat, timer, refreshing, raced, belated} \subseteq BOOLEAN
  /\ status \in {"connecting", "connected", "reconnecting"}

\* The latest connection is up, none is due, and the page did not fail to start.
Connected ==
  /\ socket[client] = "open" /\ reconnects = 0
  /\ refreshing \/ Busy(client)

\* Nothing is going on in the background and nothing will.
Quiet == Connected /\ ~timer /\ \A k \in Tasks : ~Busy(k)

Listening == \A i \in Items : <<i, client>> \in subscribed

\* "Chat and tiles that fail their initial sync are queued and keep retrying in
\* the background" (backend.ts, before syncAll).
KeepsRetrying == Quiet => Listening

\* They do, however procedures of several connections interleave, unless a pass
\* ends after a syncAll has replaced the array it ran over, or a chat that an
\* older connection subscribed to is taken for one on the latest.
OnlyRacesForget == raced \/ KeepsRetrying

\* Once the connection stays, subscriptions to everything are on it in the end.
UpdatesFlow == <>[]Connected => <>[](raced \/ Listening)

\* And races or not, everything is read again: "re-pulling every subscribed
\* contract ... bounds viewer staleness" (scheduleStateRefresh).
ViewCatchesUp == <>[]Connected => <>[](current = Items)

\* What the page shows of its connection.  Once no onOpen is running, a page that is
\* connected says so, however late those of older connections ended.  And a page that
\* says so has a connection that is open, unless an onOpen said so belatedly, when its
\* own was lost; another connection is then under way, and sets it right.
StatusIsRight ==
  /\ Connected /\ (\A c \in Conns : ~Busy(c)) => status = "connected"
  /\ status = "connected" =>
       \/ \E c \in Conns : socket[c] = "open"
       \/ belated /\ (reconnects > 0 \/ socket[client] = "opening")
=============================================================================
