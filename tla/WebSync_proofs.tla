---------------------------- MODULE WebSync_proofs ----------------------------
(***************************************************************************)
(* For any number of tiles, connections and passes: the types of WebSync,  *)
(* that the page shows the right status of its connection (LatestTells and *)
(* StatusTold),                                                            *)
(* and that no item is forgotten but in a race (SyncInv).                  *)
(***************************************************************************)
EXTENDS WebSync, TLAPS

\* The kinds of items are different, and so are the two kinds of tasks.
LEMMA Kinds ==
  /\ Registry # Chat /\ Registry # Nothing /\ Chat # Nothing
  /\ \A t \in Tiles : t # Registry /\ t # Chat /\ t # Nothing
  /\ Nothing \notin Items
  /\ \A c \in Conns : c \notin Passes
  /\ Conns \subseteq Nat /\ Passes \subseteq Nat /\ 1 \in Conns
BY BoundsAssumption DEF Registry, Chat, Nothing, Tiles, Tile, Items, Conns, Passes

\* Call keeps a record's loop, and waits for the item on the latest connection.
LEMMA CallTyped ==
  ASSUME NEW r \in Records, NEW i \in Items, client \in Conns
  PROVE  /\ Call(r, i) \in Records
         /\ Call(r, i).item = i /\ Call(r, i).via = client
         /\ Call(r, i).todo = r.todo
BY DEF Call, Records

\* The idle task is a record.
LEMMA IdleTyped == Idle \in Records /\ Idle.item = Nothing /\ Idle.todo = <<>>
BY DEF Idle, Records

\* So is one that starts with a loop.
LEMMA LoopTyped ==
  ASSUME NEW s \in Seq(Tiles), NEW b \in BOOLEAN
  PROVE  /\ [Idle EXCEPT !.todo = s] \in Records
         /\ [Idle EXCEPT !.todo = s, !.live = b] \in Records
         /\ [Idle EXCEPT !.todo = s].todo = s
BY IdleTyped DEF Records

\* The list of tiles is a sequence of them, with at least one.
LEMMA TileListTyped == TileList \in Seq(Tiles) /\ TileList # <<>>
<1>1. \A n \in 1 .. NumTiles : Tile(n) \in Tiles
  BY DEF Tiles
<1>2. NumTiles \in Nat /\ NumTiles > 0
  BY BoundsAssumption
<1>3. TileList \in [1 .. NumTiles -> Tiles]
  BY <1>1 DEF TileList
<1>4. TileList \in Seq(Tiles)
  BY <1>2, <1>3
<1>5. Len(TileList) = NumTiles
  BY <1>2, <1>3
<1> QED
  BY <1>2, <1>4, <1>5

\* After an item a task either ends or waits for a tile on the latest connection.
LEMMA NextTileTyped ==
  ASSUME NEW r \in Records, client \in Conns
  PROVE  /\ NextTile(r) \in Records
         /\ r.todo = <<>> => NextTile(r).item = Nothing
         /\ r.todo # <<>> => NextTile(r).item \in Tiles /\ NextTile(r).via = client
<1>1. CASE r.todo = <<>>
  BY <1>1, IdleTyped DEF NextTile
<1>2. CASE r.todo # <<>>
  <2>1. r.todo \in Seq(Tiles)
    BY DEF Records
  <2>2. Head(r.todo) \in Tiles /\ Tail(r.todo) \in Seq(Tiles)
    BY <1>2, <2>1
  <2>3. [r EXCEPT !.todo = Tail(@)] \in Records
    BY <2>2 DEF Records
  <2>4. Head(r.todo) \in Items
    BY <2>2 DEF Items
  <2>5. NextTile(r) = Call([r EXCEPT !.todo = Tail(@)], Head(r.todo))
    BY <1>2 DEF NextTile
  <2> QED
    BY <1>2, <2>2, <2>3, <2>4, <2>5, CallTyped
<1> QED
  BY <1>1, <1>2

\* Taking the array away from a pass changes nothing else of the tasks.
LEMMA DetachedTyped ==
  ASSUME task \in [Tasks -> Records]
  PROVE  /\ Detached \in [Tasks -> Records]
         /\ \A k \in Tasks : /\ Detached[k].item = task[k].item
                             /\ Detached[k].via = task[k].via
                             /\ Detached[k].todo = task[k].todo
BY DEF Detached, Records

\* Nor does queueing a tile, but that there is more to do.
LEMMA QueueTyped ==
  ASSUME task \in [Tasks -> Records], NEW t \in Tiles
  PROVE  /\ Queue(t) \in [Tasks -> Records]
         /\ \A k \in Tasks : /\ Queue(t)[k].item = task[k].item
                             /\ Queue(t)[k].via = task[k].via
                             /\ task[k].todo # <<>> => Queue(t)[k].todo # <<>>
<1> SUFFICES ASSUME NEW k \in Tasks
             PROVE  /\ Queue(t)[k] \in Records
                    /\ Queue(t)[k].item = task[k].item
                    /\ Queue(t)[k].via = task[k].via
                    /\ task[k].todo # <<>> => Queue(t)[k].todo # <<>>
  BY DEF Queue
<1>1. task[k] \in Records /\ task[k].todo \in Seq(Tiles)
  BY DEF Records
<1>2. Append(task[k].todo, t) \in Seq(Tiles) /\ Append(task[k].todo, t) # <<>>
  BY <1>1
<1>3. Queue(t)[k] = IF task[k].live THEN [task[k] EXCEPT !.todo = Append(@, t)] ELSE task[k]
  BY DEF Queue
<1> QED
  BY <1>1, <1>2, <1>3 DEF Records

-----------------------------------------------------------------------------
\* The tasks as TypeOK has them.
TasksOK ==
  /\ task \in [Tasks -> Records]
  /\ \A k \in Tasks : Busy(k) => task[k].via \in 1 .. client

\* TypeOK without the tasks.
RestOK ==
  /\ socket \in [Conns -> {"none", "opening", "open", "closed"}]
  /\ client \in Conns /\ reconnects \in Nat
  /\ pendingTiles \in Seq(Tiles) /\ current \subseteq Items
  /\ subscribed \subseteq Items \X Conns
  /\ pendingChat \in BOOLEAN /\ timer \in BOOLEAN
  /\ refreshing \in BOOLEAN /\ raced \in BOOLEAN /\ belated \in BOOLEAN
  /\ status \in {"connecting", "connected", "reconnecting"}

\* Together they are TypeOK, after a step.
LEMMA TypeParts == TasksOK' /\ RestOK' => TypeOK'
BY DEF TypeOK, TasksOK, RestOK

\* A step that changes a single task, of tasks that are as they should be, leaves
\* them so.
LEMMA OneTask ==
  ASSUME NEW base \in [Tasks -> Records], NEW k \in Tasks, NEW r \in Records,
         \A j \in Tasks : base[j].item # Nothing => base[j].via \in 1 .. client,
         r.item # Nothing => r.via \in 1 .. client,
         task' = [base EXCEPT ![k] = r], UNCHANGED client
  PROVE  TasksOK'
<1>1. task' \in [Tasks -> Records]
  OBVIOUS
<1>2. ASSUME NEW j \in Tasks, task'[j].item # Nothing
      PROVE  task'[j].via \in 1 .. client'
  <2>1. CASE j = k
    BY <1>2, <2>1
  <2>2. CASE j # k
    BY <1>2, <2>2
  <2> QED
    BY <2>1, <2>2
<1> QED
  BY <1>1, <1>2 DEF TasksOK, Busy

\* A connection that was made is one to wait on.
LEMMA ClientMade == client \in Conns => client \in 1 .. client
BY DEF Conns

\* A task that makes a call.
LEMMA TaskCalls ==
  ASSUME TypeOK, NEW k \in Tasks, NEW r \in Records, NEW i \in Items,
         task' = [task EXCEPT ![k] = Call(r, i)], UNCHANGED client
  PROVE  TasksOK'
BY CallTyped, OneTask, ClientMade DEF TypeOK, Busy

\* A task that goes on to its next tile, or has none left.
LEMMA TaskGoesOn ==
  ASSUME TypeOK, NEW k \in Tasks, NEW r \in Records, NEW t \in Tiles,
         NEW base \in {task, Detached, Queue(t)},
         task' = [base EXCEPT ![k] = NextTile(r)], UNCHANGED client
  PROVE  TasksOK'
<1>1. base \in [Tasks -> Records]
  BY DetachedTyped, QueueTyped DEF TypeOK
<1>2. \A j \in Tasks : base[j].item = task[j].item /\ base[j].via = task[j].via
  BY DetachedTyped, QueueTyped DEF TypeOK
<1>3. NextTile(r) \in Records
      /\ (NextTile(r).item # Nothing => NextTile(r).via \in 1 .. client)
  BY NextTileTyped, ClientMade DEF TypeOK
<1> QED
  BY <1>1, <1>2, <1>3, OneTask DEF TypeOK, Busy

\* A task that ends.
LEMMA TaskEnds ==
  ASSUME TypeOK, NEW k \in Tasks, NEW base \in {task, Detached},
         task' = [base EXCEPT ![k] = Idle], UNCHANGED client
  PROVE  TasksOK'
<1>1. base \in [Tasks -> Records]
  BY DetachedTyped DEF TypeOK
<1>2. \A j \in Tasks : base[j].item = task[j].item /\ base[j].via = task[j].via
  BY DetachedTyped DEF TypeOK
<1> QED
  BY <1>1, <1>2, IdleTyped, OneTask DEF TypeOK, Busy

\* What was subscribed to is an item, on a connection that was made.
LEMMA OutcomeTyped ==
  ASSUME TypeOK, NEW k \in Tasks, NEW ok \in BOOLEAN, Busy(k), Outcome(k, ok)
  PROVE  subscribed' \subseteq Items \X Conns
<1>1. task[k].item \in Items /\ task[k].via \in 1 .. client
  BY DEF TypeOK, Records, Busy
<1>2. task[k].via \in Conns
  <2>1. client \in 1 .. MaxConns /\ MaxConns \in Nat
    BY BoundsAssumption DEF TypeOK, Conns
  <2> QED
    BY <1>1, <2>1 DEF Conns
<1>3. subscribed \subseteq Items \X Conns
  BY DEF TypeOK
<1> QED
  BY <1>1, <1>2, <1>3 DEF Outcome

-----------------------------------------------------------------------------
\* A connection being made leaves the types as they are.
LEMMA ConnectTyped ==
  ASSUME TypeOK, Connect
  PROVE  TypeOK'
<1>1. client' \in Conns /\ reconnects' \in Nat /\ client \in 1 .. client'
  BY BoundsAssumption DEF TypeOK, Connect, Conns
<1>2. TasksOK'
  <2> SUFFICES ASSUME NEW k \in Tasks, Busy(k)
               PROVE  task[k].via \in 1 .. client'
    BY DEF TypeOK, TasksOK, Connect, syncVars, Busy
  <2>1. task[k].via \in 1 .. client
    BY DEF TypeOK
  <2>2. client \in Nat /\ client' = client + 1
    BY Kinds DEF TypeOK, Connect
  <2> QED
    BY <2>1, <2>2
<1>3. RestOK'
  BY <1>1 DEF TypeOK, RestOK, Connect, syncVars, statusVars
<1> QED
  BY <1>2, <1>3, TypeParts

\* So does one that opens, or closes.
LEMMA OpenCloseTyped ==
  ASSUME TypeOK, NEW c \in Conns, Open(c) \/ Close(c)
  PROVE  TypeOK'
<1>0. c \in Tasks
  BY DEF Tasks
<1>1. CASE Open(c)
  <2>1. [Idle EXCEPT !.todo = TileList] \in Records
    BY TileListTyped, LoopTyped
  <2>2. Registry \in Items
    BY DEF Items
  <2>3. TasksOK'
    BY <1>0, <1>1, <2>1, <2>2, TaskCalls DEF Open
  <2>4. RestOK'
    BY <1>1 DEF TypeOK, RestOK, Open, statusVars
  <2> QED
    BY <2>3, <2>4, TypeParts
<1>2. CASE Close(c)
  <2>0. belated' \in BOOLEAN
    BY <1>2, Zenon DEF TypeOK, Close, Rejected, ScheduleReconnect, statusVars
  <2>1. reconnects' \in Nat /\ status' \in {"connecting", "connected", "reconnecting"}
    BY <1>2 DEF TypeOK, Close, Rejected, ScheduleReconnect, statusVars
  <2>2. TasksOK'
    BY <1>2 DEF TypeOK, TasksOK, Close, syncVars, Busy
  <2>3. RestOK'
    BY <1>2, <2>0, <2>1 DEF TypeOK, RestOK, Close, syncVars
  <2> QED
    BY <2>2, <2>3, TypeParts
<1> QED
  BY <1>1, <1>2

\* A fetch leaves its task on the latest connection.
LEMMA FetchTyped ==
  ASSUME TypeOK, NEW k \in Tasks, Fetch(k)
  PROVE  TypeOK'
<1>1. task[k] \in Records /\ task[k].item \in Items
  BY DEF TypeOK, Records, Busy, Fetch
<1> DEFINE r == [task[k] EXCEPT !.got = TRUE, !.via = client]
<1>3. r \in Records /\ r.via = client
  BY <1>1 DEF TypeOK, Records
<1>4. task' = [task EXCEPT ![k] = r]
  BY DEF Fetch
<1>5. TasksOK'
  <2> HIDE DEF r
  <2> QED
    BY <1>3, <1>4, OneTask, ClientMade DEF TypeOK, Busy, Fetch, connVars
<1>6. RestOK'
  BY <1>1 DEF TypeOK, RestOK, Fetch, connVars, statusVars
<1> QED
  BY <1>5, <1>6, TypeParts

\* There is a tile.
LEMMA TileOne == Tile(1) \in Tiles
BY BoundsAssumption DEF Tiles

\* The done actions of a connection's onOpen and syncAll.
LEMMA SyncTyped ==
  ASSUME TypeOK, NEW c \in Conns, NEW ok \in BOOLEAN,
         RegistryDone(c, ok) \/ ChatDone(c, ok) \/ TileDone(c, ok)
  PROVE  TypeOK'
<1>1. c \in Tasks /\ task[c] \in Records
  BY DEF TypeOK, Tasks
<1>2. CASE RegistryDone(c, ok)
  <2>1. Busy(c) /\ Outcome(c, ok)
    BY <1>2, Kinds DEF RegistryDone, Busy
  <2>2. subscribed' \subseteq Items \X Conns
    BY <1>1, <2>1, OutcomeTyped
  <2>3. CASE ok
    <3>1. task' = [task EXCEPT ![c] = Call(task[c], Chat)]
      BY <1>2, <2>3 DEF RegistryDone
    <3>2. TasksOK'
      BY <1>1, <1>2, <3>1, TaskCalls DEF RegistryDone, Items
    <3>3. RestOK'
      BY <1>2, <2>2, <2>3 DEF TypeOK, RestOK, RegistryDone, statusVars
    <3> QED
      BY <3>2, <3>3, TypeParts
  <2>4. CASE ~ok
    <3>1. TasksOK'
      BY <1>1, <1>2, <2>4, TaskEnds DEF RegistryDone
    <3>0. belated' \in BOOLEAN
      BY <1>2, <2>4, Zenon DEF TypeOK, RegistryDone, Rejected, ScheduleReconnect, statusVars
    <3>2. reconnects' \in Nat /\ status' \in {"connecting", "connected", "reconnecting"}
      BY <1>2, <2>4 DEF TypeOK, RegistryDone, Rejected, ScheduleReconnect, statusVars
    <3>3. RestOK'
      BY <1>2, <2>2, <3>0, <3>2 DEF TypeOK, RestOK, RegistryDone
    <3> QED
      BY <3>1, <3>3, TypeParts
  <2> QED
    BY <2>3, <2>4
<1>3. CASE ChatDone(c, ok)
  <2>1. Busy(c) /\ Outcome(c, ok)
    BY <1>3, Kinds DEF ChatDone, Busy
  <2>2. subscribed' \subseteq Items \X Conns
    BY <1>1, <2>1, OutcomeTyped
  <2>3. TasksOK'
    BY <1>1, <1>3, TileOne, TaskGoesOn DEF ChatDone, connVars
  <2>4. pendingTiles' \in Seq(Tiles) /\ pendingChat' \in BOOLEAN
    BY <1>3 DEF ChatDone
  <2>5. raced' \in BOOLEAN
    BY <1>3 DEF ChatDone, TypeOK
  <2>6. RestOK'
    BY <1>3, <2>2, <2>4, <2>5 DEF TypeOK, RestOK, ChatDone, connVars, statusVars
  <2> QED
    BY <2>3, <2>6, TypeParts
<1>4. CASE TileDone(c, ok)
  <2> DEFINE t == task[c].item
  <2>1. t \in Tiles /\ Busy(c) /\ Outcome(c, ok)
    BY <1>4, Kinds DEF TileDone, Busy
  <2>2. subscribed' \subseteq Items \X Conns
    BY <1>1, <2>1, OutcomeTyped
  <2>3. TasksOK'
    BY <1>1, <1>4, <2>1, TaskGoesOn DEF TileDone, connVars
  <2>4. pendingTiles' \in Seq(Tiles)
    BY <1>4, <2>1 DEF TypeOK, TileDone
  <2>5. /\ timer' \in BOOLEAN /\ refreshing' \in BOOLEAN
        /\ status' \in {"connecting", "connected", "reconnecting"} /\ belated' \in BOOLEAN
    BY <1>4 DEF TypeOK, TileDone, Announce, statusVars
  <2>6. RestOK'
    BY <1>4, <2>2, <2>4, <2>5 DEF TypeOK, RestOK, TileDone, connVars
  <2> QED
    BY <2>3, <2>6, TypeParts
<1> QED
  BY <1>2, <1>3, <1>4

\* The end of a pass.
LEMMA EndPassTyped ==
  ASSUME TypeOK, NEW p \in Passes, NEW s \in Seq(Tiles), NEW a \in BOOLEAN,
         EndPass(p, s, a), pendingChat' \in BOOLEAN, UNCHANGED client
  PROVE  TasksOK' /\ pendingTiles' \in Seq(Tiles) /\ timer' \in BOOLEAN
<1>1. p \in Tasks
  BY DEF Tasks
<1>2. TasksOK'
  BY <1>1, TaskEnds DEF EndPass
<1> QED
  BY <1>2 DEF EndPass

\* The start of a pass over the tiles.
LEMMA LoopTilesTyped ==
  ASSUME TypeOK, NEW p \in Passes, NEW a \in BOOLEAN,
         LoopTiles(p, a), pendingChat' \in BOOLEAN, UNCHANGED client
  PROVE  TasksOK' /\ pendingTiles' \in Seq(Tiles) /\ timer' \in BOOLEAN
<1>1. CASE pendingTiles = <<>>
  <2>1. EndPass(p, <<>>, a)
    BY <1>1 DEF LoopTiles
  <2>2. <<>> \in Seq(Tiles)
    OBVIOUS
  <2> QED
    BY <2>1, <2>2, EndPassTyped
<1>2. CASE pendingTiles # <<>>
  <2> DEFINE r == [Idle EXCEPT !.todo = pendingTiles, !.live = TRUE]
  <2>1. p \in Tasks /\ pendingTiles \in Seq(Tiles)
    BY DEF TypeOK, Tasks
  <2>2. r \in Records
    BY <2>1, LoopTyped
  <2>3. /\ task' = [task EXCEPT ![p] = NextTile(r)]
        /\ timer' = a /\ UNCHANGED pendingTiles
    BY <1>2 DEF LoopTiles
  <2>4. TasksOK'
    <3> HIDE DEF r
    <3> QED
      BY <2>1, <2>2, <2>3, TileOne, TaskGoesOn
  <2>5. timer' = a /\ pendingTiles' = pendingTiles
    BY <2>3
  <2>6. timer' \in BOOLEAN
    BY <2>5, Zenon
  <2>7. pendingTiles' \in Seq(Tiles)
    BY <2>1, <2>5
  <2> QED
    BY <2>4, <2>6, <2>7
<1> QED
  BY <1>1, <1>2

\* The actions of a pass.
LEMMA PassTyped ==
  ASSUME TypeOK, NEW p \in Passes, NEW ok \in BOOLEAN,
         PassChatDone(p, ok) \/ PassTileDone(p, ok)
  PROVE  TypeOK'
<1>1. p \in Tasks /\ task[p] \in Records
  BY DEF TypeOK, Tasks
<1>2. CASE PassChatDone(p, ok)
  <2>1. Busy(p) /\ Outcome(p, ok)
    BY <1>2, Kinds DEF PassChatDone, Busy
  <2>2. subscribed' \subseteq Items \X Conns
    BY <1>1, <2>1, OutcomeTyped
  <2>3. pendingChat' \in BOOLEAN /\ raced' \in BOOLEAN /\ timer \in BOOLEAN
    BY <1>2 DEF TypeOK, PassChatDone
  <2>4. TasksOK' /\ pendingTiles' \in Seq(Tiles) /\ timer' \in BOOLEAN
    BY <1>2, <2>3, LoopTilesTyped DEF PassChatDone, connVars
  <2>5. RestOK'
    BY <1>2, <2>2, <2>3, <2>4 DEF TypeOK, RestOK, PassChatDone, connVars, statusVars
  <2> QED
    BY <2>4, <2>5, TypeParts
<1>3. CASE PassTileDone(p, ok)
  <2> DEFINE s == IF ok THEN task[p].still ELSE Append(task[p].still, task[p].item)
             r == [task[p] EXCEPT !.still = s]
  <2>1. task[p].item \in Tiles /\ Busy(p) /\ Outcome(p, ok)
    BY <1>3, Kinds DEF PassTileDone, Busy
  <2>2. subscribed' \subseteq Items \X Conns
    BY <1>1, <2>1, OutcomeTyped
  <2>3. s \in Seq(Tiles)
    BY <1>1, <2>1 DEF Records
  <2>4. raced' \in BOOLEAN
    BY <1>3 DEF TypeOK, PassTileDone
  <2>5. TasksOK' /\ pendingTiles' \in Seq(Tiles) /\ timer' \in BOOLEAN
    <3>1. CASE task[p].todo = <<>>
      <4>1. EndPass(p, s, timer)
        BY <1>3, <3>1 DEF PassTileDone
      <4>2. pendingChat' \in BOOLEAN /\ timer \in BOOLEAN
        BY <1>3 DEF TypeOK, PassTileDone
      <4> HIDE DEF s
      <4> QED
        BY <1>3, <2>3, <4>1, <4>2, EndPassTyped DEF PassTileDone, connVars
    <3>2. CASE task[p].todo # <<>>
      <4>1. task' = [task EXCEPT ![p] = NextTile(r)] /\ UNCHANGED <<pendingTiles, timer>>
        BY <1>1, <1>3, <3>2 DEF PassTileDone, TypeOK
      <4>2. r \in Records
        BY <1>1, <2>3 DEF Records
      <4>3. TasksOK'
        <5> HIDE DEF r
        <5> QED
          BY <1>1, <1>3, <4>1, <4>2, TileOne, TaskGoesOn DEF PassTileDone, connVars
      <4> QED
        BY <4>1, <4>3 DEF TypeOK
    <3> QED
      BY <3>1, <3>2
  <2>6. RestOK'
    BY <1>3, <2>2, <2>4, <2>5 DEF TypeOK, RestOK, PassTileDone, connVars, statusVars
  <2> QED
    BY <2>5, <2>6, TypeParts
<1> QED
  BY <1>2, <1>3

\* A pass that starts.
LEMMA StartTyped ==
  ASSUME TypeOK, StartPass
  PROVE  TypeOK'
<1>1. PICK p \in Passes :
        /\ UNCHANGED pendingChat
        /\ IF pendingChat
             THEN /\ task' = [task EXCEPT ![p] = Call(Idle, Chat)]
                  /\ timer' = FALSE
                  /\ UNCHANGED pendingTiles
             ELSE LoopTiles(p, FALSE)
  BY DEF StartPass
<1>2. p \in Tasks /\ Chat \in Items /\ UNCHANGED client
  BY DEF Tasks, Items, StartPass, connVars
<1>3. TasksOK' /\ pendingTiles' \in Seq(Tiles) /\ timer' \in BOOLEAN
  <2>1. CASE pendingChat
    BY <1>1, <1>2, <2>1, IdleTyped, TaskCalls DEF TypeOK
  <2>2. CASE ~pendingChat
    <3>1. LoopTiles(p, FALSE) /\ pendingChat' \in BOOLEAN
      BY <1>1, <2>2 DEF TypeOK
    <3> QED
      BY <1>2, <3>1, LoopTilesTyped
  <2> QED
    BY <2>1, <2>2
<1>4. RestOK'
  BY <1>3 DEF TypeOK, RestOK, StartPass, connVars, statusVars
<1> QED
  BY <1>3, <1>4, TypeParts

\* The types are right at the start.
LEMMA TypeInit == Init => TypeOK
<1> SUFFICES ASSUME Init PROVE TypeOK
  OBVIOUS
<1>1. \A k \in Tasks : ~Busy(k)
  BY IdleTyped DEF Init, Busy
<1>2. task \in [Tasks -> Records]
  BY IdleTyped DEF Init
<1>3. /\ socket \in [Conns -> {"none", "opening", "open", "closed"}]
      /\ client \in Conns /\ reconnects \in Nat
      /\ status \in {"connecting", "connected", "reconnecting"}
  BY Kinds DEF Init
<1>4. /\ pendingTiles \in Seq(Tiles) /\ current \subseteq Items
      /\ subscribed \subseteq Items \X Conns
  BY DEF Init
<1>5. {pendingChat, timer, refreshing, raced, belated} \subseteq BOOLEAN
  BY DEF Init
<1> QED
  BY <1>1, <1>2, <1>3, <1>4, <1>5 DEF TypeOK

\* The types are right after every step.
LEMMA TypeStep == TypeOK /\ [Next]_vars => TypeOK'
<1> SUFFICES ASSUME TypeOK, [Next]_vars PROVE TypeOK'
  OBVIOUS
<1>1. CASE Connect
  BY <1>1, ConnectTyped
<1>2. ASSUME NEW c \in Conns, Open(c) \/ Close(c) PROVE TypeOK'
  BY <1>2, OpenCloseTyped
<1>3. ASSUME NEW k \in Tasks, Fetch(k) PROVE TypeOK'
  BY <1>3, FetchTyped
<1>4. ASSUME NEW k \in Tasks, NEW ok \in BOOLEAN, Settle(k, ok) PROVE TypeOK'
  BY <1>4, PassTyped, SyncTyped DEF Settle, Tasks
<1>5. CASE StartPass
  BY <1>5, StartTyped
<1>6. ASSUME NEW i \in Items, Refresh(i) PROVE TypeOK'
  BY <1>6 DEF TypeOK, Refresh, connVars, syncVars, statusVars, Busy
<1>7. CASE UNCHANGED vars
  BY <1>7 DEF TypeOK, vars, connVars, syncVars, statusVars, Busy
<1> QED
  BY <1>1, <1>2, <1>3, <1>4, <1>5, <1>6, <1>7 DEF Next

\* Every procedure waits for an item on a connection that was made, and has only
\* tiles left to do, in whatever order procedures interleave.
THEOREM TypeCorrect == SafeSpec => []TypeOK
<1> QED
  BY TypeInit, TypeStep, PTL DEF SafeSpec

-----------------------------------------------------------------------------
\* Why the latest connection has the last word on the status.  Until it is open
\* nothing runs on it, and once it is its onOpen runs, which never ends quietly:
\* after the registry there is always a tile to come, and the last one announces
\* the connection.  Without it a reconnection is due, but for the connection of
\* start(), where refreshing tells that its onOpen ever got to its end.
LatestTells ==
  /\ \A c \in Conns : c > client => socket[c] = "none"
  /\ \A c \in Conns : socket[c] \in {"none", "opening"} => ~Busy(c)
  /\ \A c \in Conns : task[c].item \in {Registry, Chat} => task[c].todo # <<>>
  /\ client = 1 /\ (socket[1] = "opening" \/ Busy(1)) => ~refreshing
  /\ socket[client] = "open" /\ reconnects = 0 /\ ~Busy(client)
       /\ (refreshing \/ client # 1) => status = "connected"


\* It is about the tasks of connections, and of those only about what they wait
\* for and whether tiles are left.
LEMMA OthersPreserve ==
  ASSUME TypeOK, LatestTells, UNCHANGED <<connVars, refreshing, statusVars>>,
         \A c \in Conns : /\ task'[c].item = task[c].item
                          /\ task[c].todo # <<>> => task'[c].todo # <<>>
  PROVE  LatestTells'
<1>1. 1 \in Conns /\ client \in Conns
  BY Kinds DEF TypeOK
<1>2. \A c \in Conns : Busy(c)' <=> Busy(c)
  BY DEF Busy
<1> QED
  BY <1>1, <1>2 DEF LatestTells, connVars, statusVars

\* A task of a connection that runs is on one that was made and is open, or was;
\* with a single connection made, it is that one.
LEMMA OnlyOne ==
  ASSUME TypeOK, LatestTells, NEW c \in Conns, Busy(c) \/ socket[c] = "opening"
  PROVE  c <= client /\ (client = 1 => c = 1)
<1>1. c \in Nat /\ client \in Nat /\ c > 0
  BY DEF TypeOK, Conns
<1>2. ~(c > client)
  BY DEF LatestTells
<1> QED
  BY <1>1, <1>2

\* A connection that is made is not open yet.
LEMMA ConnectTells ==
  ASSUME TypeOK, LatestTells, Connect
  PROVE  LatestTells'
<1>1. /\ client \in Nat /\ client' = client + 1 /\ client' \in Conns
      /\ client # 0 /\ UNCHANGED <<task, refreshing>>
  BY BoundsAssumption DEF TypeOK, Connect, Conns, syncVars
<1>2. socket' = [socket EXCEPT ![client'] = "opening"] /\ socket \in [Conns -> {"none", "opening", "open", "closed"}]
  BY DEF TypeOK, Connect
<1>3. \A c \in Conns : c > client' => socket'[c] = "none"
  BY <1>1, <1>2, Kinds DEF LatestTells
<1>4. \A c \in Conns : socket'[c] \in {"none", "opening"} => ~Busy(c)'
  <2>1. ~Busy(client')
    BY <1>1 DEF LatestTells
  <2> QED
    BY <1>1, <1>2, <2>1 DEF LatestTells, Busy
<1>5. \A c \in Conns : task'[c].item \in {Registry, Chat} => task'[c].todo # <<>>
  BY <1>1 DEF LatestTells
<1>6. client' # 1
  BY <1>1
<1>7. socket'[client'] # "open"
  BY <1>1, <1>2
<1> QED
  BY <1>3, <1>4, <1>5, <1>6, <1>7 DEF LatestTells

\* One that opens has its onOpen running.
LEMMA OpenTells ==
  ASSUME TypeOK, LatestTells, NEW c \in Conns, Open(c)
  PROVE  LatestTells'
<1> DEFINE r == [Idle EXCEPT !.todo = TileList]
<1>1. r \in Records /\ r.todo = TileList
  BY TileListTyped, LoopTyped
<1>2. /\ Call(r, Registry).item = Registry
      /\ Call(r, Registry).todo # <<>>
  <2> HIDE DEF r
  <2> QED
    BY <1>1, CallTyped, TileListTyped DEF TypeOK, Items
<1>3. /\ socket[c] = "opening" /\ socket' = [socket EXCEPT ![c] = "open"]
      /\ task' = [task EXCEPT ![c] = Call(r, Registry)]
      /\ UNCHANGED <<client, reconnects, refreshing, statusVars>>
  BY DEF Open
<1>4. /\ socket \in [Conns -> {"none", "opening", "open", "closed"}]
      /\ task \in [Tasks -> Records] /\ Conns \subseteq Tasks
      /\ client \in Conns
  BY DEF TypeOK, Tasks
<1> HIDE DEF r
<1>5. Busy(c)' /\ \A d \in Conns : d # c => (Busy(d)' <=> Busy(d)) /\ task'[d] = task[d]
  BY <1>2, <1>3, <1>4, Kinds DEF Busy
<1>6. \A d \in Conns : d > client' => socket'[d] = "none"
  BY <1>3, <1>4, OnlyOne, Kinds DEF LatestTells
<1>7. \A d \in Conns : socket'[d] \in {"none", "opening"} => ~Busy(d)'
  BY <1>3, <1>4, <1>5 DEF LatestTells
<1>8. \A d \in Conns : task'[d].item \in {Registry, Chat} => task'[d].todo # <<>>
  BY <1>2, <1>3, <1>4, <1>5 DEF LatestTells
<1>9. client' = 1 => ~refreshing'
  BY <1>3, OnlyOne DEF LatestTells
<1>10. socket'[client'] = "open" /\ reconnects' = 0 /\ ~Busy(client)'
         /\ (refreshing' \/ client' # 1) => status' = "connected"
  BY <1>3, <1>4, <1>5 DEF LatestTells, statusVars
<1> QED
  BY <1>6, <1>7, <1>8, <1>9, <1>10 DEF LatestTells, Busy

\* Unless it is the first, rejecting a connect makes a reconnection due.
LEMMA RejectedTells ==
  ASSUME TypeOK, NEW c \in Conns, Rejected(c)
  PROVE  \/ c = 1 /\ UNCHANGED <<reconnects, statusVars>>
         \/ c # 1 /\ reconnects' # 0
BY DEF TypeOK, Rejected, ScheduleReconnect

\* One that closes is not open any more; if it is not the latest, either nothing
\* changes for that one or a reconnection is due.
LEMMA CloseTells ==
  ASSUME TypeOK, LatestTells, NEW c \in Conns, Close(c)
  PROVE  LatestTells'
<1>1. /\ socket' = [socket EXCEPT ![c] = "closed"] /\ socket[c] # "none"
      /\ UNCHANGED <<client, task, refreshing>>
      /\ socket \in [Conns -> {"none", "opening", "open", "closed"}]
      /\ client \in Conns /\ 1 \in Conns
  BY Kinds DEF TypeOK, Close, syncVars
<1>2. reconnects' # 0 \/ UNCHANGED <<reconnects, statusVars>>
  BY RejectedTells DEF TypeOK, Close, ScheduleReconnect
<1>3. \A d \in Conns : Busy(d)' <=> Busy(d)
  BY <1>1 DEF Busy
<1>4. \A d \in Conns : d > client' => socket'[d] = "none"
  BY <1>1 DEF LatestTells
<1>5. \A d \in Conns : socket'[d] \in {"none", "opening"} => ~Busy(d)'
  BY <1>1, <1>3 DEF LatestTells
<1>6. \A d \in Conns : task'[d].item \in {Registry, Chat} => task'[d].todo # <<>>
  BY <1>1 DEF LatestTells
<1>7. client' = 1 /\ (socket'[1] = "opening" \/ Busy(1)') => ~refreshing'
  BY <1>1, <1>3 DEF LatestTells
<1>8. socket'[client'] = "open" /\ reconnects' = 0 /\ ~Busy(client)'
         /\ (refreshing' \/ client' # 1) => status' = "connected"
  BY <1>1, <1>2, <1>3 DEF LatestTells, statusVars
<1> QED
  BY <1>4, <1>5, <1>6, <1>7, <1>8 DEF LatestTells

\* A step of an onOpen that goes on with something else is one of the steps that
\* change nothing about connections, as long as a tile is left for after the chat.
LEMMA GoesOnTells ==
  ASSUME TypeOK, LatestTells, NEW c \in Conns, Busy(c), Busy(c)',
         task'[c].item \in {Registry, Chat} => task'[c].todo # <<>>,
         UNCHANGED <<connVars, refreshing, statusVars>>,
         \A d \in Conns : d # c =>
            /\ task'[d].item = task[d].item
            /\ task[d].todo # <<>> => task'[d].todo # <<>>
  PROVE  LatestTells'
<1>1. 1 \in Conns /\ client \in Conns
  BY Kinds DEF TypeOK
<1>2. \A d \in Conns : Busy(d)' <=> Busy(d)
  BY DEF Busy
<1>3. \A d \in Conns : task'[d].item \in {Registry, Chat} => task'[d].todo # <<>>
  BY DEF LatestTells
<1> QED
  BY <1>1, <1>2, <1>3 DEF LatestTells, connVars, statusVars

\* Without the registry onOpen ends, and the page does not claim to be connected.
LEMMA RegistryTells ==
  ASSUME TypeOK, LatestTells, NEW c \in Conns, NEW ok \in BOOLEAN,
         RegistryDone(c, ok)
  PROVE  LatestTells'
<1>1. /\ c \in Tasks /\ task[c] \in Records /\ Busy(c) /\ task[c].todo # <<>>
      /\ task \in [Tasks -> Records] /\ client \in Conns /\ Conns \subseteq Tasks
  BY Kinds DEF TypeOK, Tasks, RegistryDone, Busy, LatestTells
<1>2. CASE ok
  <2>1. /\ task' = [task EXCEPT ![c] = Call(task[c], Chat)]
        /\ UNCHANGED <<connVars, refreshing, statusVars>>
    BY <1>2 DEF RegistryDone, connVars
  <2>2. Call(task[c], Chat).item = Chat /\ Call(task[c], Chat).todo # <<>>
    BY <1>1, CallTyped DEF Items
  <2>3. Busy(c)' /\ task'[c].todo # <<>>
    BY <1>1, <2>1, <2>2, Kinds DEF Busy
  <2>4. \A d \in Conns : d # c => task'[d] = task[d]
    BY <1>1, <2>1
  <2> QED
    BY <1>1, <2>1, <2>3, <2>4, GoesOnTells
<1>3. CASE ~ok
  <2>1. /\ task' = [task EXCEPT ![c] = Idle] /\ Rejected(c)
        /\ UNCHANGED <<socket, client, refreshing>>
    BY <1>3 DEF RegistryDone
  <2>2. \/ c = 1 /\ UNCHANGED <<reconnects, statusVars>>
        \/ c # 1 /\ reconnects' # 0
    BY <2>1, RejectedTells
  <2>3. ~Busy(c)' /\ task'[c].item = Nothing
    BY <1>1, <2>1, IdleTyped DEF Busy
  <2>4. \A d \in Conns : d # c => task'[d] = task[d] /\ (Busy(d)' <=> Busy(d))
    BY <1>1, <2>1 DEF Busy
  <2>5. c <= client /\ (client = 1 => c = 1)
    BY <1>1, OnlyOne
  <2>6. \A d \in Conns : d > client' => socket'[d] = "none"
    BY <2>1 DEF LatestTells
  <2>7. \A d \in Conns : socket'[d] \in {"none", "opening"} => ~Busy(d)'
    BY <2>1, <2>3, <2>4 DEF LatestTells
  <2>8. \A d \in Conns : task'[d].item \in {Registry, Chat} => task'[d].todo # <<>>
    BY <2>3, <2>4, Kinds DEF LatestTells
  <2>9. client' = 1 => ~refreshing'
    BY <1>1, <2>1, <2>5 DEF LatestTells
  <2>10. socket'[client'] = "open" /\ reconnects' = 0 /\ ~Busy(client)'
           /\ (refreshing' \/ client' # 1) => status' = "connected"
    <3>1. CASE c = client
      BY <1>1, <2>1, <2>2, <2>9, <3>1
    <3>2. CASE c # client
      BY <1>1, <2>1, <2>2, <2>4, <3>2 DEF LatestTells, statusVars
    <3> QED
      BY <3>1, <3>2
  <2> QED
    BY <2>6, <2>7, <2>8, <2>9, <2>10 DEF LatestTells
<1> QED
  BY <1>2, <1>3

\* After the chat there is a tile.
LEMMA ChatTells ==
  ASSUME TypeOK, LatestTells, NEW c \in Conns, NEW ok \in BOOLEAN, ChatDone(c, ok)
  PROVE  LatestTells'
<1>1. /\ c \in Tasks /\ task[c] \in Records /\ Busy(c) /\ task[c].todo # <<>>
      /\ client \in Conns /\ Conns \subseteq Tasks
      /\ Detached \in [Tasks -> Records]
  BY DetachedTyped, Kinds DEF TypeOK, Tasks, ChatDone, Busy, LatestTells
<1>2. /\ task' = [Detached EXCEPT ![c] = NextTile(task[c])]
      /\ UNCHANGED <<connVars, refreshing, statusVars>>
  BY DEF ChatDone
<1>3. NextTile(task[c]).item \in Tiles
  BY <1>1, NextTileTyped
<1>4. Busy(c)' /\ task'[c].item \notin {Registry, Chat}
  BY <1>1, <1>2, <1>3, Kinds DEF Busy
<1>5. \A d \in Conns : d # c => /\ task'[d].item = task[d].item
                                /\ task'[d].todo = task[d].todo
  BY <1>1, <1>2, DetachedTyped DEF TypeOK
<1> QED
  BY <1>1, <1>2, <1>4, <1>5, GoesOnTells

\* The last tile announces the connection; before it there is another.
LEMMA TileTells ==
  ASSUME TypeOK, LatestTells, NEW c \in Conns, NEW ok \in BOOLEAN, TileDone(c, ok)
  PROVE  LatestTells'
<1> DEFINE base == IF ok THEN task ELSE Queue(task[c].item)
<1>1. /\ c \in Tasks /\ task[c] \in Records /\ Busy(c) /\ task[c].item \in Tiles
      /\ client \in Conns /\ Conns \subseteq Tasks
  BY Kinds DEF TypeOK, Tasks, TileDone, Busy
<1>2. /\ task' = [base EXCEPT ![c] = NextTile(task[c])]
      /\ UNCHANGED connVars
  BY DEF TileDone
<1>3. /\ base \in [Tasks -> Records]
      /\ \A d \in Conns : /\ base[d].item = task[d].item
                          /\ task[d].todo # <<>> => base[d].todo # <<>>
  BY <1>1, QueueTyped DEF TypeOK
<1> HIDE DEF base
<1>4. /\ task'[c] = NextTile(task[c])
      /\ \A d \in Conns : d # c => task'[d] = base[d]
  BY <1>1, <1>2, <1>3
<1>5. \A d \in Conns : d # c => /\ task'[d].item = task[d].item
                                /\ task[d].todo # <<>> => task'[d].todo # <<>>
  BY <1>3, <1>4
<1>6. CASE task[c].todo # <<>>
  <2>1. NextTile(task[c]).item \in Tiles
    BY <1>1, <1>6, NextTileTyped
  <2>2. Busy(c)' /\ task'[c].item \notin {Registry, Chat}
    BY <1>4, <2>1, Kinds DEF Busy
  <2>3. UNCHANGED <<refreshing, statusVars>>
    BY <1>6 DEF TileDone
  <2> QED
    BY <1>1, <1>2, <1>5, <2>2, <2>3, GoesOnTells
<1>7. CASE task[c].todo = <<>>
  <2>1. status' = "connected"
    BY <1>7 DEF TileDone, Announce
  <2>2. task'[c].item = Nothing /\ ~Busy(c)'
    BY <1>1, <1>4, <1>7, NextTileTyped DEF Busy
  <2>3. \A d \in Conns : d # c => (Busy(d)' <=> Busy(d))
    BY <1>5 DEF Busy
  <2>4. c <= client /\ (client = 1 => c = 1)
    BY <1>1, OnlyOne
  <2>5. \A d \in Conns : d > client' => socket'[d] = "none"
    BY <1>2 DEF LatestTells, connVars
  <2>6. \A d \in Conns : socket'[d] \in {"none", "opening"} => ~Busy(d)'
    BY <1>2, <2>2, <2>3 DEF LatestTells, connVars
  <2>7. \A d \in Conns : task'[d].item \in {Registry, Chat} => task'[d].todo # <<>>
    BY <1>5, <2>2, Kinds DEF LatestTells
  <2>8. ~(client' = 1 /\ (socket'[1] = "opening" \/ Busy(1)'))
    BY <1>1, <1>2, <2>2, <2>4 DEF LatestTells, connVars
  <2> QED
    BY <2>1, <2>5, <2>6, <2>7, <2>8 DEF LatestTells
<1> QED
  BY <1>6, <1>7

\* A pass leaves the tasks of connections as they are, but for arrays it takes away.
LEMMA LoopTells ==
  ASSUME TypeOK, NEW p \in Passes, NEW r \in Records, NEW base \in {task, Detached},
         task' = [base EXCEPT ![p] = r]
  PROVE  \A c \in Conns : task'[c].item = task[c].item /\ task'[c].todo = task[c].todo
<1>1. /\ base \in [Tasks -> Records] /\ Conns \subseteq Tasks
      /\ \A c \in Conns : base[c].item = task[c].item /\ base[c].todo = task[c].todo
  BY DetachedTyped DEF TypeOK, Tasks
<1>2. \A c \in Conns : task'[c] = base[c]
  BY <1>1, Kinds
<1> QED
  BY <1>1, <1>2

\* What a pass does to tasks.
LEMMA PassLoops ==
  ASSUME TypeOK, NEW p \in Passes, NEW ok \in BOOLEAN,
         \/ PassChatDone(p, ok) \/ PassTileDone(p, ok)
         \/ pendingChat /\ task' = [task EXCEPT ![p] = Call(Idle, Chat)]
         \/ LoopTiles(p, FALSE)
  PROVE  \E base \in {task, Detached}, r \in Records : task' = [base EXCEPT ![p] = r]
<1>1. /\ p \in Tasks /\ task[p] \in Records /\ Chat \in Items
      /\ client \in Conns /\ pendingTiles \in Seq(Tiles)
  BY DEF TypeOK, Tasks, Items
<1>2. ASSUME NEW a, LoopTiles(p, a)
      PROVE  \E base \in {task, Detached}, r \in Records : task' = [base EXCEPT ![p] = r]
  <2>1. CASE pendingTiles = <<>>
    BY <1>2, <2>1, IdleTyped DEF LoopTiles, EndPass
  <2>2. CASE pendingTiles # <<>>
    <3> DEFINE r == [Idle EXCEPT !.todo = pendingTiles, !.live = TRUE]
    <3>1. r \in Records
      BY <1>1, LoopTyped
    <3>2. task' = [task EXCEPT ![p] = NextTile(r)]
      BY <1>2, <2>2 DEF LoopTiles
    <3> HIDE DEF r
    <3>3. NextTile(r) \in Records
      BY <1>1, <3>1, NextTileTyped
    <3> QED
      BY <3>2, <3>3
  <2> QED
    BY <2>1, <2>2
<1>3. CASE PassChatDone(p, ok)
  BY <1>2, <1>3 DEF PassChatDone
<1>4. CASE PassTileDone(p, ok)
  <2> DEFINE s == IF ok THEN task[p].still ELSE Append(task[p].still, task[p].item)
             r == [task[p] EXCEPT !.still = s]
  <2>1. CASE task[p].todo = <<>>
    BY <1>4, <2>1, IdleTyped DEF PassTileDone, EndPass
  <2>2. CASE task[p].todo # <<>>
    <3>1. s \in Seq(Tiles)
      BY <1>1, <1>4 DEF PassTileDone, Records
    <3>2. r \in Records
      BY <1>1, <3>1 DEF Records
    <3>3. task' = [task EXCEPT ![p] = NextTile(r)]
      BY <1>1, <1>4, <2>2 DEF PassTileDone, TypeOK
    <3> HIDE DEF r
    <3>4. NextTile(r) \in Records
      BY <1>1, <3>2, NextTileTyped
    <3> QED
      BY <3>3, <3>4
  <2> QED
    BY <2>1, <2>2
<1>5. CASE task' = [task EXCEPT ![p] = Call(Idle, Chat)]
  BY <1>1, <1>5, IdleTyped, CallTyped
<1> QED
  BY <1>2, <1>3, <1>4, <1>5

\* So passes have no say in it.
LEMMA PassTells ==
  ASSUME TypeOK, LatestTells, NEW p \in Passes, NEW ok \in BOOLEAN,
         PassChatDone(p, ok) \/ PassTileDone(p, ok)
  PROVE  LatestTells'
<1>1. UNCHANGED <<connVars, refreshing, statusVars>>
  BY DEF PassChatDone, PassTileDone
<1>2. PICK base \in {task, Detached}, r \in Records : task' = [base EXCEPT ![p] = r]
  BY PassLoops
<1>3. \A c \in Conns : task'[c].item = task[c].item /\ task'[c].todo = task[c].todo
  BY <1>2, LoopTells
<1> QED
  BY <1>1, <1>3, OthersPreserve

\* Nor do those that start.
LEMMA StartTells ==
  ASSUME TypeOK, LatestTells, StartPass
  PROVE  LatestTells'
<1>1. UNCHANGED <<connVars, refreshing, statusVars>>
  BY DEF StartPass
<1>2. PICK p \in Passes :
        \/ pendingChat /\ task' = [task EXCEPT ![p] = Call(Idle, Chat)]
        \/ LoopTiles(p, FALSE)
  BY DEF StartPass
<1>3. TRUE \in BOOLEAN
  OBVIOUS
<1>4. PICK base \in {task, Detached}, r \in Records : task' = [base EXCEPT ![p] = r]
  BY <1>2, <1>3, PassLoops
<1>5. \A c \in Conns : task'[c].item = task[c].item /\ task'[c].todo = task[c].todo
  BY <1>4, LoopTells
<1> QED
  BY <1>1, <1>5, OthersPreserve

\* Nor does a fetch.
LEMMA FetchTells ==
  ASSUME TypeOK, LatestTells, NEW k \in Tasks, Fetch(k)
  PROVE  LatestTells'
<1>1. UNCHANGED <<connVars, refreshing, statusVars>>
  BY DEF Fetch
<1>2. \A c \in Tasks : task'[c].item = task[c].item /\ task'[c].todo = task[c].todo
  BY DEF TypeOK, Fetch, Records
<1>3. \A c \in Conns : task'[c].item = task[c].item /\ task'[c].todo = task[c].todo
  BY <1>2 DEF Tasks
<1> QED
  BY <1>1, <1>3, OthersPreserve

\* Before the first connection is open there is nothing to tell.
LEMMA TellsInit == Init => LatestTells
<1> SUFFICES ASSUME Init PROVE LatestTells
  OBVIOUS
<1>1. \A c \in Conns : task[c] = Idle /\ ~Busy(c)
  BY IdleTyped DEF Init, Busy, Tasks
<1>2. \A c \in Conns : task[c].item \notin {Registry, Chat}
  BY <1>1, IdleTyped, Kinds
<1>3. \A c \in Conns : c > client => socket[c] = "none"
  BY Kinds DEF Init
<1>4. client = 1 /\ socket[1] = "opening" /\ refreshing = FALSE
  BY Kinds DEF Init
<1> QED
  BY <1>1, <1>2, <1>3, <1>4 DEF LatestTells

\* And every step leaves the last word to the latest connection.
LEMMA TellsStep == TypeOK /\ LatestTells /\ [Next]_vars => LatestTells'
<1> SUFFICES ASSUME TypeOK, LatestTells, [Next]_vars PROVE LatestTells'
  OBVIOUS
<1>1. CASE Connect
  BY <1>1, ConnectTells
<1>2. ASSUME NEW c \in Conns, Open(c) \/ Close(c) PROVE LatestTells'
  BY <1>2, OpenTells, CloseTells
<1>3. ASSUME NEW k \in Tasks, Fetch(k) PROVE LatestTells'
  BY <1>3, FetchTells
<1>4. ASSUME NEW k \in Tasks, NEW ok \in BOOLEAN, Settle(k, ok) PROVE LatestTells'
  BY <1>4, PassTells, RegistryTells, ChatTells, TileTells DEF Settle, Tasks
<1>5. CASE StartPass
  BY <1>5, StartTells
<1>6. ASSUME NEW i \in Items, Refresh(i) PROVE LatestTells'
  BY <1>6, OthersPreserve DEF Refresh, syncVars
<1>7. CASE UNCHANGED vars
  BY <1>7, OthersPreserve DEF vars, syncVars
<1> QED
  BY <1>1, <1>2, <1>3, <1>4, <1>5, <1>6, <1>7 DEF Next

\* Why a page that says that it is connected is, or soon is told otherwise.  As long as an
\* onOpen runs, a connection is open or under way; without one the page of start() whose
\* connection failed says nothing more.
SomeOpen == \E c \in Conns : socket[c] = "open"

UnderWay == reconnects > 0 \/ socket[client] = "opening"

StatusTold ==
  /\ SomeOpen \/ UnderWay \/ (status # "connected" /\ \A c \in Conns : ~Busy(c))
  /\ status = "connected" => SomeOpen \/ belated
  /\ client = 1 /\ socket[1] = "opening" => status # "connected"

\* A step that leaves connections and status alone, and starts no onOpen where none is
\* under way.
LEMMA ToldStays ==
  ASSUME StatusTold, UNCHANGED <<connVars, statusVars>>,
         SomeOpen \/ UnderWay \/ \A c \in Conns : Busy(c)' => Busy(c)
  PROVE  StatusTold'
BY DEF StatusTold, SomeOpen, UnderWay, connVars, statusVars

\* Another connection is made, or a connection opens.
LEMMA MadeTold ==
  ASSUME TypeOK, LatestTells, StatusTold, Connect \/ \E c \in Conns : Open(c)
  PROVE  StatusTold'
<1>1. socket \in [Conns -> {"none", "opening", "open", "closed"}] /\ client \in Conns
  BY DEF TypeOK
<1>2. CASE Connect
  <2>1. /\ client' \in Conns /\ client' > client /\ client' # 1 /\ UNCHANGED statusVars
        /\ socket' = [socket EXCEPT ![client'] = "opening"]
    BY <1>1, <1>2, BoundsAssumption DEF Connect, Conns
  <2>2. socket[client'] = "none"
    BY <2>1 DEF LatestTells
  <2>3. socket'[client'] = "opening" /\ (SomeOpen' <=> SomeOpen)
    BY <1>1, <2>1, <2>2 DEF SomeOpen
  <2> QED
    BY <2>1, <2>3 DEF StatusTold, UnderWay, statusVars
<1>3. ASSUME NEW c \in Conns, Open(c) PROVE StatusTold'
  <2>1. /\ socket[c] = "opening" /\ socket' = [socket EXCEPT ![c] = "open"]
        /\ UNCHANGED <<client, statusVars>>
    BY <1>3 DEF Open
  <2>2. socket'[c] = "open" /\ (client = 1 => c = 1)
    BY <1>1, <2>1, OnlyOne
  <2>3. SomeOpen' /\ ~(client' = 1 /\ socket'[1] = "opening")
    BY <2>1, <2>2 DEF SomeOpen
  <2> QED
    BY <2>3 DEF StatusTold
<1> QED
  BY <1>2, <1>3

\* A connection that is lost is replaced, unless it is the first and never opened.
LEMMA CloseTold ==
  ASSUME TypeOK, LatestTells, StatusTold, NEW c \in Conns, Close(c)
  PROVE  StatusTold'
<1>1. /\ socket \in [Conns -> {"none", "opening", "open", "closed"}] /\ reconnects \in Nat
      /\ socket' = [socket EXCEPT ![c] = "closed"] /\ UNCHANGED <<client, task>>
      /\ client \in Conns /\ 1 \in Conns
  BY Kinds DEF TypeOK, Close, syncVars
<1>2. CASE ScheduleReconnect
  <2>1. UnderWay' /\ status' = "reconnecting"
    BY <1>1, <1>2 DEF ScheduleReconnect, UnderWay
  <2> QED
    BY <2>1 DEF StatusTold
<1>3. CASE c = 1 /\ socket[1] = "opening" /\ UNCHANGED <<reconnects, statusVars>>
  <2>1. (SomeOpen' <=> SomeOpen) /\ \A d \in Conns : Busy(d)' <=> Busy(d)
    BY <1>1, <1>3 DEF SomeOpen, Busy
  <2>2. CASE client = 1
    <3>1. status # "connected" /\ \A d \in Conns : ~Busy(d)
      BY <1>1, <1>3, <2>2, OnlyOne, Kinds DEF StatusTold, LatestTells
    <3> QED
      BY <1>3, <2>1, <3>1 DEF StatusTold, statusVars
  <2>3. CASE client # 1
    <3>1. UnderWay' <=> UnderWay
      BY <1>1, <1>3, <2>3 DEF UnderWay
    <3> QED
      BY <1>1, <1>3, <2>1, <2>3, <3>1 DEF StatusTold, statusVars
  <2> QED
    BY <2>2, <2>3
<1> QED
  BY <1>2, <1>3 DEF Close, Rejected

\* A step of an onOpen, with a connection that is open or under way; the last one's tells
\* whether it was in time.
LEMMA SyncTold ==
  ASSUME TypeOK, LatestTells, StatusTold, NEW c \in Conns, NEW ok \in BOOLEAN,
         RegistryDone(c, ok) \/ ChatDone(c, ok) \/ TileDone(c, ok)
  PROVE  StatusTold'
<1>1. Busy(c) /\ (SomeOpen \/ UnderWay) /\ reconnects \in Nat
  BY Kinds DEF RegistryDone, ChatDone, TileDone, Busy, StatusTold, TypeOK
<1>2. ~(client = 1 /\ socket[1] = "opening")
  BY <1>1, OnlyOne DEF LatestTells
<1>3. CASE UNCHANGED <<connVars, statusVars>>
  BY <1>1, <1>3, ToldStays
<1>4. CASE RegistryDone(c, ok) /\ ScheduleReconnect
  <2>1. UnderWay' /\ status' = "reconnecting"
    BY <1>1, <1>4 DEF ScheduleReconnect, UnderWay
  <2> QED
    BY <2>1 DEF StatusTold
<1>5. CASE TileDone(c, ok) /\ Announce(c)
  <2>1. UNCHANGED connVars /\ belated' = (socket[c] # "open")
    BY <1>5 DEF TileDone, Announce
  <2>2. (SomeOpen' <=> SomeOpen) /\ (UnderWay' <=> UnderWay) /\ (SomeOpen \/ belated')
    BY <2>1 DEF SomeOpen, UnderWay, connVars
  <2>3. ~(client' = 1 /\ socket'[1] = "opening")
    BY <1>2, <2>1 DEF connVars
  <2> QED
    BY <1>1, <2>2, <2>3 DEF StatusTold
<1> QED
  BY <1>3, <1>4, <1>5 DEF RegistryDone, ChatDone, TileDone, Rejected, connVars

LEMMA ToldInit == Init => StatusTold
BY Kinds DEF Init, StatusTold, UnderWay

LEMMA ToldStep == TypeOK /\ LatestTells /\ StatusTold /\ [Next]_vars => StatusTold'
<1> SUFFICES ASSUME TypeOK, LatestTells, StatusTold, [Next]_vars PROVE StatusTold'
  OBVIOUS
<1>1. ASSUME UNCHANGED <<connVars, statusVars>>, \A c \in Conns : task'[c].item = task[c].item
      PROVE  StatusTold'
  BY <1>1, ToldStays DEF Busy
<1>2. CASE Connect \/ \E c \in Conns : Open(c)
  BY <1>2, MadeTold
<1>3. ASSUME NEW c \in Conns, Close(c) PROVE StatusTold'
  BY <1>3, CloseTold
<1>4. ASSUME NEW k \in Tasks, Fetch(k) PROVE StatusTold'
  <2>1. \A j \in Tasks : task'[j].item = task[j].item
    BY <1>4 DEF TypeOK, Fetch, Records
  <2> QED
    BY <1>1, <1>4, <2>1 DEF Fetch, Tasks
<1>5. ASSUME NEW k \in Conns, NEW ok \in BOOLEAN, Settle(k, ok) PROVE StatusTold'
  BY <1>5, SyncTold, Kinds DEF Settle
<1>6. ASSUME NEW base \in {task, Detached}, NEW r \in Records, NEW p \in Passes,
             task' = [base EXCEPT ![p] = r], UNCHANGED <<connVars, statusVars>>
      PROVE  StatusTold'
  BY <1>1, <1>6, LoopTells
<1>7. ASSUME NEW p \in Passes, NEW ok \in BOOLEAN, Settle(p, ok) PROVE StatusTold'
  <2>1. PassChatDone(p, ok) \/ PassTileDone(p, ok)
    BY <1>7 DEF Settle
  <2>2. PICK base \in {task, Detached}, r \in Records : task' = [base EXCEPT ![p] = r]
    BY <2>1, PassLoops
  <2> QED
    BY <1>6, <2>1, <2>2 DEF PassChatDone, PassTileDone
<1>8. CASE StartPass
  <2>1. PICK p \in Passes :
          \/ pendingChat /\ task' = [task EXCEPT ![p] = Call(Idle, Chat)]
          \/ LoopTiles(p, FALSE)
    BY <1>8 DEF StartPass
  <2>2. TRUE \in BOOLEAN
    OBVIOUS
  <2>3. PICK base \in {task, Detached}, r \in Records : task' = [base EXCEPT ![p] = r]
    BY <2>1, <2>2, PassLoops
  <2> QED
    BY <1>6, <1>8, <2>3 DEF StartPass
<1>9. ASSUME NEW i \in Items, Refresh(i) PROVE StatusTold'
  BY <1>1, <1>9 DEF Refresh, syncVars
<1>10. CASE UNCHANGED vars
  BY <1>1, <1>10 DEF vars, syncVars
<1> QED
  BY <1>2, <1>3, <1>4, <1>5, <1>7, <1>8, <1>9, <1>10 DEF Next, Tasks

\* For any number of connections, tiles and passes, whatever older connections said in
\* between and whatever failed: once the latest connection is open, none is due and no
\* onOpen runs, the page says that it is connected; and when it says so without a
\* connection that is open, an onOpen said so after its connection was lost, and another
\* connection is under way.
THEOREM StatusCorrect == SafeSpec => []StatusIsRight
<1>1. TypeOK /\ LatestTells /\ StatusTold => StatusIsRight
  BY DEF TypeOK, LatestTells, StatusTold, StatusIsRight, Connected, SomeOpen, UnderWay
<1>2. SafeSpec => [](TypeOK /\ LatestTells /\ StatusTold)
  BY TypeInit, TypeStep, TellsInit, TellsStep, ToldInit, ToldStep, PTL DEF SafeSpec
<1> QED
  BY <1>1, <1>2, PTL

-----------------------------------------------------------------------------
\* Why nothing is forgotten but in a race.  Some of it is about every task's loop:
\* an onOpen has all tiles before it until it is done with the chat, and is no pass; a
\* pass that runs over the array is at a tile; and what the latest connection's
\* onOpen waits for, it waits for there, after the registry.
In(t, s) == \E i \in 1 .. Len(s) : s[i] = t

Shaped ==
  /\ \A c \in Conns : /\ ~task[c].live
                      /\ task[c].item \in {Registry, Chat} => task[c].todo = TileList
  /\ \A p \in Passes : /\ task[p].item # Registry
                       /\ task[p].live => task[p].item \in Tiles
  /\ Busy(client) => task[client].via = client
  /\ task[client].item = Chat => <<Registry, client>> \in subscribed

\* What is pending has a timer, or somebody who will set it.
Armed ==
  pendingChat \/ pendingTiles # <<>> =>
    timer \/ \E k \in Tasks : Busy(k) /\ task[k].item # Registry

\* A pass that goes on over an array that was replaced will end as a race.
Doomed == \E p \in Passes : task[p].item \in Tiles /\ ~task[p].live

\* The latest connection is up, and its onOpen is done with the chat.
Past ==
  /\ socket[client] = "open" /\ reconnects = 0
  /\ task[client].item \notin {Registry, Chat}
  /\ refreshing \/ Busy(client) \/ client # 1

\* An onOpen that comes to a tile, or is at it on the latest connection.
InLoop(c, t) ==
  /\ task[c].item \in Tiles
  /\ (task[c].item = t /\ task[c].via = client) \/ In(t, task[c].todo)

\* A tile is subscribed to, or to be retried, or an onOpen comes to it.
Held(t) ==
  \/ <<t, client>> \in subscribed
  \/ In(t, pendingTiles)
  \/ \E c \in Conns : InLoop(c, t)

\* A pass is at a tile, or has it behind it or before it.
Looped(p, t) ==
  \/ <<t, client>> \in subscribed
  \/ task[p].item = t \/ In(t, task[p].todo) \/ In(t, task[p].still)

\* From then on every item is held, and a pass that runs over what is pending has all
\* of it.
TracksItems ==
  /\ <<Registry, client>> \in subscribed
  /\ <<Chat, client>> \in subscribed \/ pendingChat
  /\ \A t \in Tiles : Held(t)

TracksPasses ==
  \A p \in Passes : task[p].live =>
    /\ task[p].via = client
    /\ \A t \in Tiles : In(t, pendingTiles) => Looped(p, t)

NotLost == raced \/ Doomed \/ (Past => TracksItems /\ TracksPasses)

SyncInv == Shaped /\ Armed /\ NotLost

\* When all is quiet, what is held is subscribed to.
LEMMA HeldIsHeard ==
  ASSUME TypeOK, SyncInv
  PROVE  OnlyRacesForget
<1> SUFFICES ASSUME ~raced, Quiet PROVE Listening
  BY DEF OnlyRacesForget, KeepsRetrying
<1>1. client \in Conns /\ client \in Tasks /\ \A k \in Tasks : task[k].item = Nothing
  BY DEF TypeOK, Tasks, Quiet, Busy
<1>2. ~Doomed
  BY <1>1, Kinds DEF Doomed, Tasks
<1>3. Past
  BY <1>1, Kinds DEF Past, Quiet, Connected
<1>4. ~pendingChat /\ pendingTiles = <<>>
  BY DEF SyncInv, Armed, Quiet
<1>5. TracksItems
  BY <1>2, <1>3 DEF SyncInv, NotLost
<1>6. \A t \in Tiles : ~In(t, pendingTiles)
  BY <1>4 DEF In
<1>7. \A t \in Tiles : <<t, client>> \in subscribed
  BY <1>1, <1>5, <1>6, Kinds DEF TracksItems, Held, InLoop, Tasks
<1> QED
  BY <1>4, <1>5, <1>7 DEF TracksItems, Listening, Items

\* What is in a sequence that a tile is appended to, or that loses its head.
LEMMA InFacts ==
  ASSUME NEW s \in Seq(Tiles), NEW u \in Tiles, NEW t
  PROVE  /\ In(t, Append(s, u)) <=> In(t, s) \/ t = u
         /\ s # <<>> => (In(t, s) <=> t = Head(s) \/ In(t, Tail(s)))
<1>1. In(t, Append(s, u)) <=> In(t, s) \/ t = u
  <2>1. /\ Len(Append(s, u)) = Len(s) + 1 /\ Len(s) \in Nat
        /\ \A i \in 1 .. Len(s) : Append(s, u)[i] = s[i]
        /\ Append(s, u)[Len(s) + 1] = u
    OBVIOUS
  <2> QED
    BY <2>1 DEF In
<1>2. ASSUME s # <<>> PROVE In(t, s) <=> t = Head(s) \/ In(t, Tail(s))
  <2>1. /\ Len(Tail(s)) = Len(s) - 1 /\ Len(s) \in Nat /\ Len(s) > 0
        /\ \A i \in 1 .. Len(s) - 1 : Tail(s)[i] = s[i + 1]
        /\ Head(s) = s[1]
    BY <1>2
  <2>2. ASSUME NEW i \in 1 .. Len(s), i # 1
        PROVE  i - 1 \in 1 .. Len(Tail(s)) /\ Tail(s)[i - 1] = s[i]
    BY <2>1, <2>2
  <2>3. ASSUME NEW i \in 1 .. Len(s), s[i] = t
        PROVE  t = Head(s) \/ In(t, Tail(s))
    <3>1. CASE i = 1
      BY <2>1, <2>3, <3>1
    <3>2. CASE i # 1
      BY <2>2, <2>3, <3>2 DEF In
    <3> QED
      BY <3>1, <3>2
  <2>4. ASSUME NEW i \in 1 .. Len(Tail(s)), Tail(s)[i] = t
        PROVE  In(t, s)
    <3>1. i + 1 \in 1 .. Len(s) /\ s[i + 1] = t
      BY <2>1, <2>4
    <3> QED
      BY <3>1 DEF In
  <2>5. 1 \in 1 .. Len(s) /\ Head(s) = s[1]
    BY <2>1
  <2>6. t = Head(s) => In(t, s)
    BY <2>5 DEF In
  <2>7. In(t, s) => t = Head(s) \/ In(t, Tail(s))
    BY <2>3 DEF In
  <2>8. In(t, Tail(s)) => In(t, s)
    BY <2>4 DEF In
  <2> QED
    BY <2>6, <2>7, <2>8
<1> QED
  BY <1>1, <1>2

LEMMA InNone == \A t : ~In(t, <<>>)
BY DEF In

\* An onOpen comes to every tile.
LEMMA InList == \A t \in Tiles : In(t, TileList)
<1>1. Len(TileList) = NumTiles /\ \A n \in 1 .. NumTiles : TileList[n] = Tile(n)
  BY BoundsAssumption DEF TileList
<1> QED
  BY <1>1 DEF In, Tiles

LEMMA IdleFields ==
  Idle.item = Nothing /\ ~Idle.live /\ Idle.todo = <<>> /\ Idle.still = <<>>
BY DEF Idle

\* What a task is that goes on to its next tile.
LEMMA NextFields ==
  ASSUME NEW r \in Records, client \in Conns
  PROVE  /\ r.todo = <<>> => NextTile(r) = Idle
         /\ r.todo # <<>> =>
              /\ NextTile(r).item = Head(r.todo) /\ NextTile(r).item \in Tiles
              /\ NextTile(r).todo = Tail(r.todo) /\ NextTile(r).via = client
              /\ NextTile(r).still = r.still /\ NextTile(r).live = r.live
<1> SUFFICES ASSUME r.todo # <<>>
             PROVE  /\ NextTile(r).item = Head(r.todo) /\ NextTile(r).item \in Tiles
                    /\ NextTile(r).todo = Tail(r.todo) /\ NextTile(r).via = client
                    /\ NextTile(r).still = r.still /\ NextTile(r).live = r.live
  BY DEF NextTile
<1>1. NextTile(r) = Call([r EXCEPT !.todo = Tail(@)], Head(r.todo))
  BY DEF NextTile
<1>2. Head(r.todo) \in Tiles
  BY DEF Records
<1> QED
  BY <1>1, <1>2 DEF Call, Records

\* What becomes of the other tasks in a step.
LEMMA BaseFields ==
  ASSUME TypeOK, NEW t \in Tiles, NEW base \in {task, Detached, Queue(t)}
  PROVE  /\ base \in [Tasks -> Records]
         /\ \A j \in Tasks :
              /\ base[j].item = task[j].item /\ base[j].via = task[j].via
              /\ base[j].still = task[j].still
              /\ base[j].live => task[j].live
              /\ ~task[j].live => base[j].todo = task[j].todo
<1>1. CASE base = task
  BY <1>1 DEF TypeOK
<1>2. CASE base = Detached
  BY <1>2, DetachedTyped DEF TypeOK, Detached, Records
<1>3. CASE base = Queue(t)
  <2>1. base \in [Tasks -> Records]
    BY <1>3, QueueTyped DEF TypeOK
  <2>2. \A j \in Tasks : base[j] = IF task[j].live THEN [task[j] EXCEPT !.todo = Append(@, t)]
                                   ELSE task[j]
    BY <1>3 DEF Queue
  <2> QED
    BY <2>1, <2>2 DEF TypeOK, Records
<1> QED
  BY <1>1, <1>2, <1>3

\* A step that changes a task, and perhaps what others have left, keeps their shape.
LEMMA ShapedBy ==
  ASSUME TypeOK, Shaped, NEW k \in Tasks, NEW r \in Records, NEW t \in Tiles,
         NEW base \in {task, Detached, Queue(t)}, task' = [base EXCEPT ![k] = r],
         UNCHANGED client, subscribed \subseteq subscribed',
         k \in Conns => /\ ~r.live
                        /\ r.item \in {Registry, Chat} => r.todo = TileList,
         k \in Passes => /\ r.item # Registry
                         /\ r.live => r.item \in Tiles,
         k = client => /\ r.item # Nothing => r.via = client
                       /\ r.item = Chat => <<Registry, client>> \in subscribed'
  PROVE  Shaped'
<1>1. /\ base \in [Tasks -> Records]
      /\ \A j \in Tasks :
           /\ base[j].item = task[j].item /\ base[j].via = task[j].via
           /\ base[j].live => task[j].live
           /\ ~task[j].live => base[j].todo = task[j].todo
  BY BaseFields
<1>2. task'[k] = r /\ \A j \in Tasks : j # k => task'[j] = base[j]
  BY <1>1
<1>3. Conns \subseteq Tasks /\ Passes \subseteq Tasks /\ client \in Conns
  BY DEF Tasks, TypeOK
<1>4. ASSUME NEW c \in Conns
      PROVE  ~task'[c].live /\ (task'[c].item \in {Registry, Chat} => task'[c].todo = TileList)
  BY <1>1, <1>2, <1>3 DEF Shaped
<1>5. ASSUME NEW p \in Passes
      PROVE  task'[p].item # Registry /\ (task'[p].live => task'[p].item \in Tiles)
  BY <1>1, <1>2, <1>3 DEF Shaped
<1>6. Busy(client)' => task'[client'].via = client'
  BY <1>1, <1>2, <1>3 DEF Shaped, Busy
<1>7. task'[client'].item = Chat => <<Registry, client'>> \in subscribed'
  BY <1>1, <1>2, <1>3 DEF Shaped
<1> QED
  BY <1>4, <1>5, <1>6, <1>7 DEF Shaped

\* Nobody takes back a pass that is doomed but the pass itself, and no onOpen makes
\* one live.
LEMMA DoomedBy ==
  ASSUME TypeOK, Doomed, NEW k \in Tasks, NEW r \in Records, NEW t \in Tiles,
         NEW base \in {task, Detached, Queue(t)}, task' = [base EXCEPT ![k] = r],
         k \in Passes => task[k].item \notin Tiles
  PROVE  Doomed'
<1>1. PICK p \in Passes : task[p].item \in Tiles /\ ~task[p].live
  BY DEF Doomed
<1>2. p \in Tasks /\ p # k
  BY <1>1 DEF Tasks
<1>3. task'[p].item = task[p].item /\ ~task'[p].live
  <2>1. /\ base \in [Tasks -> Records]
        /\ \A j \in Tasks : /\ base[j].item = task[j].item
                            /\ base[j].live => task[j].live
    BY BaseFields
  <2> QED
    BY <1>1, <1>2, <2>1
<1> QED
  BY <1>1, <1>3 DEF Doomed

\* What an outcome does.
LEMMA OutcomeFacts ==
  ASSUME NEW k \in Tasks, NEW ok \in BOOLEAN, Outcome(k, ok)
  PROVE  /\ subscribed \subseteq subscribed'
         /\ ok => <<task[k].item, task[k].via>> \in subscribed'
BY DEF Outcome

-----------------------------------------------------------------------------
\* A new latest connection has nothing done yet.
LEMMA ConnectSyncs ==
  ASSUME TypeOK, LatestTells, SyncInv, Connect
  PROVE  SyncInv'
<1>1. /\ client \in Nat /\ client' = client + 1 /\ client' \in Conns
      /\ UNCHANGED <<syncVars, subscribed, raced>>
      /\ socket'[client'] = "opening"
  BY BoundsAssumption DEF TypeOK, Connect, Conns
<1>2. ~Busy(client')
  BY <1>1 DEF LatestTells
<1>3. Shaped'
  BY <1>1, <1>2, Kinds DEF SyncInv, Shaped, syncVars, Busy
<1>4. Armed'
  BY <1>1 DEF SyncInv, Armed, syncVars, Busy
<1>5. NotLost'
  BY <1>1 DEF NotLost, Past
<1> QED
  BY <1>3, <1>4, <1>5 DEF SyncInv

\* The onOpen of the latest connection has everything before it, and that of an older
\* one changes nothing for the latest.
LEMMA OpenSyncs ==
  ASSUME TypeOK, LatestTells, SyncInv, NEW c \in Conns, Open(c)
  PROVE  SyncInv'
<1> DEFINE s == [Idle EXCEPT !.todo = TileList]
           r == Call(s, Registry)
<1>1. /\ s \in Records /\ s.todo = TileList /\ ~s.live
  BY TileListTyped, LoopTyped, IdleFields, IdleTyped DEF Records
<1>2. /\ c \in Tasks /\ client \in Conns /\ ~Busy(c)
      /\ task' = [task EXCEPT ![c] = r] /\ task \in [Tasks -> Records]
      /\ UNCHANGED <<client, reconnects, pendingChat, pendingTiles, timer,
                     refreshing, subscribed, raced>>
      /\ socket' = [socket EXCEPT ![c] = "open"]
      /\ socket \in [Conns -> {"none", "opening", "open", "closed"}]
  BY DEF TypeOK, Tasks, Open, LatestTells
<1>3. /\ r \in Records /\ r.item = Registry /\ r.via = client
      /\ r.todo = TileList /\ ~r.live
  <2>1. Registry \in Items
    BY DEF Items
  <2>2. r.live = s.live
    BY <1>1 DEF Call, Records
  <2> HIDE DEF s
  <2> QED
    BY <1>1, <1>2, <2>1, <2>2, CallTyped
<1> HIDE DEF s, r
<1>4. Shaped'
  BY <1>2, <1>3, Kinds, TileOne, ShapedBy DEF SyncInv
<1>5. \A j \in Tasks : j # c => task'[j] = task[j]
  BY <1>2
<1>6. Armed'
  BY <1>2, <1>5 DEF SyncInv, Armed, Busy
<1>7. NotLost'
  <2>1. CASE raced
    BY <1>2, <2>1 DEF NotLost
  <2>2. CASE Doomed
    BY <1>2, <1>3, <2>2, Kinds, TileOne, DoomedBy DEF NotLost
  <2>3. CASE Past => TracksItems /\ TracksPasses
    <3> SUFFICES ASSUME Past' PROVE TracksItems' /\ TracksPasses'
      BY DEF NotLost
    <3>1. c # client
      BY <1>2, <1>3 DEF Past
    <3>2. task'[client] = task[client] /\ socket'[client] = socket[client]
      BY <1>2, <1>5, <3>1 DEF Tasks
    <3>3. TracksItems /\ TracksPasses
      BY <1>2, <2>3, <3>2 DEF Past, Busy
    <3>4. \A d \in Conns, t \in Tiles : InLoop(d, t) => InLoop(d, t)'
      BY <1>2, <1>5, Kinds DEF InLoop, Tasks, Busy
    <3>5. TracksItems'
      BY <1>2, <3>3, <3>4 DEF TracksItems, Held
    <3>6. \A p \in Passes : task'[p] = task[p]
      BY <1>5, Kinds DEF Tasks
    <3>7. TracksPasses'
      BY <1>2, <3>3, <3>6 DEF TracksPasses, Looped
    <3> QED
      BY <3>5, <3>7
  <2> QED
    BY <2>1, <2>2, <2>3 DEF SyncInv, NotLost
<1> QED
  BY <1>4, <1>6, <1>7 DEF SyncInv

\* A step that leaves the tasks, the lists and the subscriptions as they are, and
\* brings no connection up.
LEMMA RestSyncs ==
  ASSUME TypeOK, SyncInv, UNCHANGED <<client, syncVars, subscribed, raced>>, Past' => Past
  PROVE  SyncInv'
<1>1. \A c, t : InLoop(c, t)' <=> InLoop(c, t)
  BY DEF InLoop, syncVars
<1>2. \A p, t : Looped(p, t)' <=> Looped(p, t)
  BY DEF Looped, syncVars
<1>3. TracksItems => TracksItems'
  BY <1>1 DEF TracksItems, Held, syncVars
<1>4. TracksPasses => TracksPasses'
  BY <1>2 DEF TracksPasses, syncVars
<1>5. Shaped' /\ Armed'
  BY DEF SyncInv, Shaped, Armed, Busy, syncVars
<1>6. Doomed => Doomed'
  BY DEF Doomed, syncVars
<1> QED
  BY <1>3, <1>4, <1>5, <1>6 DEF SyncInv, NotLost

\* A connection that is lost brings none up.
LEMMA CloseSyncs ==
  ASSUME TypeOK, SyncInv, NEW c \in Conns, Close(c)
  PROVE  SyncInv'
<1>1. /\ UNCHANGED <<client, syncVars, subscribed, raced>>
      /\ socket' = [socket EXCEPT ![c] = "closed"]
      /\ reconnects' = reconnects \/ reconnects' = reconnects + 1
  BY DEF Close, Rejected, ScheduleReconnect
<1>2. reconnects \in Nat /\ client \in Conns
      /\ socket \in [Conns -> {"none", "opening", "open", "closed"}]
  BY DEF TypeOK
<1>3. Past' => Past
  BY <1>1, <1>2 DEF Past, Busy, syncVars
<1> QED
  BY <1>1, <1>3, RestSyncs

\* A fetch brings its task to the latest connection.
LEMMA FetchSyncs ==
  ASSUME TypeOK, SyncInv, NEW k \in Tasks, Fetch(k)
  PROVE  SyncInv'
<1> DEFINE r == [task[k] EXCEPT !.got = TRUE, !.via = client]
<1>1. /\ task[k] \in Records /\ client \in Conns /\ task \in [Tasks -> Records]
      /\ Conns \subseteq Tasks /\ Passes \subseteq Tasks
      /\ task' = [task EXCEPT ![k] = r]
      /\ UNCHANGED <<connVars, pendingChat, pendingTiles, timer, refreshing,
                     subscribed, raced>>
  BY DEF TypeOK, Tasks, Fetch
<1>2. /\ r \in Records /\ r.item = task[k].item /\ r.via = client
      /\ r.todo = task[k].todo /\ r.still = task[k].still /\ r.live = task[k].live
  BY <1>1 DEF TypeOK, Records
<1> HIDE DEF r
<1>3. \A j \in Tasks : /\ task'[j].item = task[j].item /\ task'[j].todo = task[j].todo
                       /\ task'[j].still = task[j].still
                       /\ task'[j].live = task[j].live
                       /\ task'[j].via \in {task[j].via, client}
  BY <1>1, <1>2
<1>4. Shaped'
  BY <1>1, <1>3 DEF SyncInv, Shaped, Busy, connVars
<1>5. Armed'
  BY <1>1, <1>3 DEF SyncInv, Armed, Busy
<1>6. Doomed => Doomed'
  BY <1>1, <1>3 DEF Doomed
<1>7. Past' => Past
  BY <1>1, <1>3 DEF Past, Busy, connVars
<1>8. \A c \in Conns, t \in Tiles : InLoop(c, t) => InLoop(c, t)'
  BY <1>1, <1>3 DEF InLoop, connVars
<1>9. TracksItems => TracksItems'
  BY <1>1, <1>8 DEF TracksItems, Held, connVars
<1>10. TracksPasses => TracksPasses'
  BY <1>1, <1>3 DEF TracksPasses, Looped, connVars
<1> QED
  BY <1>1, <1>4, <1>5, <1>6, <1>7, <1>9, <1>10 DEF SyncInv, NotLost

\* A step of an onOpen that waits for the registry: the latest one's gets it there, or
\* is not up.
LEMMA RegistrySyncs ==
  ASSUME TypeOK, LatestTells, SyncInv, NEW c \in Conns, NEW ok \in BOOLEAN,
         RegistryDone(c, ok)
  PROVE  SyncInv'
<1> DEFINE r == IF ok THEN Call(task[c], Chat) ELSE Idle
<1>1. /\ c \in Tasks /\ task[c] \in Records /\ Busy(c) /\ client \in Conns
      /\ task[c].item = Registry /\ Chat \in Items
      /\ task \in [Tasks -> Records] /\ c \notin Passes
  BY Kinds DEF TypeOK, Tasks, RegistryDone, Busy, Items
<1>2. /\ task' = [task EXCEPT ![c] = r] /\ Outcome(c, ok)
      /\ UNCHANGED <<socket, client, pendingChat, pendingTiles, timer, refreshing, raced>>
  BY DEF RegistryDone
<1>3. /\ r \in Records /\ ~r.live /\ r.item \in {Chat, Nothing}
      /\ ok => r.item = Chat /\ r.via = client /\ r.todo = TileList
      /\ ~ok => r.item = Nothing
  <2>1. CASE ok
    <3>1. task[c].todo = TileList /\ ~task[c].live
      BY <1>1 DEF SyncInv, Shaped
    <3>2. r = Call(task[c], Chat)
      BY <2>1
    <3> QED
      BY <1>1, <2>1, <3>1, <3>2, CallTyped DEF Call, Records
  <2>2. CASE ~ok
    BY <2>2, IdleTyped, IdleFields
  <2> QED
    BY <2>1, <2>2
<1> HIDE DEF r
<1>4. /\ subscribed \subseteq subscribed'
      /\ ok => <<task[c].item, task[c].via>> \in subscribed'
  BY <1>1, <1>2, OutcomeFacts
<1>5. c = client /\ r.item = Chat => <<Registry, client>> \in subscribed'
  BY <1>1, <1>3, <1>4, Kinds DEF SyncInv, Shaped
<1>6. Shaped'
  BY <1>1, <1>2, <1>3, <1>4, <1>5, Kinds, TileOne, ShapedBy DEF SyncInv
<1>7. /\ task'[c] = r /\ \A j \in Tasks : j # c => task'[j] = task[j]
  BY <1>1, <1>2
<1>8. Armed'
  BY <1>1, <1>2, <1>7 DEF SyncInv, Armed, Busy
<1>9. NotLost'
  <2>1. CASE raced
    BY <1>2, <2>1 DEF NotLost
  <2>2. CASE Doomed
    BY <1>1, <1>2, <1>3, <2>2, TileOne, DoomedBy DEF NotLost
  <2>3. CASE Past => TracksItems /\ TracksPasses
    <3> SUFFICES ASSUME Past' PROVE TracksItems' /\ TracksPasses'
      BY DEF NotLost
    <3>1. c # client
      <4>1. CASE ok
        BY <1>2, <1>3, <1>7, <4>1 DEF Past
      <4>2. CASE ~ok
        <5>1. Rejected(c) /\ (c = 1 \/ reconnects' # 0)
          BY <4>2, RejectedTells DEF RegistryDone
        <5>2. c = 1
          BY <5>1 DEF Past
        <5>3. c = client => ~refreshing
          BY <1>1, <5>2 DEF LatestTells
        <5> QED
          BY <1>2, <1>3, <1>7, <4>2, <5>2, <5>3 DEF Past, Busy
      <4> QED
        BY <4>1, <4>2
    <3>2. task'[client] = task[client] /\ (reconnects' = 0 => reconnects = 0)
      BY <1>1, <1>7, <3>1 DEF Tasks, TypeOK, RegistryDone, Rejected, ScheduleReconnect
    <3>3. TracksItems /\ TracksPasses
      BY <1>2, <2>3, <3>2 DEF Past, Busy
    <3>4. \A d \in Conns, t \in Tiles : InLoop(d, t) => InLoop(d, t)'
      BY <1>1, <1>2, <1>7, Kinds DEF InLoop, Tasks
    <3>5. TracksItems'
      BY <1>2, <1>4, <3>3, <3>4 DEF TracksItems, Held
    <3>6. \A p \in Passes : task'[p] = task[p]
      BY <1>1, <1>7 DEF Tasks
    <3>7. TracksPasses'
      BY <1>2, <1>4, <3>3, <3>6 DEF TracksPasses, Looped
    <3> QED
      BY <3>5, <3>7
  <2> QED
    BY <2>1, <2>2, <2>3 DEF SyncInv, NotLost
<1> QED
  BY <1>6, <1>8, <1>9 DEF SyncInv

\* After the chat an onOpen has every tile before it, and no pass is live.
LEMMA ChatSyncs ==
  ASSUME TypeOK, LatestTells, SyncInv, NEW c \in Conns, NEW ok \in BOOLEAN,
         ChatDone(c, ok)
  PROVE  SyncInv'
<1> DEFINE r == NextTile(task[c])
<1>1. /\ c \in Tasks /\ task[c] \in Records /\ Busy(c) /\ client \in Conns
      /\ task[c].item = Chat /\ c \notin Passes /\ task[c].todo = TileList
      /\ ~task[c].live
  BY Kinds DEF TypeOK, Tasks, ChatDone, Busy, SyncInv, Shaped
<1>2. /\ task' = [Detached EXCEPT ![c] = r] /\ Outcome(c, ok)
      /\ pendingChat' = ~ok /\ pendingTiles' = <<>>
      /\ raced' = (raced \/ (ok /\ task[c].via # client))
      /\ UNCHANGED <<connVars, timer, refreshing>>
  BY DEF ChatDone
<1>3. /\ r \in Records /\ r.item = Head(TileList) /\ r.item \in Tiles
      /\ r.todo = Tail(TileList) /\ r.via = client /\ ~r.live
  BY <1>1, NextFields, NextTileTyped, TileListTyped
<1> HIDE DEF r
<1>4. /\ subscribed \subseteq subscribed'
      /\ ok => <<Chat, task[c].via>> \in subscribed'
  BY <1>1, <1>2, OutcomeFacts
<1>5. Shaped'
  BY <1>1, <1>2, <1>3, <1>4, Kinds, TileOne, ShapedBy DEF SyncInv, connVars
<1>6. /\ task'[c] = r
      /\ \A j \in Tasks : j # c => task'[j].item = task[j].item /\ ~task'[j].live
  BY <1>1, <1>2, DetachedTyped DEF TypeOK, Detached, Records
<1>7. Armed'
  BY <1>1, <1>3, <1>6, Kinds DEF Armed, Busy
<1>8. NotLost'
  <2>1. CASE raced'
    BY <2>1 DEF NotLost
  <2>3. CASE Doomed
    BY <1>1, <1>2, <1>3, <2>3, TileOne, Kinds, DoomedBy DEF NotLost
  <2>2. CASE ~raced' /\ ~Doomed
    <3> SUFFICES ASSUME Past' PROVE TracksItems' /\ TracksPasses'
      BY DEF NotLost
    <3>1. TracksPasses'
      BY <1>1, <1>6, Kinds DEF TracksPasses, Tasks
    <3>2. \A t \in Tiles : InLoop(c, t)'
      <4>1. \A t \in Tiles : t = Head(TileList) \/ In(t, Tail(TileList))
        BY InList, InFacts, TileListTyped, TileOne
      <4> QED
        BY <1>2, <1>3, <1>6, <4>1 DEF InLoop, connVars
    <3>3. <<Chat, client>> \in subscribed' \/ pendingChat'
      BY <1>2, <1>4, <2>2
    <3>4. <<Registry, client>> \in subscribed'
      <4>1. CASE c = client
        BY <1>1, <1>4, <4>1 DEF SyncInv, Shaped
      <4>2. CASE c # client
        <5>1. task'[client].item = task[client].item
          BY <1>1, <1>6, <4>2 DEF Tasks
        <5>2. Past
          BY <1>2, <5>1 DEF Past, Busy, connVars
        <5>3. raced \/ Doomed \/ TracksItems
          BY <5>2 DEF SyncInv, NotLost
        <5> QED
          BY <1>2, <1>4, <2>2, <5>3 DEF TracksItems
      <4> QED
        BY <4>1, <4>2
    <3> QED
      BY <1>2, <3>1, <3>2, <3>3, <3>4 DEF TracksItems, Held, connVars
  <2> QED
    BY <2>1, <2>2, <2>3
<1> QED
  BY <1>5, <1>7, <1>8 DEF SyncInv

\* A tile that an onOpen is done with is subscribed to or pending.
LEMMA TileSyncs ==
  ASSUME TypeOK, LatestTells, SyncInv, NEW c \in Conns, NEW ok \in BOOLEAN,
         TileDone(c, ok)
  PROVE  SyncInv'
<1> DEFINE u == task[c].item
           base == IF ok THEN task ELSE Queue(u)
           r == NextTile(task[c])
<1>1. /\ c \in Tasks /\ task[c] \in Records /\ Busy(c) /\ client \in Conns
      /\ u \in Tiles /\ c \notin Passes /\ ~task[c].live
      /\ task[c].todo \in Seq(Tiles) /\ pendingTiles \in Seq(Tiles)
  BY Kinds DEF TypeOK, Tasks, TileDone, Busy, SyncInv, Shaped, Records
<1>2. /\ task' = [base EXCEPT ![c] = r] /\ Outcome(c, ok)
      /\ pendingTiles' = IF ok THEN pendingTiles ELSE Append(pendingTiles, u)
      /\ UNCHANGED <<connVars, pendingChat, raced>>
  BY DEF TileDone
<1>3. /\ r \in Records /\ ~r.live /\ r.item \notin {Registry, Chat}
      /\ r.item # Nothing => r.via = client
      /\ task[c].todo = <<>> => r.item = Nothing
      /\ task[c].todo # <<>> => /\ r.item = Head(task[c].todo) /\ r.item \in Tiles
                                /\ r.todo = Tail(task[c].todo)
  BY <1>1, NextFields, NextTileTyped, IdleFields, Kinds
<1> HIDE DEF r
<1>4. /\ subscribed \subseteq subscribed'
      /\ ok => <<u, task[c].via>> \in subscribed'
  BY <1>1, <1>2, OutcomeFacts
<1>5. base \in {task, Detached, Queue(u)}
  OBVIOUS
<1>6. /\ base \in [Tasks -> Records]
      /\ \A j \in Tasks :
           /\ base[j].item = task[j].item /\ base[j].via = task[j].via
           /\ base[j].still = task[j].still
           /\ base[j].live => task[j].live
           /\ ~task[j].live => base[j].todo = task[j].todo
  BY <1>1, <1>5, BaseFields
<1>7. ASSUME NEW j \in Tasks, task[j].live, NEW t \in Tiles
      PROVE  In(t, base[j].todo) <=> In(t, task[j].todo) \/ (~ok /\ t = u)
  <2>1. CASE ok
    BY <2>1
  <2>2. CASE ~ok
    <3>1. base[j] = [task[j] EXCEPT !.todo = Append(@, u)]
      BY <1>7, <2>2 DEF Queue
    <3>2. base[j].todo = Append(task[j].todo, u) /\ task[j].todo \in Seq(Tiles)
      BY <3>1 DEF TypeOK, Records
    <3> HIDE DEF base
    <3> QED
      BY <1>1, <2>2, <3>2, InFacts
  <2> QED
    BY <2>1, <2>2
<1> HIDE DEF base
<1>8. Shaped'
  BY <1>1, <1>2, <1>3, <1>4, <1>5, Kinds, ShapedBy DEF SyncInv, connVars
<1>9. /\ task'[c] = r /\ \A j \in Tasks : j # c => task'[j] = base[j]
  BY <1>1, <1>2, <1>6
<1>10. Armed'
  <2>1. CASE task[c].todo = <<>>
    BY <2>1 DEF Armed, TileDone
  <2>2. CASE task[c].todo # <<>>
    BY <1>1, <1>3, <1>9, <2>2, Kinds DEF Armed, Busy
  <2> QED
    BY <2>1, <2>2
<1>11. NotLost'
  <2>1. CASE raced
    BY <1>2, <2>1 DEF NotLost
  <2>2. CASE Doomed
    BY <1>1, <1>2, <1>3, <1>5, <2>2, DoomedBy DEF NotLost
  <2>3. CASE Past => TracksItems /\ TracksPasses
    <3> SUFFICES ASSUME Past' PROVE TracksItems' /\ TracksPasses'
      BY DEF NotLost
    <3>1. Past
      <4>1. task[client].item \notin {Registry, Chat}
        BY <1>1, <1>2, <1>6, <1>9, Kinds DEF Past, Tasks, connVars
      <4>2. Busy(client) \/ client # 1
        <5>1. client = 1 => c = 1
          BY <1>1, OnlyOne
        <5> QED
          BY <1>1, <5>1
      <4> QED
        BY <1>2, <4>1, <4>2 DEF Past, connVars
    <3>2. TracksItems /\ TracksPasses
      BY <2>3, <3>1
    <3>3. \A t \in Tiles : In(t, pendingTiles)' <=> In(t, pendingTiles) \/ (~ok /\ t = u)
      BY <1>1, <1>2, InFacts
    <3>4. ASSUME NEW t \in Tiles PROVE Held(t)'
      <4>1. CASE <<t, client>> \in subscribed \/ In(t, pendingTiles)
        BY <1>2, <1>4, <3>3, <4>1 DEF Held, connVars
      <4>2. ASSUME NEW d \in Conns, InLoop(d, t), d # c PROVE Held(t)'
        <5>1. d \in Tasks /\ ~task[d].live
          BY DEF Tasks, SyncInv, Shaped
        <5>2. /\ task'[d].item = task[d].item /\ task'[d].via = task[d].via
              /\ task'[d].todo = task[d].todo
          BY <1>6, <1>9, <4>2, <5>1
        <5>3. InLoop(d, t)'
          BY <1>2, <4>2, <5>2 DEF InLoop, connVars
        <5> QED
          BY <5>3 DEF Held
      <4>3. CASE InLoop(c, t)
        <5>1. CASE t = u /\ task[c].via = client
          <6>1. CASE ok
            BY <1>2, <1>4, <5>1, <6>1 DEF Held, connVars
          <6>2. CASE ~ok
            BY <3>3, <5>1, <6>2 DEF Held
          <6> QED
            BY <6>1, <6>2
        <5>2. CASE In(t, task[c].todo)
          <6>1. task[c].todo # <<>>
            BY <5>2, InNone
          <6>2. t = r.item \/ In(t, r.todo)
            BY <1>1, <1>3, <5>2, <6>1, InFacts
          <6>3. InLoop(c, t)'
            BY <1>2, <1>3, <1>9, <6>1, <6>2, Kinds DEF InLoop, connVars
          <6> QED
            BY <6>3 DEF Held
        <5> QED
          BY <4>3, <5>1, <5>2 DEF InLoop
      <4> QED
        BY <3>2, <4>1, <4>2, <4>3 DEF TracksItems, Held
    <3>5. TracksItems'
      BY <1>2, <1>4, <3>2, <3>4 DEF TracksItems, connVars
    <3>6. ASSUME NEW p \in Passes, task'[p].live
          PROVE  /\ task'[p].via = client
                 /\ \A t \in Tiles : In(t, pendingTiles)' => Looped(p, t)'
      <4>1. p \in Tasks /\ p # c /\ task'[p] = base[p] /\ task[p].live
        BY <1>1, <1>6, <1>9, <3>6 DEF Tasks
      <4>2. task[p].via = client /\ \A t \in Tiles : In(t, pendingTiles) => Looped(p, t)
        BY <3>2, <4>1 DEF TracksPasses
      <4>3. /\ task'[p].item = task[p].item /\ task'[p].via = task[p].via
            /\ task'[p].still = task[p].still
            /\ \A t \in Tiles : In(t, task'[p].todo) <=> In(t, task[p].todo) \/ (~ok /\ t = u)
        BY <1>6, <1>7, <4>1
      <4> QED
        BY <1>2, <1>4, <3>3, <4>2, <4>3 DEF Looped, connVars
    <3>7. TracksPasses'
      BY <1>2, <3>6 DEF TracksPasses, connVars
    <3> QED
      BY <3>5, <3>7
  <2> QED
    BY <2>1, <2>2, <2>3 DEF SyncInv, NotLost
<1> QED
  BY <1>8, <1>10, <1>11 DEF SyncInv

-----------------------------------------------------------------------------
\* A pass that starts its loop over what is pending.  Its task was not at a tile.
LEMMA LoopSyncs ==
  ASSUME TypeOK, SyncInv, NEW p \in Passes, NEW a \in BOOLEAN, LoopTiles(p, a),
         task[p].item \notin Tiles, UNCHANGED <<connVars, refreshing>>,
         subscribed \subseteq subscribed',
         pendingChat' => pendingChat,
         \/ raced'
         \/ ~raced /\ (pendingChat => pendingChat' \/ <<Chat, client>> \in subscribed')
  PROVE  SyncInv'
<1>1. /\ p \in Tasks /\ client \in Conns /\ p \notin Conns /\ pendingTiles \in Seq(Tiles)
      /\ p # client
  BY Kinds DEF TypeOK, Tasks
<1>2. CASE pendingTiles = <<>>
  <2>1. /\ pendingTiles' = <<>> /\ task' = [Detached EXCEPT ![p] = Idle]
        /\ timer' = (a \/ pendingChat' \/ <<>> # <<>>)
    BY <1>2 DEF LoopTiles, EndPass
  <2>2. Shaped'
    BY <1>1, <2>1, IdleTyped, IdleFields, TileOne, Kinds, ShapedBy DEF SyncInv, connVars
  <2>3. Armed'
    BY <2>1 DEF Armed
  <2>4. /\ \A j \in Tasks : j # p => /\ task'[j].item = task[j].item
                                     /\ task'[j].via = task[j].via
                                     /\ task'[j].todo = task[j].todo
        /\ \A j \in Tasks : ~task'[j].live
    BY <1>1, <2>1, DetachedTyped, IdleFields DEF TypeOK, Detached, Records
  <2>5. NotLost'
    <3>1. CASE Doomed
      BY <1>1, <2>1, <3>1, IdleTyped, TileOne, DoomedBy DEF NotLost
    <3>2. CASE ~raced' /\ (Past => TracksItems /\ TracksPasses)
      <4> SUFFICES ASSUME Past' PROVE TracksItems' /\ TracksPasses'
        BY DEF NotLost
      <4>1. Past
        BY <1>1, <2>4 DEF Past, Busy, Tasks, connVars
      <4>2. TracksItems
        BY <3>2, <4>1
      <4>3. \A c \in Conns, t \in Tiles : InLoop(c, t) => InLoop(c, t)'
        BY <1>1, <2>4 DEF InLoop, Tasks, connVars
      <4>4. TracksItems'
        BY <1>2, <2>1, <3>2, <4>2, <4>3 DEF TracksItems, Held, connVars
      <4>5. TracksPasses'
        BY <2>4 DEF TracksPasses, Tasks
      <4> QED
        BY <4>4, <4>5
    <3> QED
      BY <3>1, <3>2 DEF SyncInv, NotLost
  <2> QED
    BY <2>2, <2>3, <2>5 DEF SyncInv
<1>3. CASE pendingTiles # <<>>
  <2> DEFINE s == [Idle EXCEPT !.todo = pendingTiles, !.live = TRUE]
             r == NextTile(s)
  <2>1. s \in Records /\ s.todo = pendingTiles /\ s.live /\ s.still = <<>>
    BY <1>1, LoopTyped, IdleTyped, IdleFields DEF Records
  <2>2. /\ task' = [task EXCEPT ![p] = r] /\ timer' = a /\ UNCHANGED pendingTiles
    BY <1>3 DEF LoopTiles
  <2> HIDE DEF s
  <2>3. /\ r \in Records /\ r.live /\ r.item \in Tiles /\ r.item = Head(pendingTiles)
        /\ r.todo = Tail(pendingTiles) /\ r.via = client
    BY <1>1, <1>3, <2>1, NextFields, NextTileTyped
  <2> HIDE DEF r
  <2>4. Shaped'
    BY <1>1, <2>2, <2>3, TileOne, Kinds, ShapedBy DEF SyncInv, connVars
  <2>5. task'[p] = r /\ \A j \in Tasks : j # p => task'[j] = task[j]
    BY <1>1, <2>2 DEF TypeOK
  <2>6. Armed'
    BY <1>1, <2>3, <2>5, Kinds DEF Armed, Busy
  <2>7. NotLost'
    <3>1. CASE Doomed
      BY <1>1, <2>2, <2>3, <3>1, TileOne, DoomedBy DEF NotLost
    <3>2. CASE ~raced' /\ (Past => TracksItems /\ TracksPasses)
      <4> SUFFICES ASSUME Past' PROVE TracksItems' /\ TracksPasses'
        BY DEF NotLost
      <4>1. Past
        BY <1>1, <2>5 DEF Past, Busy, Tasks, connVars
      <4>2. TracksItems /\ TracksPasses
        BY <3>2, <4>1
      <4>3. \A c \in Conns, t \in Tiles : InLoop(c, t) => InLoop(c, t)'
        BY <1>1, <2>5 DEF InLoop, Tasks, connVars
      <4>4. TracksItems'
        BY <2>2, <3>2, <4>2, <4>3 DEF TracksItems, Held, connVars
      <4>5. \A t \in Tiles : In(t, pendingTiles) => Looped(p, t)'
        <5>1. \A t \in Tiles : In(t, pendingTiles) => t = r.item \/ In(t, r.todo)
          BY <1>1, <1>3, <2>3, InFacts
        <5> QED
          BY <2>5, <5>1 DEF Looped
      <4>6. \A q \in Passes : q # p => task'[q] = task[q]
        BY <2>5 DEF Tasks
      <4>7. TracksPasses'
        BY <2>2, <2>3, <2>5, <4>2, <4>5, <4>6 DEF TracksPasses, Looped, connVars
      <4> QED
        BY <4>4, <4>7
    <3> QED
      BY <3>1, <3>2 DEF SyncInv, NotLost
  <2> QED
    BY <2>4, <2>6, <2>7 DEF SyncInv
<1> QED
  BY <1>2, <1>3

\* A pass that is done with the chat.
LEMMA PassChatSyncs ==
  ASSUME TypeOK, SyncInv, NEW p \in Passes, NEW ok \in BOOLEAN, PassChatDone(p, ok)
  PROVE  SyncInv'
<1>1. /\ p \in Tasks /\ task[p].item = Chat /\ Outcome(p, ok)
      /\ pendingChat' = (pendingChat /\ ~ok) /\ LoopTiles(p, timer)
      /\ raced' = (raced \/ (ok /\ task[p].via # client))
      /\ UNCHANGED <<connVars, refreshing>> /\ timer \in BOOLEAN
      /\ task[p].item \notin Tiles
  BY Kinds DEF TypeOK, Tasks, PassChatDone
<1>2. subscribed \subseteq subscribed' /\ (ok => <<Chat, task[p].via>> \in subscribed')
  BY <1>1, OutcomeFacts
<1>3. \/ raced'
      \/ ~raced /\ (pendingChat => pendingChat' \/ <<Chat, client>> \in subscribed')
  BY <1>1, <1>2
<1>4. pendingChat' => pendingChat
  BY <1>1
<1> QED
  BY <1>1, <1>2, <1>3, <1>4, LoopSyncs

\* A pass that starts.
LEMMA StartSyncs ==
  ASSUME TypeOK, SyncInv, StartPass
  PROVE  SyncInv'
<1>1. PICK p \in Passes :
        /\ ~Busy(p)
        /\ UNCHANGED pendingChat
        /\ IF pendingChat
             THEN /\ task' = [task EXCEPT ![p] = Call(Idle, Chat)]
                  /\ timer' = FALSE
                  /\ UNCHANGED pendingTiles
             ELSE LoopTiles(p, FALSE)
  BY DEF StartPass
<1>2. /\ UNCHANGED <<connVars, refreshing, subscribed, raced>>
      /\ p \in Tasks /\ p \notin Conns /\ p # client /\ client \in Conns
      /\ task[p].item \notin Tiles
  BY <1>1, Kinds DEF TypeOK, Tasks, StartPass, Busy
<1>3. CASE ~pendingChat
  <2>1. LoopTiles(p, FALSE) /\ subscribed \subseteq subscribed'
        /\ (pendingChat' => pendingChat)
    BY <1>1, <1>2, <1>3
  <2>2. CASE ~raced
    BY <1>2, <1>3, <2>1, <2>2, LoopSyncs
  <2>3. CASE raced
    BY <1>2, <2>1, <2>3, LoopSyncs
  <2> QED
    BY <2>2, <2>3
<1>4. CASE pendingChat
  <2> DEFINE r == Call(Idle, Chat)
  <2>1. /\ task' = [task EXCEPT ![p] = r] /\ UNCHANGED <<pendingChat, pendingTiles>>
    BY <1>1, <1>4
  <2>2. r \in Records /\ r.item = Chat /\ ~r.live
    BY <1>2, IdleTyped, IdleFields, CallTyped DEF Call, Items, Records
  <2> HIDE DEF r
  <2>3. Shaped'
    BY <1>2, <2>1, <2>2, TileOne, Kinds, ShapedBy DEF SyncInv, connVars
  <2>4. task'[p] = r /\ \A j \in Tasks : j # p => task'[j] = task[j]
    BY <1>2, <2>1 DEF TypeOK
  <2>5. Armed'
    BY <1>2, <2>2, <2>4, Kinds DEF Armed, Busy
  <2>6. Doomed => Doomed'
    BY <1>2, <2>1, <2>2, TileOne, DoomedBy
  <2>7. Past' => Past
    BY <1>2, <2>4 DEF Past, Busy, Tasks, connVars
  <2>8. \A c \in Conns, t \in Tiles : InLoop(c, t) => InLoop(c, t)'
    BY <1>2, <2>4 DEF InLoop, Tasks, connVars
  <2>9. TracksItems => TracksItems'
    BY <1>2, <2>1, <2>8 DEF TracksItems, Held, connVars
  <2>10. \A q \in Passes : task'[q].live => task'[q] = task[q]
    BY <2>2, <2>4 DEF Tasks
  <2>11. TracksPasses => TracksPasses'
    BY <1>2, <2>1, <2>10 DEF TracksPasses, Looped, connVars
  <2> QED
    BY <1>2, <2>3, <2>5, <2>6, <2>7, <2>9, <2>11 DEF SyncInv, NotLost
<1> QED
  BY <1>3, <1>4

\* A tile that a pass is done with is subscribed to or will be pending again.
LEMMA PassTileSyncs ==
  ASSUME TypeOK, SyncInv, NEW p \in Passes, NEW ok \in BOOLEAN, PassTileDone(p, ok)
  PROVE  SyncInv'
<1> DEFINE u == task[p].item
           still == IF ok THEN task[p].still ELSE Append(task[p].still, u)
<1>1. /\ p \in Tasks /\ p \notin Conns /\ p # client /\ client \in Conns
      /\ u \in Tiles /\ task[p] \in Records /\ task \in [Tasks -> Records]
      /\ task[p].todo \in Seq(Tiles) /\ task[p].still \in Seq(Tiles)
  BY Kinds DEF TypeOK, Tasks, PassTileDone, Records
<1>2. /\ Outcome(p, ok) /\ UNCHANGED <<connVars, refreshing, pendingChat>>
  BY DEF PassTileDone
<1>3. /\ subscribed \subseteq subscribed'
      /\ ok => <<u, task[p].via>> \in subscribed'
  BY <1>1, <1>2, OutcomeFacts
<1>4. /\ still \in Seq(Tiles)
      /\ \A t \in Tiles : In(t, still) <=> In(t, task[p].still) \/ (~ok /\ t = u)
  BY <1>1, InFacts
<1>5. ASSUME Past, TracksPasses, task[p].live, NEW t \in Tiles, In(t, pendingTiles)
      PROVE  <<t, client>> \in subscribed' \/ In(t, still) \/ In(t, task[p].todo)
  <2>1. task[p].via = client /\ Looped(p, t)
    BY <1>5 DEF TracksPasses
  <2> HIDE DEF still
  <2> QED
    BY <1>3, <1>4, <2>1 DEF Looped
<1>6. CASE task[p].todo = <<>>
  <2>1. /\ pendingTiles' = still /\ task' = [Detached EXCEPT ![p] = Idle]
        /\ timer' = (timer \/ pendingChat' \/ still # <<>>)
        /\ raced' = (raced \/ ~task[p].live)
    BY <1>6 DEF PassTileDone, EndPass
  <2> HIDE DEF still
  <2>2. Shaped'
    BY <1>1, <1>2, <1>3, <2>1, IdleTyped, IdleFields, TileOne, Kinds, ShapedBy
       DEF SyncInv, connVars
  <2>3. Armed'
    BY <2>1 DEF Armed
  <2>4. /\ \A j \in Tasks : j # p => /\ task'[j].item = task[j].item
                                     /\ task'[j].via = task[j].via
                                     /\ task'[j].todo = task[j].todo
        /\ \A j \in Tasks : ~task'[j].live
    BY <1>1, <2>1, DetachedTyped, IdleFields DEF TypeOK, Detached, Records
  <2>5. NotLost'
    <3>1. CASE raced'
      BY <3>1 DEF NotLost
    <3>2. CASE ~raced' /\ Doomed
      <4>1. PICK q \in Passes : task[q].item \in Tiles /\ ~task[q].live
        BY <3>2 DEF Doomed
      <4>2. q \in Tasks /\ q # p
        BY <2>1, <3>2, <4>1 DEF Tasks
      <4> QED
        BY <2>4, <4>1, <4>2 DEF Doomed, NotLost
    <3>3. CASE ~raced' /\ (Past => TracksItems /\ TracksPasses)
      <4> SUFFICES ASSUME Past' PROVE TracksItems' /\ TracksPasses'
        BY DEF NotLost
      <4>1. Past
        BY <1>1, <1>2, <2>4 DEF Past, Busy, Tasks, connVars
      <4>2. TracksItems /\ TracksPasses /\ task[p].live
        BY <2>1, <3>3, <4>1
      <4>3. \A c \in Conns, t \in Tiles : InLoop(c, t) => InLoop(c, t)'
        BY <1>1, <1>2, <2>4 DEF InLoop, Tasks, connVars
      <4>4. \A t \in Tiles : In(t, pendingTiles) =>
              <<t, client>> \in subscribed' \/ In(t, still)
        BY <1>5, <1>6, <4>1, <4>2, InNone
      <4>5. \A t \in Tiles : Held(t)'
        <5>1. ASSUME NEW t \in Tiles PROVE Held(t)'
          <6>1. Held(t)
            BY <4>2 DEF TracksItems
          <6> QED
            BY <1>2, <1>3, <2>1, <4>3, <4>4, <6>1 DEF Held, connVars
        <5> QED
          BY <5>1
      <4>6. TracksItems'
        BY <1>2, <1>3, <4>2, <4>5 DEF TracksItems, connVars
      <4>7. TracksPasses'
        BY <2>4 DEF TracksPasses, Tasks
      <4> QED
        BY <4>6, <4>7
    <3> QED
      BY <2>1, <3>1, <3>2, <3>3 DEF SyncInv, NotLost
  <2> QED
    BY <2>2, <2>3, <2>5 DEF SyncInv
<1>7. CASE task[p].todo # <<>>
  <2> DEFINE s == [task[p] EXCEPT !.still = still]
             r == NextTile(s)
  <2>1. /\ task' = [task EXCEPT ![p] = r]
        /\ UNCHANGED <<pendingTiles, timer, raced>>
    BY <1>1, <1>7 DEF PassTileDone
  <2> HIDE DEF still
  <2>2. s \in Records /\ s.todo = task[p].todo /\ s.live = task[p].live /\ s.still = still
    BY <1>1, <1>4 DEF Records
  <2> HIDE DEF s
  <2>3. /\ r \in Records /\ r.item = Head(task[p].todo) /\ r.item \in Tiles
        /\ r.todo = Tail(task[p].todo) /\ r.via = client
        /\ r.live = task[p].live /\ r.still = still
    BY <1>1, <1>7, <2>2, NextFields, NextTileTyped
  <2> HIDE DEF r
  <2>4. Shaped'
    BY <1>1, <1>2, <1>3, <2>1, <2>3, TileOne, Kinds, ShapedBy DEF SyncInv, connVars
  <2>5. task'[p] = r /\ \A j \in Tasks : j # p => task'[j] = task[j]
    BY <1>1, <2>1
  <2>6. Armed'
    BY <1>1, <2>3, <2>5, Kinds DEF Armed, Busy
  <2>7. Doomed => Doomed'
    BY <1>1, <2>3, <2>5 DEF Doomed, Tasks
  <2>8. Past' => Past
    BY <1>1, <1>2, <2>5 DEF Past, Busy, Tasks, connVars
  <2>9. \A c \in Conns, t \in Tiles : InLoop(c, t) => InLoop(c, t)'
    BY <1>1, <1>2, <2>5 DEF InLoop, Tasks, connVars
  <2>10. TracksItems => TracksItems'
    BY <1>2, <1>3, <2>1, <2>9 DEF TracksItems, Held, connVars
  <2>11. ASSUME Past, TracksPasses PROVE TracksPasses'
    <3>1. ASSUME NEW q \in Passes, q # p, task'[q].live
          PROVE  /\ task'[q].via = client
                 /\ \A t \in Tiles : In(t, pendingTiles) => Looped(q, t)'
      <4>1. task'[q] = task[q]
        BY <2>5, <3>1 DEF Tasks
      <4> QED
        BY <1>2, <1>3, <2>11, <3>1, <4>1 DEF TracksPasses, Looped, connVars
    <3>2. ASSUME task'[p].live
          PROVE  /\ task'[p].via = client
                 /\ \A t \in Tiles : In(t, pendingTiles) => Looped(p, t)'
      <4>1. task[p].live
        BY <2>3, <2>5, <3>2
      <4>2. \A t \in Tiles : In(t, task[p].todo) => t = r.item \/ In(t, r.todo)
        BY <1>1, <1>7, <2>3, InFacts
      <4> QED
        BY <1>2, <1>5, <2>3, <2>5, <2>11, <4>1, <4>2 DEF Looped, connVars
    <3> QED
      BY <1>2, <2>1, <3>1, <3>2 DEF TracksPasses, connVars
  <2> QED
    BY <2>1, <2>4, <2>6, <2>7, <2>8, <2>10, <2>11 DEF SyncInv, NotLost
<1> QED
  BY <1>6, <1>7

-----------------------------------------------------------------------------
\* Before the first connection is open there is nothing to forget.
LEMMA SyncInit == Init => SyncInv
<1> SUFFICES ASSUME Init PROVE SyncInv
  OBVIOUS
<1>1. \A k \in Tasks : /\ task[k].item = Nothing /\ ~task[k].live
  BY IdleFields DEF Init
<1>2. client = 1 /\ socket[1] # "open" /\ ~pendingChat /\ pendingTiles = <<>>
  BY Kinds DEF Init
<1>3. Shaped
  BY <1>1, <1>2, Kinds DEF Shaped, Busy, Tasks
<1> QED
  BY <1>2, <1>3 DEF SyncInv, Armed, NotLost, Past

\* Every step keeps hold of every item.
LEMMA SyncStep == TypeOK /\ LatestTells /\ SyncInv /\ [Next]_vars => SyncInv'
<1> SUFFICES ASSUME TypeOK, LatestTells, SyncInv, [Next]_vars PROVE SyncInv'
  OBVIOUS
<1>1. CASE Connect
  BY <1>1, ConnectSyncs
<1>2. ASSUME NEW c \in Conns, Open(c) \/ Close(c) PROVE SyncInv'
  BY <1>2, OpenSyncs, CloseSyncs
<1>3. ASSUME NEW k \in Tasks, Fetch(k) PROVE SyncInv'
  BY <1>3, FetchSyncs
<1>4. ASSUME NEW k \in Tasks, NEW ok \in BOOLEAN, Settle(k, ok) PROVE SyncInv'
  BY <1>4, PassChatSyncs, PassTileSyncs, RegistrySyncs, ChatSyncs, TileSyncs
     DEF Settle, Tasks
<1>5. CASE StartPass
  BY <1>5, StartSyncs
<1>6. ASSUME NEW i \in Items, Refresh(i) PROVE SyncInv'
  <2>1. UNCHANGED <<connVars, syncVars, subscribed, raced>>
    BY <1>6 DEF Refresh
  <2>2. Past' <=> Past
    BY <2>1 DEF Past, Busy, connVars, syncVars
  <2> QED
    BY <2>1, <2>2, RestSyncs DEF connVars
<1>7. CASE UNCHANGED vars
  <2>1. Past' <=> Past
    BY <1>7 DEF Past, Busy, vars, connVars, syncVars
  <2> QED
    BY <1>7, <2>1, RestSyncs DEF vars, connVars
<1> QED
  BY <1>1, <1>2, <1>3, <1>4, <1>5, <1>6, <1>7 DEF Next

\* For any number of connections, tiles and passes, however their procedures
\* interleave and whatever fails: unless one of the two races occurred, a page that
\* is connected and has nothing more to do is subscribed to everything, on the
\* latest connection.
THEOREM NothingIsForgotten == SafeSpec => []OnlyRacesForget
<1>1. SafeSpec => [](TypeOK /\ LatestTells /\ SyncInv)
  BY TypeInit, TypeStep, TellsInit, TellsStep, SyncInit, SyncStep, PTL DEF SafeSpec
<1> QED
  BY <1>1, HeldIsHeard, PTL
=============================================================================
