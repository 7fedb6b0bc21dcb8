# FreePlace: models, checks and proofs

FreePlace is a shared pixel canvas on the Freenet network.  Its state lives in
contracts (WebAssembly that every peer of the network runs on its replica),
its keys in a delegate on the user's node, and everything else in the browser.
This directory holds TLA+ modules that model the parts where order, failure
and concurrency matter, TLC configurations that check them on small instances,
and proofs, checked by TLAPS, of what holds on all instances.  Paths below are
relative to `src/`.

## 1. The system

| component | state | operations | interacts with |
|---|---|---|---|
| tile CRDT, `common/src/tile.rs` | per author a live log (the newest `MAX_PLACEMENTS_PER_AUTHOR` = 8 placements) and a baked log (the next `MAX_BAKED_PER_AUTHOR` = 65536), keyed by timestamp | insert, bake, merge, summarize, delta, apply_delta; valid_placements and derive_canvas compute the picture | called by the tile contract; mirrored by `web/src/state.ts` |
| tile contract, `contracts/tile-contract` | one replica on every peer | update_state, summarize_state, get_state_delta, validate_state | the host; the registry as a related contract |
| chat CRDT and contract, `common/src/chat.rs`, `contracts/chat-contract` | the newest 500 messages, at most 32 of an author | insert, merge, delta and so on; valid_messages shows an author's messages 3 seconds apart | as the tile's |
| registry CRDT and contract, `common/src/registry.rs`, `contracts/registry-contract` | per author the core of its admission (smallest wins) and a nickname (largest wins) | insert_record, apply_nickname, merge, summarize, delta, apply_delta | the tier of a core sets the cooldown on every tile: 20 s by proof of work, 2 s by ghost key |
| facade contract, `common/src/facade.rs`, `contracts/facade-contract` | the owner's newest signed pointer to the web application | update_state and the rest | what it points to is what a page load gets |
| identity delegate, `delegates/identity-delegate` | a secret store with a slot per web container | get identity, adopt the key of an older container, sign | the browsers, by messages through the node |
| identity client, `web/src/identity.ts`, `web/src/freenet-api.ts` | one line of waiters for the answers of two delegates, their timeouts | adoption probes, then the own identity; signing | the delegates |
| release pipeline, `scripts/release.sh` | the manifest, the files of displaced ids, what was published | build, record, publish, flip the facade pointer, verify, write the manifest | a new contract build is a new, empty instance |
| legacy migration, `web/src/backend.ts` | per tab a queue of displaced instances to probe | queue on an empty state, fetch, fold | instances of several releases, other tabs |
| browser connection and synchronisation, `web/src/backend.ts` | the latest client, the items still to be synchronised, timers, subscriptions | connect, onOpen, syncAll, notifications, retries, refreshes | contracts through the node; migration starts after a syncAll |
| browser sending, `web/src/backend.ts`, `web/src/main.ts` | the page's cooldown, the SDK's lines of promises, the contracts that are put first | place, chat; update or put, retry | contracts, delegate |
| browser registry view, `web/src/state.ts`, `web/src/backend.ts` | tier, admission time, nickname and its version of every author | replaced by whole states, merged with refreshes and deltas, written ahead of the network | the registry; the next version of a nickname and the date of an upgrade are read from it |
| CRDT mirrors, `web/src/state.ts`, `web/src/merge.ts` | a page's tiles and chat, and the bytes that a put replaces | the contracts' operations, in TypeScript | what a page shows and puts |
| onboarding, `web/src/main.ts`, `web/src/pow-worker.ts` | the steps of an admission, an upgrade, a nickname edit | ask for a challenge, search a nonce or prove a ghost key, sign, send | both delegates, the registry |

What makes these parts hard:

* Replicas are told the same things in different orders, repeatedly, as single
  placements, as deltas computed against stale summaries and as whole states,
  while logs with caps drop their oldest entries.  **Correct** is: the replica
  is a function of the *set* of what it was told.
* A cooldown filter reads what the caps left.  **Correct** is: eviction changes
  no verdict.
* An admission and a nickname travel apart, and an upgrade is a second
  admission.  **Correct** is: earliest admission, newest nickname, for good.
* The browser has its own implementation of all this, in another language and on
  other data structures.  **Correct** is: what it shows and puts is what the
  contract's crate would show and make.
* A release is a list of effects without rollback, run again after failures;
  browsers of several releases are open at once.  **Correct** is: nothing that
  users placed, and no key, is left behind.
* An answer names no request: one delegate's late answer, or another's error, is
  handed to a waiter that it is not for.  **Correct** is: nobody sends a signature
  that was made for something else, nor is told of another's success.
* The page's synchronisation is several procedures of several connections that
  interleave at every await and share their lists.  **Correct** is: a connection
  that stays ends up with every subscription, and what failed is retried.
* A user acts on a view that is ahead of the network in some respects and behind
  it in others.  **Correct** is: the view ends up with what the network keeps, and
  an edit made in view of another wins.

`PROJECT.json` lists each hazard at its line, with the properties about it.

## 2. Modules

    Tile --- TileNet ------ WebTile ------ MCTileNet, TileNet_proofs
    Chat --- ChatNet ------ WebChat ------ MCChatNet, ChatNet_proofs
    Registry --- RegistryNet --------- WebRegistry --- MCRegistryNet, WebRegistry_proofs
      +--- RegistryJs -- (WebRegistry)
             +--- Admission --- MCAdmission, WebRegistry_proofs
    Facade --- MCFacade
    Release --- Migration --- MCMigration, Migration_proofs (and of Facade)
    Identity --- MCIdentity, Identity_proofs
    WebSync --- MCWebSync, WebSync_proofs
    Placing --- MCPlacing, Placing_proofs
    Folding: what a fold and an ordered walk do; for the proofs of tiles and chat

    ContractNet: instantiated by TileNet, ChatNet, RegistryNet and Facade (as `Host`)
    Replica: instantiated by TileNet_proofs, ChatNet_proofs, WebRegistry_proofs and
      Migration_proofs, for any one peer's replica of each contract

**ContractNet** is the host's side of every contract: peers with a replica and
a clock, and messages between them.  `Submit` is a client's delta, `Ask` and
`Answer` the exchange of a summary and the delta computed for it later,
`PushState` and `PushBoth` whole states; `Receive` leaves a message in flight
(repetition), `Lose` drops one, and any message may overtake any other.
`Update` is update_state: all parts verified first, then joined.  The host is
not in the repository; its behaviour is the weakest that the contract interface
allows, and is marked external.  The contract's operators are parameters.

**Replica** is the abstract specification of one replica of any contract: it learns
facts (`Learn`), any number at a time and some perhaps again, and what it holds is
the join of all it has learnt.  What a fact and a join are is given by each contract:
placements and the reference of a tile, messages and the reference of a chat,
admissions and nicknames and the smallest and largest of them, pointers and the newest.

**Tile** has the operations on the logs.  A log, in the code a map from author
and timestamp, is a set of placements; `Winners` is the choice of a slot's
winner (larger signature), `Newest` the cap, `LogInsert` log_insert, `Insert`
TileState::insert with the bake of what the live log displaces, `Bake` the
insertion into the baked log.  `NewestTile(S)` is the reference: what a tile
that was told S at once would hold.
**TileNet** adds the batches in the code's order of iteration (`Merge`: live
entries inserted, then baked ones baked), watermarks and deltas, the clock
checks of the contract, validate_state, and the picture: `Chain` is the greedy
cooldown chain of one author, `DeriveCanvas` the last writer of every coordinate.

**Chat** and **ChatNet** do the same for the chat, with its two caps (`Insert`
evicts the author's oldest, then the oldest of all) and the display filter.

**Registry** and **RegistryNet**: `InsertRecord` is the join of two records,
`ApplyNickname` drops the nickname of an unknown author, `Merge`, `Summarize`,
`Delta` and `ApplyDelta` are the state's methods.  merge_state checks no clock
and apply_delta does, as in the contract.

**WebTile**, **WebChat** and **RegistryJs** are the page's `state.ts` and
`merge.ts`, on the page's data: maps of maps from timestamps (`LogInsertJs` with
its loop of deletions), a map from message ids, records without proofs.
`PlacementSlotWinner`, `LwwGreater`, `MessageIdKey` and the rest keep the code's
own comparisons.  `MergeTileState`, `MergeChatState` and `MergeRegistryState` are
what a put sends, `MergeTileInto`, `MergeIntoView` and `ApplyRegistryDelta` what a
page takes in.  **WebRegistry** puts a page beside the replicas of RegistryNet.
Nothing in them is a step of its own: their properties compare a page with
whatever replicas, states and deltas the networks reach.

**Facade**: a state is a pointer or the empty bytes, `Newer` the order by version
and signature, `Delta` nothing when the summary's version is not older.

**Release** is release.sh for one contract.  `Start` reads the manifest,
`Record` is record_legacy, `BuildAndPublish` bakes the reversed ids into the
application, `Flip` moves the pointer (or the network keeps serving the old one),
`Finish` verifies and writes the manifest, `Abort` is `set -e` or an interrupt
at any point.  **Migration** composes it with the tabs that load what is
released: `Load`/`Resync` queue a probe when the current instance is empty
(getStateWithLegacyProbe), `Fetch`, `PassOver`, `Fold` and `FoldFails` are the
loop of processLegacyProbes with its two awaits, `Place` stands for all that
users do, and `Upgrade` is any step of a release.  Fetch and Fold are separate
steps: that is where other tabs act.

**Identity** is the secret store (a slot per container: a key, absent, or
blanked), the delegate's two state-changing requests with every refusal of a
write, and tabs that run adoptOrGetIdentity: probes newest first, each with a
timeout, then the own identity.  An answer goes to whichever waiter is there.
A reconnection starts a new conversation; requests of the old one that the node
had not processed are taken as dropped.  `Release` is what a release does to all
that: it bakes the reversed file of displaced containers (`displaced`, `webapp.ids`)
into the application as the list that it will probe (`probes`), *then* records there the
container of the last full release (`Recorded`, from the manifest), and moves the
pointer; it may fail before or after that.  So an application does not probe its
predecessor, nor the container of a release that failed after the flip.

**WebSync** is the life of a page's connection: `Connect`, `Open` and `Close` are
the sockets, with `this.client` the latest one from the moment that it is made.
A `task` is the onOpen of a connection or a pass of retryPendingSync, and waits
for one call at a time on the connection that was the latest when it made the
call.  `Fetch` goes on to the subscription, `RegistryDone`, `ChatDone`,
`TileDone`, `PassChatDone` and `PassTileDone` are what follows when an item is
done or has failed, up to the next await.  That `for .. of` goes on over an
array to which another task pushes, but not over one that replaced it, is kept
by `live`.  The attempts of one call, and the awaits before the registry's
(delegate and identity), are taken for one call.

**Placing** is what a page sends.  A job is a placement (`Place`, with the page's
cooldown, started before anything is sent) or a message (`Say`).  It waits for its
signature in `pendingDelegate`, then goes through updateWithRetry (`StartAttempt`,
`AttemptFails`, `Retry`) and the two alternatives of updateOrPut in either order
(`AlternativeFails`, `putFirst`), with the fetch and merge of a put between them
(`Fetched`).  `calls` is the SDK's line of promises of each kind: an answer
resolves the oldest, which may be one that nobody waits for any more (`Abandoned`).
The node serves a request or refuses it (`Refuse`: not admitted yet, off the
mesh); an error of the host, whatever it is about, fails the oldest waiter of the
delegate (`FailNextDelegate`).  `Reconnect` loses the answers of what may have
been served.

**Admission** is how a page's user is admitted and named.  A flow is one of the
page's asynchronous functions: startAdmission up to its challenge and the probe for
ghost keys beside it (`Connect`), the worker (`FindNonce`), the button for a ghost
key, the upgrade, and edits of the nickname.  `OnDelegateResponse` resumes the
flow that waits, `Resume` with what each does with the answer it expects or with
any other; `OnRegistry` closes the onboarding and stops the worker.  `view` is
backend.registry: written ahead by `Signed`, merged by `Refresh` and `ToldOf`, and
replaced by `ReceiveState`, which hands it a state that was fetched earlier.  Another page of
the identity writes to the same record (`Elsewhere`).  updateWithRetry is here an
update that is applied once, again or never (`Apply`, `Acknowledge`, `GiveUp`):
its inside is Placing's.  It may also return because the SDK resolved its promise with the
response to another of the page's updates, while its own was not applied
(`AcknowledgeForOther`): to another admission or edit, or, once the user can
place and chat, to one of these (`SharesLine`).

Conventions.  Signatures are ranks, distinct for distinct contents, since the
code only compares their bytes; colours, texts and coordinates other than for
conflicts are left out.  Variables marked *history* (`heard`, `told`,
`served`, `full`, `placed`, `calm`, `known`, `had`, `alone`, `refused`, `late`, `raced`,
`belated`, `misled`, `crossed`, `setBack`, and the fields `seen`, `after` and `acked` of a job of
Admission) record the past for the properties and influence no action.  The
modules contain some operators that say "a cap that nothing enforces", "an insert
that forgets ..." and so on and that nothing uses: each is a plausible slip in
the definition after it, which `PROJECT.json` lists under "mutants" together with
the property that notices it.

## 3. What is checked

Runs that pass:

| run | instance | shows |
|---|---|---|
| `MCTileNet` | two peers, caps 1 and 1, five placements, clocks to 1, one message in flight | `LayersAreNewest`: layers are a function of the set told, through deltas, states and both at once; `BakingLaundersNothing`, `FreshPeerCatchesUp`, `SameCanvas`; in `TypeOK`, that validate_state refuses nothing that update_state makes; of a page, `PageMergesAlike` and `PageShowsCanvas` |
| `MCChatNet` | two peers, cap 3, author cap 2, six messages of two authors, one id twice | `TypeOK` with validate_state, `BufferIsNewest`, `DisplayIsSpaced`; of a page, `PutsLikeUpdates` and `PageShowsChat` |
| `MCRegistryNet` | two peers, one author with two admissions and three nicknames, two of the same version | `RecordsAreJoins` and the liveness `NicknamesSpread`; of a page, `PutsLikeUpdates` and `ViewFollows` |
| `MCFacade` | two peers, three pointers, two of the same version, two messages | `ServesNewest` and the liveness `EveryoneFollows` |
| `MCMigration` | three builds, three releases, two tabs, two placements, all faults | `FullReleasesKnown`, `CalmUpgradesCarryAll`, and the liveness `CalmUpgradesKeepAll` |
| `MCIdentity` | four containers, two tabs, three connections, releases that fail, late answers, a store that refuses writes | `KeysSurvive`, `AdoptedOnce`, `IdentitySurvives`, `OnlyAdoptedLockedOut` |
| `MCWebSync` | two tiles, three connections of which one is lost, one retry pass at a time | `OnlyRacesForget`, `StatusIsRight`, and the liveness `UpdatesFlow` and `ViewCatchesUp` |
| `MCPlacing` | two jobs on two tiles and the chat, two attempts each, two connections | `SignsWhatWasAsked`, `AcknowledgedIsKept`, `CooldownKept`, and the liveness `EveryJobEnds` |
| `MCAdmission` | one page, two edits, two acts of users, one full state on its way, a clock to 2 | `PageTypeOK`, `SendsWhatItAsked`, `ShowsWhatIsKept`, `UpgradeWins`, `LastEditWins`, and the liveness `OnboardingEnds` and `ViewCatchesUp` |

Runs that end in a violation, each of something that the repository says:

| run | what the code does |
|---|---|
| `TileLaundering` | "eviction cannot launder" (tile.rs): it cannot by moving entries to the baked layer (`BakingLaundersNothing`), but when the baked cap drops the accepted start of a chain, a placement that it had hidden is shown. |
| `WebSyncForgets` | "chat and tiles that fail their initial sync are queued and keep retrying in the background" (backend.ts): a retry pass that is under way when the connection is lost ends by replacing `pendingTiles`, in which the syncAll of the next connection has queued its failures.  Those tiles get no live updates on that connection. |
| `IdentityRekey` | "so identities survive the per-release container re-key" (identity.ts): release.sh bakes the list of containers to probe (line 144) before it records the one that is displaced (line 162).  A user who follows one release to the next finds nothing to adopt there, and is given a second key. |

**Bounds.**  Caps of one and two put an entry through insertion, conflict,
displacement and eviction with four or five placements, and two authors show
that one's eviction leaves the other alone.  Two peers suffice for what a replica
does with what it is told, because the link repeats and reorders and clients
submit anything anywhere; the proofs are for any number.  One message in flight still lets a stale summary, delta or state be
delivered after any number of changes, repeatedly.  A clock to 1 with a skew of
1 (`MaxClock`, `Skew`) makes a timestamp of 2 first come too early and then in
time.  Three builds are the least with a displaced one that is not the last;
two tabs the least for a fold into an instance that another tab has filled.  A
release does not probe its predecessor, so the third container is the first that adopts,
and the fourth the first that can find several and skip one; three connections
let two tabs meet and one come back.  `MaxMsgs`, `MaxReleases`,
`MaxConnects` and `MaxField` only bound what would grow without limit.

In `MCWebSync` two tiles are the least for a pass to have one behind it and one
before it when its array is replaced.  Three connections let one be lost
(`MaxCloses`) and another be left open beside its successor, after a registry
that failed: with either alone, one of the two races of `raced` would not occur.
Both do: without either one of them in `raced`, `OnlyRacesForget` is violated.  Two
passes at a time (`MaxPasses`) were checked with two connections.

In `MCPlacing` two jobs (`MaxJobs`) are the least for a late answer, or another's
promise, to reach the wrong one, and the two attempts (`MaxAttempts`) let the second meet what
the first left behind: dead promises, updates that are served late, a contract
that is put first.  `Wanted` makes the first job a placement on the first tile:
tiles are alike, and what a message has of its own, no cooldown and another kind of
signature, the second job shows.  A cooldown of one and times to
one (`MaxTime`) put two placements within it or just without; two connections
(`MaxConns`) let answers be lost once.  The code makes three
quick attempts and goes on for five minutes: `QuickAttempts` is where giving up
may start, `MaxAttempts` where it must.

In `MCAdmission` two acts (`MaxActs`), of the page's user or of another page, are any
two of admission by ghost key, upgrade, edit and a write from elsewhere; the
onboarding itself is not among them.  One full state (`MaxPushes`) lets a view go
back.  `Named` makes the worker's admission come with a nickname: an onboarding
without one differs by nothing but the later versions.  The clock advances when a user acts or a nonce
is found, which are the times that are written to records; two seconds let an admission come
before, at and after another.

**Symmetry** of peers, tabs, keys and pixels is used only in runs without
liveness properties; authors are ordered and are never permuted.

**Fairness.**  `DeltaSpec` of the contracts: the clocks go on, the host keeps asking, answers
asked again and again are given and arrive again and again (strong fairness, as
a lossy link needs), and messages do not stay for ever.  This is a promise of
the Freenet host, which re-synchronises subscribers by summaries, not of the
repository.  `Migration!Spec` has weak fairness for what a browser has queued
(the loop over `pendingProbes` runs on) and for the loading of the released
application by each tab; none for placing, releasing or failing.  `WebSync!Spec`:
sockets open and timers fire; a call is answered or, by withTimeout, fails; and
whoever keeps calling is answered in the end (strong fairness, for no item in
particular).  Its liveness properties suppose that the connection stays, which
nothing guarantees.  `Placing!Spec` has weak fairness for the page's timers alone:
`EveryJobEnds` holds though no delegate and no node ever answers.  `Admission!PageSpec`:
the timers go off, the worker finds a nonce (18 bits of work, a search that ends
with probability one), updateWithRetry ends (`EveryJobEnds` of Placing says
so), and a notification that is on its way and the refresh of every minute arrive.  Delegates need not
answer there either.

**Deadlock** is checked for the contracts, where clients may always submit again.
Releases, connections, jobs and acts are bounded, so the other runs may stop.

### Known limits of the properties

What the code does not promise, which the properties exclude by name:

* *Tiles, chat and registry.*  The comment on `delta` in tile.rs reads `None` as
  "converged".  Of two replicas, one holding an author's older and the other the newer
  placement, the first asks and gets the newer; the older is below the watermark and
  is never sent.  The same holds of the chat's delta (chat.rs:218), and of the
  registry's, which sends no second admission of an author that the reader knows
  (registry.rs:422).  Whole states repair it.  `FreshPeerCatchesUp` speaks of a
  reader without a watermark, `NicknamesSpread` of being admitted, whichever way.
* *validate_state* refuses a whole state for one author whom the supplied registry does not
  know; how old that registry is, is the host's affair.
* *Upgrades.*  "Upgrades do not lose the canvas" (README.md of the
  repository) holds as `CalmUpgradesKeepAll` says.  A single failed fetch of the displaced
  instance, and a placement before the next connection, and it is never looked for
  again, since a probe is queued only while the current instance is empty; and a
  release that follows before the probes have run leads later tabs to an instance
  that holds only part of the content.
  `calm` is true until one of this happens: a fetch or fold fails or seems to, a tab
  leaves with a probe queued or places with a displaced application, a release is broken
  off, goes back to an older build (`GoesBack`), or moves the pointer while a tab has a
  probe to run (`Hasty`).
* *Releases.*  `FullReleasesKnown` is about complete releases:
  one that fails between the flip of the pointer and the manifest has been served,
  and no later release records it as displaced.  A build that is released, displaced
  and released again keeps its old place in the file of displaced ids, so the ids are
  then not "newest first"; and its own id is among them.  A probe that reaches that id after
  somebody has placed folds the instance into itself, ends there, and carries over nothing
  of the older ones.
* *Chat.*  An answer to a summary need not settle anything.  A buffer that is full of
  others' newer messages drops the one that it was sent; the summary then has no
  watermark for its author, and the other sends it again, each time it is asked.
* *Facade and registry.*  As the registry's two admissions, two pointers signed with one
  version are never reconciled by deltas (facade-contract lib.rs:122): `EveryoneFollows`
  exempts them.
* *Identity.*  `IdentitySurvives` is about the containers that an application knows: its
  own and those it probes.  The one displaced last is not among them, as `IdentityRekey`
  shows: the user gets a fresh key, and the release after that, which probes the older
  container, goes back to the first.  Nor is the container of a release that failed
  after the flip.  `AdoptedOnce` excludes a store that refuses the blanking
  write, whose result the delegate ignores; the key is then in two slots.
  `IdentitySurvives` also excludes two tabs connecting at once: while a tab of the older
  release mints the first key, one of the newer release that has probed already mints
  another, and the first is not adopted any more.
* *Blanked slots.*  They "read as absent" (the delegate's stored_seed), but
  load_or_create_key takes one for a corrupt value: a tab of a container whose key was
  adopted is refused an identity when it connects again, until it is loaded anew.
  `OnlyAdoptedLockedOut` says that this, a store that refuses and answers that come late
  are the only ways to be left without one.
* *Waiters.*  Answers carry no name of their request.  Once a waiter has left the line
  (`misled`: a timeout, or an error of the host that was another's) the late answer goes to the next one,
  and the page shows and sends a signature for something asked before.
  `SignsWhatWasAsked`, `SendsWhatItAsked` and what rests on them exclude that.
* *Acknowledgements.*  The SDK's promises carry no name either (backend.ts:91), and an
  update may be told of another's success.  `AcknowledgedIsKept` excludes jobs that met: two that
  send at once, or one that starts while promises or requests of an earlier one are
  unanswered (`crossed`).  In Admission `crossed` has the flows that were acknowledged
  by another's response before being applied, and the properties exclude those that they
  are about: the page may then show an admission, or announce an upgrade, that the registry
  does not have (`ShowsWhatIsKept`, `UpgradeWins`), an edit that is lost without having
  failed goes on being shown (`LastEditWins`, `ViewCatchesUp`), and a later state
  takes an admission back that had closed the onboarding (`OnboardingEnds`).
* *Connection status.*  onOpen does not look whether its connection is still open when it
  tells the page that it is connected.  If it was lost meanwhile, the page says "connected" over
  closed sockets (`belated`) until the reconnection, which is then due or under
  way: the last case of `StatusIsRight`.
* *Cooldown.*  An attempt that is reported as failed sets the page's cooldown to zero,
  whichever placement it was of, although it may have been applied: `CooldownKept`
  excludes failures.
* *The view.*  A whole state that was fetched before an edit replaces the view
  (`setBack`); the next edit then has a version that is taken, and is lost.
  An edit that failed goes on being shown.  Both are excluded by name in `LastEditWins` and
  `ViewCatchesUp`.  The view breaks ties by what came first, where the contract
  compares signatures: `ViewFollows` excludes ties.  They do occur: a nonce may be found
  while a ghost key is proved, and the two admissions of one second tie.
* *Onboarding.*  startAdmission runs once per page.  When the challenge fails, and the
  error for a missing ghostkeys delegate, probed beside it, may fail it, there is no onboarding
  until the page is loaded again: the third case of `OnboardingEnds`.
* *Chat ids.*  Two tabs of one identity count their messages of a second apart; two with the
  same number are one id, of which one message stays.

## 4. What is proved

Every theorem is for all values of the constants, under the named ASSUMEs of the
modules: caps are positive numbers, contents with equal keys and signatures are
equal, versions and pointers count from one, bounds are numbers.  TLC evaluates
them in the runs.

`TileNet_proofs` (any peers, caps, authors, placements, cooldowns, clocks and bounds):

* `LayersAreDetermined`: `LayersAreNewest`, through single placements, deltas and whole
  states.  Write Top(S, c) for the winners of S that fewer than c slots of their
  author are newer than.  `TopAbsorbs`: cutting S to its Top before more entries come
  changes nothing, since an entry with few newer keys keeps exactly these
  (`FewKeysStay`) and one with many keeps many (`ManyKeysStay`).  `NestedTop` and
  `LayersSplit` turn the reference's one cut at LogCap + BakedCap into two: the baked
  layer is the Top of what the live layer leaves, because above an entry that does not
  fit the live layer is full (`LiveIsFull`).  `RestGrows` says that an insertion adds to
  that rest exactly what the live log displaces.  So `InsertKeepsLayers` and
  `BakeKeepsLayers` hold for one placement, `InsertAll` and `BakeAll` for a batch.  A bake
  needs more than the layers: the entry must be older than a full live log, which
  another replica's baked entries are once its live ones have been inserted
  (`MergeKeepsLayers`).  The inductive invariant is `ReplicaInv`, of the replicas, with
  `NetInv`, of what is in flight.
* `ReplicaLearns`: the replica of every peer implements Replica: it starts as the
  reference of nothing, what it was told only grows (`HistoriesGrow`), and it stays
  the reference of that, which is `ReplicaInv` again.
* `TilesFormASemilattice`: merges of whole states commute, associate and are idempotent,
  and are the joins of what was told (`MergeJoinsHistories`), with nothing assumed of
  the two tiles but that the network reached them.
* `EvictedPlacementsStayAway`, the action property `EvictionIsForGood`: what is in the
  Top of a set is in the Top of every part of it that has it (`TopHeritage`), so what was
  dropped once is dropped after everything else that is told.
* `OneAnswerSettles`: after one answer to its summary a replica has the watermarks of
  a merge, and the other has nothing more for it.  The newest of an author is never
  evicted (`NewestStaysInTop`), so a watermark is that of all that was told of the author,
  dropped entries included (`SummaryCovers`), and what an answer brings raises it to the
  other's (`AnswerTells`).
* `TypeCorrect`, with validate_state: `LogBound` counts an author's entries by the
  timestamps above the oldest.  `BakedStayOlder`: `Spec => []BakedAreOlder`.
* `FreshPeersCatchUp`: a replica's layers are those of what it holds (`HeldSuffices`), so
  a delta of all of it rebuilds it.
* `NothingIsLaundered`: `ChainIsGreedy` says what the cooldown filter accepts as a
  property of a set, not of a walk; nothing in it tells the layers apart.
* `CanvasIsShared`: from `LayersAreNewest`, and the order of last writers being total.
* `PagesMergeAlike`: `PageMergesAlike`.  `Page(tile)` is the maps of maps that
  hold a tile's entries, each under its author and timestamp.  `LogInsertsAlike` shows that the
  loop of deletions cuts a log as the contract does, `OneDisplaced` that it displaces at most
  one entry, `InsertsAlike` and `BakesAlike` that one insertion makes the page of the new tile;
  `InsertsFollow`, `BakesFollow` and `MergesFollow` are the folds over a state's bytes.
* `PagesShowCanvas`: `PageShowsCanvas`.  `ChainsAlike` and `ValidAlike`: the page's filter,
  which walks each author's entries and appends what it accepts, accepts what the crate's
  does.  `WriterOrder` says that `lwwGreater` is a strict total order of placements that differ,
  so `FoldWins`: overwriting in any sequence leaves the greatest of each coordinate.

`ChatNet_proofs` (any peers, caps, authors, messages, intervals, clocks and bounds):

* `BuffersAreDetermined`: `BufferIsNewest`.  Both caps together are not a Top: one more
  message may push an author's older one out and make room, or not.  What is kept of
  a set is kept of every part that has it (`Heritage`, by adding the rest one message
  at a time: `OneMoreAbove`), and what was dropped is not missed (`Outcast`).  So it
  does not matter when a message is dropped (`PathsAgree`).
* `ReplicaLearns`, `ChatsFormASemilattice` and `EvictedMessagesStayAway` as for tiles, from
  these lemmas: `Heritage` is there what `TopHeritage` is for tiles, `PathsAgree` gives the
  join of two histories.
* `TypeCorrect`, with validate_state: `CapsAreKept`.  `DisplaysAreSpaced`:
  `DisplayIsSpaced`, from `ShownAreSpaced`, what the filter does at each place of the
  order.
* `PutsAreUpdates` and `PagesShowChats`: `InsertsAlike` shows that the page's insertion on a
  map from ids, which slices sorted keys, is the contract's; `ShownAlike` that the
  page's filter, which has a map of last times, accepts what the contract's does.

Both rest on **Folding**, which instantiates what is needed of `FoldLeft` (`FoldLeftSteps`)
and of walking a set in order (`SortedSeq`).  The library's induction theorems
take an operator as a parameter, which no prover here can instantiate; `Upto` is
induction by the least counterexample, on a set of numbers, and the operation and the
order are constants of the module that its instances give.

`WebRegistry_proofs` (any peers, authors, admissions, nicknames, bounds), of RegistryNet:

* `TypeCorrect`: everything stored, sent or heard is well formed; the part that is
  not mere typing is that no nickname stands without an admission.
* `ReplicasAreJoins`: `RecordsAreJoins`, every record is the smallest core and
  largest nickname of those told.  The invariant is that a record is the join of the entries heard;
  `InsertJoins` and `NameJoins` prove one step for one author, and the lemmas after
  them lift that to merges, deltas and updates of every kind.
* `ReplicaLearns`: the replica of every peer implements Replica, the join being that of
  `RecordsAreJoins`.
* `RegistriesHoldAlike` and `RegistriesFormASemilattice`: the join of a history is
  unique (`OneJoin`: cores and nicknames that no order tells apart are equal), and a
  merge has the join of both histories (`MergeOfJoins`).  So two registries are equal
  as soon as they join the same, which gives the algebra of merges without a computation.
* `OneAnswerSettles`: after one answer the other's delta is empty.
* `AdmissionsKept`: the action property `AdmissionIsForGood`, from the types.

Of a page: `PutsAreUpdates` and `ViewIsFollowed`.  Neither needs an
invariant but the types: `MergeSame` shows that the page's merge of whole records *is* the
contract's operator, on every well-formed registry and delta, and `MergeShows` and
`DeltaShows` carry the relation between a record and its view (`ShowsLike`) through
each operation of the view.

Of Admission, in the same module (any edits, names, admissions, bounds; no fairness is
used):

* `PageTypeCorrect`: `PageTypeOK`, whose part that is not mere typing is that the waiters in
  line are the flows that ask, each once.  The line has two delegates' waiters mixed, and a
  resumed flow may join it again in the step in which it leaves (`LeavesLine`,
  `JoinsLine`).
* `AnswersFindTheirAskers`: `SendsWhatItAsked`, from `LineInv`.  What keeps two delegates'
  answers apart is that *within* the line each has its own: `Serving` maps the unanswered
  requests of a delegate, in their order, onto the places of its waiters, in
  theirs.  The map is rebuilt when any waiter leaves from the middle (`LineRemove`) or joins
  at the end (`LineAppend`).
* `ShownIsKept`, `UpgradesWin` and `LastEditsWin`, from one invariant, `PageInv`.  None of the
  three is inductive, and each holds but for who was acknowledged by another's response:
  `CrossedGrows` says that these are remembered, so each part of the invariant needs
  what it is about not to be among them.  `Shown` adds the states on their way to the page, which
  may replace its view: they stay below the registry (`Below`: later admission, older
  nickname), which only grows in that order (`RecordGrows`), so a view that is stale is never
  wrong.  `UpgradeJob` says that from its request on an upgrade asks for an admission
  earlier than the one it saw, and `SentJobs` that the registry has its core from
  something that was sent: so a core before the upgrade's that is not of a ghost key was
  sent by somebody.  `EditOrder` orders the versions of edits made in view of one another,
  from the request on; it needs that the shown version never falls, hence `setBack`.  `EditJobs`
  ties a signature to an edit's own request, by `LineInv`.  `StepKinds` sorts the steps by
  what they do to the jobs, so that each part has a few cases and not one for each action.
* `ViewsGoOn`, the action property `OnlyStatesTakeBack`, of everybody that a page shows and
  without the exclusions that the others need (`misled`, `setBack`): no refresh, delta or signature,
  whoever it was meant for, makes an admission later, a nickname older or a tier unknown.
  `ShownGoesOn` is transitive (`GoesOnAgain`); `AdmissionGoesOn` and `NameGoesOn` are the
  two assignments, `ViewGoesOn` the operations made of them, and `ViewSteps` says that a
  step changes the view by one of these, or by `ReceiveState`.

`Identity_proofs` (any containers, tabs, keys, connections, faults): `TypeCorrect`;
`NoKeyIsLost`, that no step destroys a key, and `KeysAreAdoptedOnce`.  All that can touch a
slot is the processing of a request; `SlotEffect` is what each of its outcomes does to
the slots (a move, a mint, a move half done because a write was refused), from
which both follow.  `IdentitiesSurvive`: `IdentitySurvives`, for whatever list of containers a release gave its
application.  `IdentityInv` is about a tab that
had a key when it connected and still resolves it, with no other about: the others ask
nothing; a key is under its own container or under one that it will still probe
(`Findable`), so that none is minted; the own key is asked for last (`Probes`); and
whatever is still on its way, for whichever question, names a key that it had
(`ToldOwn`, `HadAll`).  `OnlyAdoptedAreLockedOut`: `OnlyAdoptedLockedOut`, from `LockInv`.  Every
list that is baked has all that the earlier ones have (`FilesGrow`), so a container that has
adopted may lose its key only to one that knows all that it knew: a blanked slot
stays that of a container which a newer one supersedes (`BlanksSuperseded`).  And while no answer
is late a tab has one question or its own answer under way (`Converses`), so an error, when one
arrives, is that of its own slot.

`Migration_proofs` (any builds, releases, tabs, placements, faults): `TypeCorrect`,
`ManifestIsServed`, `FullReleasesAreKnown` and `CalmUpgradesCarry`.

* `FullReleasesKnown` is not inductive: it says nothing of a run that is under way.
  `RelInv` adds what each stage has established: every full release is in the
  file or is the manifest's; from its record on, in the file or the one under way; and
  what was built has the file's lines.  Both releases and browsers keep it.
* `CalmUpgradesCarry`: `CalmUpgradesCarryAll`, the safety half of "Upgrades do not lose the
  canvas": as long as the upgrades are calm, what was placed and is not in the served
  instance is what its next reader finds, or what a probe will fetch or already holds.
  `CalmInv` makes it inductive.  `CalmRelease` says that the ids stay in
  the order of the builds, `CalmTabs` that every tab's application is of the line that is served
  and probes only what it displaced; `CalmLeft` that all that is left is in *one*
  displaced instance (`Keeps`), that every newer one that is not empty has it too, and
  that every tab which probes from above either holds it or comes to it (`Finds`).
* Facade (any peers, pointers, bounds), whose pointer a release moves: `FacadeTypeCorrect`,
  `NewestIsServed` and `PointerNeverRollsBack`, from one invariant, the conjunction of the types
  and `ServesNewest`; the action property needs it, for the parts of an update.
  `FacadeLearns`, `FacadesServeAlike`, `FacadesMergeAlike` and `FacadesSettle` say of
  facades what the theorems above say of the other replicas.

`Placing_proofs` (any tiles, jobs, attempts, times, cooldown and connections):

* `TypeCorrect`: what is sent is signed, and no job makes more attempts than there is
  room for.
* `SignaturesAreOwn`: `SignsWhatWasAsked`, from `LineInv`: until a waiter leaves the line
  without its answer, the line of waiters *is* the list of unanswered requests, in
  the same order.
* `AcknowledgedStays`: `AcknowledgedIsKept`.  `LinesInv` says that nobody waits twice for
  the delegate and that a job has at most one promise in the SDK's lines, of the kind that it
  waits for; `Abandoned` is what keeps it.  `Kept` adds that, until jobs meet, only one sends and
  every request on its way holds that job's entry, for its contract: whichever of them the node
  serves first, the promise that it resolves told the truth.
* `CooldownsAreKept`: `CooldownKept`.  `Spaced` says it of all placements that were
  started, with the cooldown that the next one waits for, and `Begun` that whatever a
  contract keeps was started, for that contract.
* `JobsGoOnward`: the part of `EveryJobEnds` that needs no fairness.  `Stage` numbers what a
  job does next by its attempt, and by which alternative, and which half of it, it is at;
  no step lowers it (`NobodyGoesBack`), each that touches the job raises it, and it never
  exceeds `LastStage` = 5 * MaxAttempts + 2.  `Onward` is a part of `Steady`, which
  each action is shown to keep.

`WebSync_proofs` (any tiles, connections and passes; no fairness is assumed):

* `TypeCorrect`: every procedure waits for an item on a connection that was made,
  and has only tiles left to do.
* `StatusCorrect`: `StatusIsRight`.  It is not inductive: nothing in it prevents the
  onOpen of the latest connection from ending without a word.  `LatestTells` adds
  why it does not: a socket that is not open runs no onOpen, one that opens starts
  it, there is a tile left until the last one announces the connection, and an
  onOpen that fails at the registry makes a reconnection due, but on the first
  connection, where `refreshing` tells whether any onOpen got to its end.  The
  converse, that a page which says so has an open connection, or said so belatedly with another
  connection under way, is `StatusTold`: if none is open, a reconnection is due
  or opening (`UnderWay`), or nothing was ever said.  Each action has a lemma; `OthersPreserve` covers at once the passes of
  retryPendingSync, fetches and refreshes, which have no say in it.
* `NothingIsForgotten`: `OnlyRacesForget`.  `SyncInv` says where an item can be.  Once the
  onOpen of the latest connection is past the chat, every item is subscribed to on it,
  waited for or left to do there, or pending (`TracksItems`); a pass has all that is pending
  behind it or before it (`TracksPasses`); and while anything is pending, a timer or a
  running procedure will come back to it (`Armed`).  A pass over an array that has
  been replaced (`Doomed`) breaks this when it ends, and is the race.

Theorems that no run states: the types of Registry, Facade, Migration, Identity, WebSync and
Placing; `ReplicaLearns`, the semilattices, `OneAnswerSettles` and the facade's four like
them; `BakedAreOlder`, `ManifestWasServed`, `HoldAlike` and `StagesAreBounded`; and the action properties
`EvictionIsForGood`, `AdmissionIsForGood`, `NeverRollsBack`, `OnlyStatesTakeBack` and `NobodyGoesBack`.

Only model-checked: liveness (temporal reasoning with fairness and ENABLED is
beyond the prover's backends): `NicknamesSpread`, `EveryoneFollows`, `CalmUpgradesKeepAll`,
`UpdatesFlow`, `ViewCatchesUp` of WebSync and of Admission, `EveryJobEnds`, `OnboardingEnds`.
Every safety property that a passing run checks is a theorem.

## 5. What is not modelled

* The host: when it calls validate_state and with how old a registry.  TileNet
  and ChatNet ask it in every state, with a registry that knows everybody or with none.
* Drawing and input (`canvas.ts`, `picker.ts`, `overlay.ts`, the activity list and the
  controls of a replay in `main.ts`): one page, one thread, no shared state.
  A replay's board is `WebTile!DeriveWinners` with its cutoff.
* The CBOR codec and the frame of a web archive: a payload parses or does not, and the
  models exchange values.  So a pass of retryPendingSync that throws, on a state
  that does not decode, is not modelled either; it would end the retries.
* Cryptography: signatures, certificates and the proof of work are valid or absent.
* Of the release, its parameters, keys and archives are one step, `BuildAndPublish`;
  the manual operations scripts (`migrate-tiles-ops.sh` would be an action of
  Migration), `phase5-main.ts`, the mock backend, the smoke tests and the examples.
* In Identity, requests that outlive their connection, and a container in the middle
  that is blanked and then adopts an older key while a tab still acts with the former one.
* In Admission, a connection that is lost, but for the state that its successor fetches
  (`Push`, `ReceiveState`); in Placing, `dispose`.

What could come next: the converse of `OneAnswerSettles`, that two replicas with nothing
to tell each other hold the same, for histories without gaps below the watermarks, and a
variant of the chat's summary for which it is true; and, with a prover for liveness,
`EveryJobEnds` from `JobsGoOnward` and `CalmUpgradesKeepAll` from `CalmUpgradesCarry`.
