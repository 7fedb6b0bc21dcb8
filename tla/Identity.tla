------------------------------ MODULE Identity ------------------------------
(***************************************************************************)
(* The identity of a user: the delegate on the user's node, which keeps a  *)
(* signing key for every web container (delegates/identity-delegate), and  *)
(* the browser tabs that resolve theirs when they connect, through the     *)
(* probes of web/src/identity.ts and the waiters of web/src/freenet-api.ts.*)
(* A release is a new container.  The application in it probes the ones    *)
(* that scripts/release.sh had on file when it was built: that is before   *)
(* the release puts there the one that it displaces.                       *)
(***************************************************************************)
EXTENDS Naturals, Sequences, SequencesExt

CONSTANTS NumApps,       \* the web containers are 1 .. NumApps, in order
          Tabs,
          Keys,          \* the signing keys that entropy may give
          MaxConnects,   \* bound on the connections made
          Faults         \* "slow": answers later than their timeout;
                         \* "store": the secret store refuses a write;
                         \* "abort": a release fails

VARIABLES pointer,    \* the container that a page load gets, 0 for none
          manifest,   \* release.env: the container of the last full release
          displaced,  \* legacy/webapp.ids: the displaced ones, as appended
          probes,     \* for every container built, those it probes
          slot,       \* the secret store, by container
          tab,
          connects,
          refused,    \* history: the store has refused a write
          late        \* history: an answer has come later than its timeout

siteVars == <<pointer, manifest, displaced, probes>>

vars == <<siteVars, slot, tab, connects, refused, late>>

Apps == 1 .. NumApps

\* A slot that was never written, and one blanked with zero bytes.
Absent == "absent"
Blank == "blank"

ASSUME IdentityAssumption ==
  /\ NumApps \in Nat \ {0} /\ MaxConnects \in Nat
  /\ Keys \cap {Absent, Blank} = {}

Closed == [app |-> 0, pc |-> "closed", left |-> <<>>, asked |-> <<>>,
           answers |-> <<>>, vk |-> Absent, known |-> {}, had |-> {},
           alone |-> FALSE]

Adopt(old) == [kind |-> "adopt", old |-> old]
GetIdentity == [kind |-> "identity"]

AdoptResult(key) == [kind |-> "adopted", key |-> key]
IdentityOf(key) == [kind |-> "identity", key |-> key]
Error == [kind |-> "error"]

Waiting(tb) == tb.pc \in {"probing", "getting"}

-----------------------------------------------------------------------------
\* No probe: the own key is asked for at once.
GetAtOnce(tb) ==
  [tb EXCEPT !.pc = "getting", !.asked = Append(@, GetIdentity)]

\* adoptOrGetIdentity's next request: the next older container's key, then
\* the own one.
AskNext(tb) ==
  IF tb.left = <<>>
    THEN [tb EXCEPT !.pc = "getting", !.asked = Append(@, GetIdentity)]
    ELSE [tb EXCEPT !.pc = "probing", !.left = Tail(@),
                    !.asked = Append(@, Adopt(Head(tb.left)))]

\* No other tab is connecting, or has a request under way.
Undisturbed(t) ==
  \A u \in Tabs \ {t} : ~Waiting(tab[u]) /\ tab[u].asked = <<>>

\* The containers that an application knows: its own, and those it probes.
Known(app) == {app} \cup ToSet(probes[app])

\* A page is loaded from the container pointed to, or a tab reconnects.  History
\* are `known', the containers known to the application, `had', the keys that
\* were in them, and `alone', whether no other tab was connecting, or came to
\* connect, until this one was ready.
Connect(t, app) ==
  /\ app = pointer \/ (app = tab[t].app /\ tab[t].pc # "closed")
  /\ connects < MaxConnects
  /\ connects' = connects + 1
  /\ tab' = [u \in Tabs |->
       IF u = t
         THEN AskNext([Closed EXCEPT !.app = app, !.left = probes[app],
                                     !.known = Known(app),
                                     !.had = {slot[a] : a \in Known(app)} \cap Keys,
                                     !.alone = Undisturbed(t)])
         ELSE [tab[u] EXCEPT !.alone = @ /\ ~Waiting(tab[u])]]
  /\ UNCHANGED <<siteVars, slot, refused, late>>

\* record_legacy: the file with the container of the last full release.
Recorded ==
  IF manifest = 0 \/ manifest \in ToSet(displaced) THEN displaced
  ELSE Append(displaced, manifest)

\* A release builds its web application from the file, then records the displaced
\* container there, flips the pointer and writes the manifest.  It may fail
\* before or after the flip (earlier, it leaves nothing that a tab could see).
\* One step, since tabs see only the pointer and the list that they were built
\* with; its own steps are those of the module Release.
Release ==
  LET app == Len(probes) + 1
  IN /\ app <= NumApps
     /\ probes' = Append(probes, Reverse(displaced))
     /\ displaced' = Recorded
     /\ \/ pointer' = app /\ manifest' = app
        \/ "abort" \in Faults /\ pointer' \in {pointer, app} /\ UNCHANGED manifest
     /\ UNCHANGED <<slot, tab, connects, refused, late>>

-----------------------------------------------------------------------------
Answer(t, r) ==
  tab' = [tab EXCEPT ![t].asked = Tail(@), ![t].answers = Append(@, r)]

Stores == UNCHANGED refused

Refuses == "store" \in Faults /\ refused' = TRUE

\* An adoption that blanks its source first, and one that never does.
BlankFirst(t, app, old) ==
  \/ /\ Stores /\ slot' = [slot EXCEPT ![app] = slot[old], ![old] = Blank]
     /\ Answer(t, AdoptResult(slot[old]))
  \/ Refuses /\ slot' = [slot EXCEPT ![old] = Blank] /\ Answer(t, Error)

KeepSource(t, app, old) ==
  /\ Stores /\ slot' = [slot EXCEPT ![app] = slot[old]]
  /\ Answer(t, AdoptResult(slot[old]))

\* adopt_legacy_origin finds a key: it is stored under the new container, then
\* the old slot is blanked, whose failure goes unnoticed.
Move(t, app, old) ==
  \/ /\ Stores /\ slot' = [slot EXCEPT ![app] = slot[old], ![old] = Blank]
     /\ Answer(t, AdoptResult(slot[old]))
  \/ /\ Refuses /\ slot' = [slot EXCEPT ![app] = slot[old]]
     /\ Answer(t, AdoptResult(slot[old]))
  \/ Refuses /\ Answer(t, Error) /\ UNCHANGED slot

HandleAdopt(t, app, old) ==
  \/ /\ slot[app] \in Keys
     /\ Answer(t, AdoptResult(slot[app])) /\ UNCHANGED <<slot, refused>>
  \/ /\ slot[app] \notin Keys /\ slot[old] \notin Keys
     /\ Answer(t, AdoptResult(Absent)) /\ UNCHANGED <<slot, refused>>
  \/ /\ slot[app] \notin Keys /\ slot[old] \in Keys
     /\ Move(t, app, old)

Minted == {k \in Keys : \E a \in Apps : slot[a] = k}

\* Fresh entropy, of which there is some left.
Mint(t, app) ==
  \/ \E k \in Keys \ Minted :
       Stores /\ slot' = [slot EXCEPT ![app] = k] /\ Answer(t, IdentityOf(k))
  \/ Refuses /\ Answer(t, Error) /\ UNCHANGED slot

\* load_or_create_key: a blank slot has a value, of the wrong length.
HandleGet(t, app) ==
  \/ /\ slot[app] \in Keys
     /\ Answer(t, IdentityOf(slot[app])) /\ UNCHANGED <<slot, refused>>
  \/ slot[app] = Blank /\ Answer(t, Error) /\ UNCHANGED <<slot, refused>>
  \/ slot[app] = Absent /\ Mint(t, app)

\* The delegate serves the requests of a connection in their order.
Process(t) ==
  /\ tab[t].asked # <<>>
  /\ LET request == Head(tab[t].asked)
     IN \/ request.kind = "adopt" /\ HandleAdopt(t, tab[t].app, request.old)
        \/ request.kind = "identity" /\ HandleGet(t, tab[t].app)
  /\ UNCHANGED <<siteVars, connects, late>>

-----------------------------------------------------------------------------
\* The probe found a key, or the own key came.
Resolves(tb, r) ==
  \/ tb.pc = "probing" /\ r.kind = "adopted" /\ r.key # Absent
  \/ tb.pc = "getting" /\ r.kind = "identity"

Received(tb) == [tb EXCEPT !.answers = Tail(@)]

\* One that ends at the first request that fails.
GivenUp(tb) == [tb EXCEPT !.pc = "failed"]

\* A request that fails: a probe is followed by the next, and the connection
\* given up without an identity.
Failed(tb) == IF tb.pc = "probing" THEN AskNext(tb) ELSE [tb EXCEPT !.pc = "failed"]

\* An answer goes to the waiter there is, whichever request it is for, and is
\* dropped when nobody waits.
Deliver(t) ==
  /\ tab[t].answers # <<>>
  /\ LET r  == Head(tab[t].answers)
         tb == Received(tab[t])
     IN tab' = [tab EXCEPT ![t] =
          IF ~Waiting(tb) THEN tb
          ELSE IF Resolves(tb, r) THEN [tb EXCEPT !.pc = "ready", !.vk = r.key]
          ELSE Failed(tb)]
  /\ UNCHANGED <<siteVars, slot, connects, refused, late>>

Timeout(t) ==
  /\ "slow" \in Faults /\ Waiting(tab[t])
  /\ tab' = [tab EXCEPT ![t] = Failed(@)]
  /\ late' = TRUE
  /\ UNCHANGED <<siteVars, slot, connects, refused>>

Init ==
  /\ pointer = 0 /\ manifest = 0 /\ displaced = <<>> /\ probes = <<>>
  /\ connects = 0 /\ refused = FALSE /\ late = FALSE
  /\ slot = [a \in Apps |-> Absent]
  /\ tab = [t \in Tabs |-> Closed]

Next ==
  \/ Release
  \/ \E t \in Tabs :
       \/ \E app \in Apps : Connect(t, app)
       \/ Process(t) \/ Deliver(t) \/ Timeout(t)

Spec == Init /\ [][Next]_vars

-----------------------------------------------------------------------------
Requests == [kind : {"adopt"}, old : Apps] \cup {GetIdentity}

Answers ==
  [kind : {"adopted"}, key : Keys \cup {Absent}]
    \cup [kind : {"identity"}, key : Keys] \cup {Error}

TabRecords ==
  [app : Apps \cup {0}, pc : {"closed", "probing", "getting", "ready", "failed"},
   left : Seq(Apps), asked : Seq(Requests), answers : Seq(Answers),
   vk : Keys \cup {Absent}, known : SUBSET Apps, had : SUBSET Keys,
   alone : BOOLEAN]

\* The containers are built one after the other; each probes earlier ones.
SiteTypeOK ==
  /\ probes \in Seq(Seq(Apps)) /\ Len(probes) <= NumApps
  /\ displaced \in Seq(1 .. Len(probes))
  /\ pointer \in 0 .. Len(probes) /\ manifest \in 0 .. Len(probes)
  /\ \A n \in 1 .. Len(probes) : probes[n] \in Seq(1 .. n - 1)

\* The types; a tab that is ready has a key.
TypeOK ==
  /\ SiteTypeOK
  /\ connects \in Nat /\ refused \in BOOLEAN /\ late \in BOOLEAN
  /\ slot \in [Apps -> Keys \cup {Absent, Blank}]
  /\ tab \in [Tabs -> TabRecords]
  /\ \A t \in Tabs :
       /\ \/ tab[t].app \in 1 .. Len(probes)
          \/ tab[t].pc = "closed" /\ tab[t].asked = <<>> /\ tab[t].answers = <<>>
       /\ tab[t].pc = "ready" => tab[t].vk \in Keys

\* No step destroys a key: what a slot held is in a slot after it, although
\* the adoption writes two slots and either write may fail.
KeysSurvive == [][Minted \subseteq Minted']_vars

\* Unless the store refused a write, a key is in one container's slot only.
\* (adopt_legacy_origin: "blanks the source on success so it cannot be adopted
\* twice".)
AdoptedOnce ==
  refused \/ \A a, b \in Apps : slot[a] = slot[b] /\ slot[a] \in Keys => a = b

\* Who had a key under a container that the application knows, its own or one
\* that it probes, is given one of those, however late the answers are, unless the
\* store refused a write or another tab connected at the same time.
\* (adoptOrGetIdentity: "adopt one left under a previous release's web-container
\* id".)
IdentitySurvives ==
  refused \/ \A t \in Tabs :
    tab[t].pc = "ready" /\ tab[t].alone /\ tab[t].had # {} => tab[t].vk \in tab[t].had

\* "So identities survive the per-release container re-key" (adoptOrGetIdentity):
\* a user with a single tab has the key that the tab shows, and no second one.
OneIdentity == \A t \in Tabs : tab[t].pc = "ready" => Minted \subseteq {tab[t].vk}

\* A newer container that knows app has a key.
Superseded(app) ==
  \E a \in 1 .. Len(probes) : a > app /\ app \in Known(a) /\ slot[a] \in Keys

\* As long as the store works and answers come in time, a tab is left without an
\* identity only when its container's key was adopted: the slot was written, and a
\* newer container that knows it has a key.  (stored_seed says that blanked slots
\* "read as absent", which load_or_create_key does not do.)
OnlyAdoptedLockedOut ==
  refused \/ late \/ \A t \in Tabs :
    tab[t].pc = "failed" => slot[tab[t].app] # Absent /\ Superseded(tab[t].app)
=============================================================================
