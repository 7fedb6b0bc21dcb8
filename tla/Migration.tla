------------------------------ MODULE Migration ------------------------------
(***************************************************************************)
(* How the content of displaced instances gets into the current one: the   *)
(* legacy probes of RealBackend (web/src/backend.ts) in the browsers of    *)
(* the people who load the released application.  A tab keeps the          *)
(* application it was loaded with.                                         *)
(***************************************************************************)
EXTENDS Release

CONSTANTS Tabs,      \* browser tabs
          Pixels     \* the placements that will be made

\* Of Faults: "timeout" fetches and folds that fail, "leave" tabs closed with a
\* probe queued, "oldtab" placements from a tab with a displaced application.

VARIABLES content,   \* the state of every instance
          tab,       \* every tab's application and its legacy probe
          placed,    \* history: the placements accepted by an application
          calm       \* history: nothing has failed, and no upgrade was hasty

migVars == <<content, tab, placed, calm>>

vars == <<relVars, migVars>>

\* No probe: ids = <<>>.  `old' is what was fetched from the first of ids.
Closed == [app |-> NoApp, ids |-> <<>>, old |-> {}]

Init ==
  /\ RelInit
  /\ content = [c \in Codes |-> {}]
  /\ tab = [t \in Tabs |-> Closed]
  /\ placed = {}
  /\ calm = TRUE

-----------------------------------------------------------------------------
\* A sync that has no probe.
QueueNothing(app, ids) == ids

\* getStateWithLegacyProbe: a probe is queued while the current instance is
\* still empty, unless one is.
Queue(app, ids) ==
  IF content[app.inst] = {} /\ ids = <<>> THEN app.legacy ELSE ids

\* A tab loads or reloads what the facade points to, and synchronises.
Load(t) ==
  /\ pointer # NoApp /\ tab[t].app # pointer
  /\ tab[t].ids = <<>> \/ "leave" \in Faults
  /\ tab' = [tab EXCEPT ![t] = [Closed EXCEPT !.app = pointer,
                                              !.ids = Queue(pointer, <<>>)]]
  /\ calm' = (calm /\ tab[t].ids = <<>>)
  /\ UNCHANGED <<relVars, content, placed>>

\* syncAll once more, after the connection was lost.
Resync(t) ==
  /\ tab[t].app # NoApp /\ tab[t].old = {}
  /\ tab' = [tab EXCEPT ![t].ids = Queue(tab[t].app, @)]
  /\ UNCHANGED <<relVars, content, placed, calm>>

Leave(t) ==
  /\ "leave" \in Faults /\ tab[t].app # NoApp
  /\ tab' = [tab EXCEPT ![t] = Closed]
  /\ calm' = (calm /\ tab[t].ids = <<>>)
  /\ UNCHANGED <<relVars, content, placed>>

\* processLegacyProbes fetches the newest instance left on its list; the next
\* one is tried when that is empty or unreachable.
Fetch(t) ==
  /\ tab[t].ids # <<>> /\ tab[t].old = {}
  /\ content[Head(tab[t].ids)] # {}
  /\ tab' = [tab EXCEPT ![t].old = content[Head(tab[t].ids)]]
  /\ UNCHANGED <<relVars, content, placed, calm>>

PassOver(t) ==
  /\ tab[t].ids # <<>> /\ tab[t].old = {}
  /\ content[Head(tab[t].ids)] = {} \/ "timeout" \in Faults
  /\ tab' = [tab EXCEPT ![t].ids = Tail(@)]
  /\ calm' = (calm /\ content[Head(tab[t].ids)] = {})
  /\ UNCHANGED <<relVars, content, placed>>

Folded(t) == [content EXCEPT ![tab[t].app.inst] = @ \cup tab[t].old]

\* What was fetched is folded into the current instance, which ends the probe.
Fold(t) ==
  /\ tab[t].old # {}
  /\ content' = Folded(t)
  /\ tab' = [tab EXCEPT ![t].ids = <<>>, ![t].old = {}]
  /\ UNCHANGED <<relVars, placed, calm>>

\* A fold that fails, or seems to: one that times out may have been applied.
FoldFails(t) ==
  /\ "timeout" \in Faults /\ tab[t].old # {}
  /\ content' \in {content, Folded(t)}
  /\ tab' = [tab EXCEPT ![t].ids = Tail(@), ![t].old = {}]
  /\ calm' = FALSE
  /\ UNCHANGED <<relVars, placed>>

Place(t, x) ==
  /\ x \notin placed /\ tab[t].app # NoApp
  /\ tab[t].app = pointer \/ "oldtab" \in Faults
  /\ content' = [content EXCEPT ![tab[t].app.inst] = @ \cup {x}]
  /\ placed' = placed \cup {x}
  /\ calm' = (calm /\ tab[t].app = pointer)
  /\ UNCHANGED <<relVars, tab>>

\* The pointer moves while a tab still has a probe to run.
Hasty == pointer' # pointer /\ \E t \in Tabs : tab[t].ids # <<>>

\* A build goes out that is older than the last full release, or that a later one
\* was to displace.
GoesBack ==
  run.pc = "idle" /\ run'.pc # "idle"
    /\ (run'.code < manifest \/ run'.code \in ToSet(legacy))

Upgrade ==
  /\ RelNext
  /\ calm' = (calm /\ ~Abort /\ ~Hasty /\ ~GoesBack)
  /\ UNCHANGED <<content, tab, placed>>

Next ==
  \/ Upgrade
  \/ \E t \in Tabs :
       \/ Load(t) \/ Resync(t) \/ Leave(t)
       \/ Fetch(t) \/ PassOver(t) \/ Fold(t) \/ FoldFails(t)
  \/ \E t \in Tabs, x \in Pixels : Place(t, x)

SafeSpec == Init /\ [][Next]_vars

\* Browsers run what they have queued, and the released application is loaded
\* by someone.
Spec ==
  SafeSpec /\ \A t \in Tabs : /\ WF_vars(Load(t)) /\ WF_vars(PassOver(t))
                              /\ WF_vars(Fetch(t)) /\ WF_vars(Fold(t))

-----------------------------------------------------------------------------
\* The types; a tab holds displaced content only while it probes for it.
TypeOK ==
  /\ RelTypeOK
  /\ content \in [Codes -> SUBSET Pixels] /\ placed \subseteq Pixels
  /\ tab \in [Tabs -> [app : AppRecords, ids : Seq(Codes), old : SUBSET Pixels]]
  /\ calm \in BOOLEAN
  /\ \A t \in Tabs : tab[t].old # {} => tab[t].ids # <<>>

\* S is in the first instance on a list that is not empty.
IsNext(ids, S) ==
  \E i \in DOMAIN ids : /\ S \subseteq content[ids[i]]
                         /\ \A j \in 1 .. i - 1 : content[ids[j]] = {}

\* What calm upgrades have not brought into the served instance is what its next
\* reader will find, while the instance is empty, and what a probe fetches next, or
\* holds, once it is not.  ("Gated on `destination empty'": a placement ahead of the
\* probe closes that gate.)
CalmUpgradesCarryAll ==
  calm /\ pointer # NoApp =>
    LET here == content[pointer.inst]
        left == placed \ here
    IN \/ left = {}
       \/ (here = {} /\ IsNext(pointer.legacy, left))
       \/ \E t \in Tabs :
            /\ tab[t].app.inst = pointer.inst /\ tab[t].ids # <<>>
            /\ \/ left \subseteq tab[t].old
               \/ tab[t].old = {} /\ IsNext(tab[t].ids, left)

\* "Upgrades do not lose the canvas" (README.md), however many there are, as
\* long as no release is broken off or goes back, each waits for the probes of
\* the one before it, and no fetch or fold fails: in the end the instance that
\* is served has all that was placed.
CalmUpgradesKeepAll ==
  <>[](calm /\ pointer # NoApp => placed \subseteq content[pointer.inst])
=============================================================================
