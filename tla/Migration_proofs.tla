--------------------------- MODULE Migration_proofs ---------------------------
(***************************************************************************)
(* Releases and legacy probes for any number of builds, releases, tabs and *)
(* placements, under every fault: what the stable URL serves knows every   *)
(* full release, and the manifest was served; and calm upgrades leave      *)
(* nothing behind that no probe will find.                                 *)
(* And for the replicas behind the stable URL, which keep what Release     *)
(* takes for one pointer, any number of them and of pointers: they serve   *)
(* the newest one told and never go back.                                  *)
(***************************************************************************)
EXTENDS Migration, Facade, TLAPS

\* Any peer, and its replica of the facade as the abstract one.
CONSTANT peer

Abstract == INSTANCE Replica WITH
  Facts <- Pointers, IsJoin <- IsNewest, value <- state[peer], told <- heard[peer]

USE CodesAssumption DEF NoCode

LEMMA AppendedSet ==
  ASSUME NEW s \in Seq(Codes), NEW c \in Codes
  PROVE  Append(s, c) \in Seq(Codes) /\ ToSet(Append(s, c)) = ToSet(s) \cup {c}
<1>1. DOMAIN Append(s, c) = DOMAIN s \cup {Len(s) + 1}
  OBVIOUS
<1>2. \A i \in DOMAIN s : Append(s, c)[i] = s[i]
  OBVIOUS
<1>3. Append(s, c)[Len(s) + 1] = c
  OBVIOUS
<1> QED BY <1>1, <1>2, <1>3 DEF ToSet

LEMMA ReversedSet ==
  ASSUME NEW s \in Seq(Codes)
  PROVE  Reverse(s) \in Seq(Codes) /\ ToSet(Reverse(s)) = ToSet(s)
<1>1. Len(s) \in Nat /\ DOMAIN s = 1 .. Len(s)
  OBVIOUS
<1>2. Reverse(s) = [i \in 1 .. Len(s) |-> s[(Len(s) - i) + 1]]
  BY DEF Reverse
<1>3. \A i \in 1 .. Len(s) : (Len(s) - i) + 1 \in 1 .. Len(s)
  BY <1>1
<1>4. Reverse(s) \in Seq(Codes) /\ DOMAIN Reverse(s) = 1 .. Len(s)
  BY <1>1, <1>2, <1>3
<1>5. \A i \in 1 .. Len(s) : Reverse(s)[(Len(s) - i) + 1] = s[i]
  BY <1>1, <1>2, <1>3
<1>6. ToSet(Reverse(s)) \subseteq ToSet(s)
  BY <1>1, <1>2, <1>3, <1>4 DEF ToSet
<1>7. ASSUME NEW i \in 1 .. Len(s) PROVE s[i] \in ToSet(Reverse(s))
  <2> DEFINE j == (Len(s) - i) + 1
  <2>1. j \in DOMAIN Reverse(s) /\ Reverse(s)[j] = s[i]
    BY <1>3, <1>4, <1>5
  <2> HIDE DEF j
  <2> QED BY <2>1 DEF ToSet
<1>8. ToSet(s) \subseteq ToSet(Reverse(s))
  BY <1>1, <1>7 DEF ToSet
<1> QED BY <1>4, <1>6, <1>8

LEMMA AppendedOnce ==
  ASSUME NEW s \in Seq(Codes), NEW c \in Codes \ ToSet(s), IsInjective(s)
  PROVE  IsInjective(Append(s, c))
BY DEF IsInjective, ToSet
-----------------------------------------------------------------------------
\* What the properties of a release need beside the types.
RelInv ==
  /\ RelTypeOK
  /\ ManifestWasServed /\ FullReleasesKnown
  \* Whatever was full is in the file, or is the last full release.
  /\ full \subseteq ToSet(legacy) \cup {manifest}
  /\ pointer.inst = NoCode \/ pointer.inst \in served
  /\ run.pc # "idle" => run.old = manifest
  \* From its record on, a release has it in the file or is it itself.
  /\ run.pc \in {"building", "flipping", "verifying"} =>
       full \subseteq ToSet(legacy) \cup {run.code}
  \* What was built has the file's lines.
  /\ run.pc \in {"flipping", "verifying"} =>
       run.app.inst = run.code /\ ToSet(run.app.legacy) = ToSet(legacy)

USE DEF RelTypeOK, AppRecords, ManifestWasServed, FullReleasesKnown, Known

LEMMA RelInitially == RelInit => RelInv
BY DEF RelInit, RelInv, NoApp, App, Idle, IsInjective, ToSet

LEMMA StartKeeps ==
  ASSUME RelInv, NEW code \in Codes, Start(code)
  PROVE  RelInv'
BY DEF RelInv, Start, NoApp, App

LEMMA RecordKeeps ==
  ASSUME RelInv, Record
  PROVE  RelInv'
<1>1. CASE run.old \in {NoCode, run.code} \/ run.old \in ToSet(legacy)
  BY <1>1 DEF RelInv, Record
<1>2. CASE ~(run.old \in {NoCode, run.code} \/ run.old \in ToSet(legacy))
  <2>1. legacy' = Append(legacy, run.old) /\ run.old \in Codes \ ToSet(legacy)
    BY <1>2 DEF Record, RelInv
  <2>2. /\ legacy' \in Seq(Codes) /\ IsInjective(legacy')
        /\ ToSet(legacy') = ToSet(legacy) \cup {run.old}
    BY <2>1, AppendedSet, AppendedOnce DEF RelInv
  <2> QED BY <2>1, <2>2 DEF RelInv, Record
<1> QED BY <1>1, <1>2

LEMMA BuildKeeps ==
  ASSUME RelInv, BuildAndPublish
  PROVE  RelInv'
<1>1. Reverse(legacy) \in Seq(Codes) /\ ToSet(Reverse(legacy)) = ToSet(legacy)
  BY ReversedSet DEF RelInv
<1> QED BY <1>1 DEF RelInv, BuildAndPublish, App

LEMMA FlipKeeps ==
  ASSUME RelInv, Flip
  PROVE  RelInv'
<1>1. /\ run.pc = "flipping" /\ UNCHANGED <<manifest, legacy, started, full>>
      /\ run' = [run EXCEPT !.pc = "verifying"]
  BY DEF Flip
<1>2. /\ run'.pc = "verifying" /\ run'.code = run.code /\ run'.old = run.old
      /\ run'.app = run.app
      /\ run' \in [pc : {"idle", "recording", "building", "flipping", "verifying"},
                  code : Codes \cup {NoCode}, old : Codes \cup {NoCode}, app : AppRecords]
  BY <1>1 DEF RelInv
<1>3. CASE pointer' = run.app /\ served' = served \cup {run.code}
  <2>1. /\ run.app \in AppRecords /\ run.app.inst = run.code
        /\ ToSet(run.app.legacy) = ToSet(legacy) /\ run.code \in Codes
        /\ full \subseteq ToSet(legacy) \cup {run.code}
    BY <1>1 DEF RelInv
  <2> QED BY <1>1, <1>2, <1>3, <2>1 DEF RelInv
<1>4. CASE UNCHANGED <<pointer, served>>
  <2>1. RelTypeOK'
    BY <1>1, <1>2, <1>4 DEF RelInv
  <2>2. /\ full \subseteq ToSet(legacy) \cup {run.code} /\ run.app.inst = run.code
        /\ ToSet(run.app.legacy) = ToSet(legacy) /\ run.old = manifest
    BY <1>1 DEF RelInv
  <2> QED BY <1>1, <1>2, <1>4, <2>1, <2>2 DEF RelInv
<1>5. \/ pointer' = run.app /\ served' = served \cup {run.code}
      \/ UNCHANGED <<pointer, served>>
  BY DEF Flip
<1> QED BY <1>3, <1>4, <1>5

LEMMA FinishKeeps ==
  ASSUME RelInv, Finish
  PROVE  RelInv'
<1>1. /\ run.pc = "verifying" /\ UNCHANGED <<legacy, pointer, started, served>>
      /\ run' = Idle
  BY DEF Finish
<1>2. Idle \in [pc : {"idle", "recording", "building", "flipping", "verifying"},
               code : Codes \cup {NoCode}, old : Codes \cup {NoCode}, app : AppRecords]
      /\ Idle.pc = "idle"
  BY DEF Idle, NoApp, App
<1>3. /\ run.code \in Codes /\ run.app.inst = run.code
      /\ full \subseteq ToSet(legacy) \cup {run.code}
  BY <1>1 DEF RelInv
<1>4. CASE pointer = run.app
  <2>1. manifest' = run.code /\ full' = full \cup {run.code}
    BY <1>4 DEF Finish
  <2>2. run.code \in served
    BY <1>3, <1>4 DEF RelInv
  <2>3. RelTypeOK'
    BY <1>1, <1>2, <1>3, <2>1 DEF RelInv
  <2> QED BY <1>1, <1>2, <1>3, <1>4, <2>1, <2>2, <2>3 DEF RelInv
<1>5. CASE pointer # run.app
  <2>1. UNCHANGED <<manifest, full>>
    BY <1>5 DEF Finish
  <2>2. RelTypeOK'
    BY <1>1, <1>2, <2>1 DEF RelInv
  <2> QED BY <1>1, <1>2, <2>1, <2>2 DEF RelInv
<1> QED BY <1>4, <1>5

LEMMA AbortKeeps ==
  ASSUME RelInv, Abort
  PROVE  RelInv'
BY DEF RelInv, Abort, Idle, NoApp, App

LEMMA RelStep == RelInv /\ [RelNext]_relVars => RelInv'
<1> SUFFICES ASSUME RelInv, [RelNext]_relVars PROVE RelInv'
  OBVIOUS
<1>1. CASE UNCHANGED relVars
  BY <1>1 DEF relVars, RelInv
<1> QED BY <1>1, StartKeeps, RecordKeeps, BuildKeeps, FlipKeeps, FinishKeeps, AbortKeeps
        DEF RelNext
-----------------------------------------------------------------------------
\* The same of the whole, where only Upgrade touches the release.
LEMMA Initially == Init => RelInv /\ TypeOK
BY RelInitially DEF Init, RelInv, TypeOK, Closed, NoApp, App

LEMMA QueueType ==
  ASSUME NEW app \in AppRecords, NEW ids \in Seq(Codes)
  PROVE  Queue(app, ids) \in Seq(Codes)
BY DEF Queue

LEMMA Step ==
  ASSUME RelInv, TypeOK, [Next]_vars
  PROVE  RelInv' /\ TypeOK'
<1> DEFINE Goal == RelInv' /\ TypeOK'
           TabType == [app : AppRecords, ids : Seq(Codes), old : SUBSET Pixels]
<1>1. ASSUME UNCHANGED relVars
      PROVE  RelInv'
  BY <1>1, RelStep
<1>2. /\ tab \in [Tabs -> TabType] /\ content \in [Codes -> SUBSET Pixels]
      /\ \A t \in Tabs : tab[t].old # {} => tab[t].ids # <<>>
      /\ pointer \in AppRecords
  BY DEF TypeOK
<1>3. ASSUME NEW t \in Tabs, NEW r \in TabType, r.old # {} => r.ids # <<>>,
             tab' = [tab EXCEPT ![t] = r]
      PROVE  /\ tab' \in [Tabs -> TabType]
             /\ \A u \in Tabs : tab'[u].old # {} => tab'[u].ids # <<>>
  BY <1>2, <1>3
<1> HIDE DEF TabType
<1>4. CASE Upgrade
  BY <1>4, RelStep DEF Upgrade, TypeOK, RelInv
<1>5. ASSUME NEW t \in Tabs, Load(t)
      PROVE  Goal
  <2> DEFINE r == [Closed EXCEPT !.app = pointer, !.ids = Queue(pointer, <<>>)]
  <2>1. r \in TabType /\ r.old = {}
    <3>1. Closed \in TabType /\ Closed.old = {}
      BY DEF TabType, Closed, NoApp, App
    <3>2. Queue(pointer, <<>>) \in Seq(Codes)
      <4>1. <<>> \in Seq(Codes)
        OBVIOUS
      <4> QED BY <1>2, <4>1, QueueType
    <3> QED BY <1>2, <3>1, <3>2 DEF TabType
  <2>2. tab' = [tab EXCEPT ![t] = r] /\ UNCHANGED <<relVars, content, placed>>
        /\ calm' \in BOOLEAN
    BY <1>5 DEF Load, TypeOK
  <2> HIDE DEF r
  <2> QED BY <1>1, <1>2, <1>3, <2>1, <2>2 DEF TypeOK, TabType, relVars
<1>6. ASSUME NEW t \in Tabs, NEW r \in TabType, r.old = {} \/ r.ids # <<>>,
             tab' = [tab EXCEPT ![t] = r], UNCHANGED <<relVars, content, placed>>,
             calm' \in BOOLEAN
      PROVE  Goal
  BY <1>1, <1>2, <1>3, <1>6 DEF TypeOK, TabType, relVars
<1>7. ASSUME NEW t \in Tabs, Resync(t) \/ Leave(t) \/ Fetch(t) \/ PassOver(t)
      PROVE  Goal
  <2>1. tab[t] \in TabType
    BY <1>2
  <2>2. CASE Resync(t)
    <3> DEFINE r == [tab[t] EXCEPT !.ids = Queue(tab[t].app, @)]
    <3>1. Queue(tab[t].app, tab[t].ids) \in Seq(Codes)
      BY <2>1, QueueType DEF TabType
    <3>2. r \in TabType /\ r.old = tab[t].old
      BY <2>1, <3>1 DEF TabType
    <3>3. /\ tab' = [tab EXCEPT ![t] = r] /\ r.old = {}
          /\ UNCHANGED <<relVars, content, placed>> /\ calm' \in BOOLEAN
      BY <2>2, <3>2 DEF Resync, TypeOK
    <3> HIDE DEF r
    <3> QED BY <1>6, <3>2, <3>3
  <2>3. CASE Leave(t)
    <3>1. Closed \in TabType /\ Closed.old = {}
      BY DEF TabType, Closed, NoApp, App
    <3> QED BY <1>6, <2>3, <3>1 DEF Leave, TypeOK
  <2>4. CASE Fetch(t)
    <3> DEFINE r == [tab[t] EXCEPT !.old = content[Head(tab[t].ids)]]
    <3>1. Head(tab[t].ids) \in Codes
      BY <2>1, <2>4 DEF TabType, Fetch
    <3>2. r \in TabType /\ r.ids = tab[t].ids
      BY <1>2, <2>1, <3>1 DEF TabType
    <3>3. /\ tab' = [tab EXCEPT ![t] = r] /\ r.ids # <<>>
          /\ UNCHANGED <<relVars, content, placed>> /\ calm' \in BOOLEAN
      BY <2>4, <3>2 DEF Fetch, TypeOK
    <3> HIDE DEF r
    <3> QED BY <1>6, <3>2, <3>3
  <2>5. CASE PassOver(t)
    <3> DEFINE r == [tab[t] EXCEPT !.ids = Tail(@)]
    <3>1. Tail(tab[t].ids) \in Seq(Codes)
      BY <2>1, <2>5 DEF TabType, PassOver
    <3>2. r \in TabType /\ r.old = tab[t].old
      BY <2>1, <3>1 DEF TabType
    <3>3. /\ tab' = [tab EXCEPT ![t] = r] /\ r.old = {}
          /\ UNCHANGED <<relVars, content, placed>> /\ calm' \in BOOLEAN
      BY <2>5, <3>2 DEF PassOver, TypeOK
    <3> HIDE DEF r
    <3> QED BY <1>6, <3>2, <3>3
  <2> QED BY <1>7, <2>2, <2>3, <2>4, <2>5
<1>8. ASSUME NEW t \in Tabs, Fold(t) \/ FoldFails(t)
      PROVE  Goal
  <2>1. tab[t] \in TabType /\ tab[t].old # {} /\ tab[t].ids # <<>>
    BY <1>2, <1>8 DEF Fold, FoldFails
  <2>2. Tail(tab[t].ids) \in Seq(Codes)
    BY <2>1 DEF TabType
  <2>3. \E r \in TabType : r.old = {} /\ tab' = [tab EXCEPT ![t] = r]
    <3>1. CASE Fold(t)
      <4> DEFINE r == [tab[t] EXCEPT !.ids = <<>>, !.old = {}]
      <4>1. tab' = [tab EXCEPT ![t] = r]
        BY <3>1 DEF Fold
      <4>2. <<>> \in Seq(Codes) /\ {} \in SUBSET Pixels
        OBVIOUS
      <4>3. r \in TabType /\ r.old = {}
        BY <2>1, <4>2 DEF TabType
      <4> QED BY <4>1, <4>3
    <3>2. CASE FoldFails(t)
      <4> DEFINE r == [tab[t] EXCEPT !.ids = Tail(@), !.old = {}]
      <4>1. tab' = [tab EXCEPT ![t] = r]
        BY <3>2 DEF FoldFails
      <4>2. r \in TabType /\ r.old = {}
        BY <2>1, <2>2 DEF TabType
      <4> QED BY <4>1, <4>2
    <3> QED BY <1>8, <3>1, <3>2
  <2>4. Folded(t) \in [Codes -> SUBSET Pixels]
    BY <1>2, <2>1 DEF Folded, TabType
  <2>5. /\ content' \in {content, Folded(t)} /\ calm' \in BOOLEAN
        /\ UNCHANGED <<relVars, placed>>
    BY <1>8 DEF Fold, FoldFails, TypeOK
  <2>6. content' \in [Codes -> SUBSET Pixels]
    BY <1>2, <2>4, <2>5
  <2> QED BY <1>1, <1>3, <2>3, <2>5, <2>6 DEF TypeOK, TabType, relVars
<1>9. ASSUME NEW t \in Tabs, NEW x \in Pixels, Place(t, x)
      PROVE  Goal
  <2>1. /\ content' = [content EXCEPT ![tab[t].app.inst] = @ \cup {x}]
        /\ UNCHANGED <<relVars, tab>> /\ placed' = placed \cup {x} /\ calm' \in BOOLEAN
    BY <1>9 DEF Place, TypeOK
  <2>2. content' \in [Codes -> SUBSET Pixels]
    BY <1>2, <2>1
  <2> QED BY <1>1, <2>1, <2>2 DEF TypeOK, relVars
<1>10. CASE UNCHANGED vars
  BY <1>1, <1>10 DEF vars, relVars, migVars, TypeOK
<1> QED BY <1>4, <1>5, <1>7, <1>8, <1>9, <1>10 DEF Next
-----------------------------------------------------------------------------
LEMMA Invariant == Spec => [](RelInv /\ TypeOK)
<1>1. RelInv /\ TypeOK /\ [Next]_vars => RelInv' /\ TypeOK'
  BY Step
<1> QED BY <1>1, Initially, PTL DEF Spec, SafeSpec

\* Under every fault, files, pointers and probes are well formed, and no id is in the
\* legacy file twice.
THEOREM TypeCorrect == Spec => []TypeOK
BY Invariant, PTL

\* The manifest names only what the stable URL has served, wherever releases are
\* broken off and whichever pointer updates are lost.
THEOREM ManifestIsServed == Spec => []ManifestWasServed
<1>1. RelInv => ManifestWasServed
  BY DEF RelInv
<1> QED BY <1>1, Invariant, PTL

\* For any number of builds and of releases of each, that fail anywhere and are run
\* again, the application served knows the instance of every full release.
THEOREM FullReleasesAreKnown == Spec => []FullReleasesKnown
<1>1. RelInv => FullReleasesKnown
  BY DEF RelInv
<1> QED BY <1>1, Invariant, PTL

-----------------------------------------------------------------------------
\* Calm upgrades.  As long as nothing fails and none goes back, releases are in the
\* order of their ids, and what an application displaces is what is older than it.
Ascending(s) == \A i, j \in DOMAIN s : i < j => s[i] < s[j]

Descending(s) == \A i, j \in DOMAIN s : i < j => s[j] < s[i]

CalmRelease ==
  /\ Ascending(legacy)
  /\ \A c \in ToSet(legacy) : c <= manifest
  /\ pointer.inst = manifest \/ (run.pc = "verifying" /\ pointer = run.app)
  /\ run.pc # "idle" => manifest <= run.code /\ run.code \notin ToSet(legacy)
  /\ run.pc \in {"building", "flipping", "verifying"} =>
       manifest \in {NoCode, run.code} \cup ToSet(legacy)
  /\ run.pc \in {"flipping", "verifying"} => run.app = App(run.code, Reverse(legacy))
  /\ Descending(pointer.legacy)
  /\ ToSet(pointer.legacy) = {c \in ToSet(legacy) : c < pointer.inst}
  /\ pointer.inst = NoCode => pointer = NoApp

LEMMA Members ==
  ASSUME NEW s \in Seq(Codes)
  PROVE  /\ ToSet(s) \subseteq Codes
         /\ \A c \in ToSet(s) : \E i \in DOMAIN s : s[i] = c
         /\ \A i \in DOMAIN s : s[i] \in ToSet(s)
BY DEF ToSet

LEMMA Numbered ==
  /\ \A c \in Codes : c \in Nat /\ c # 0
  /\ \A c \in Codes \cup {NoCode} : c \in Nat
BY CodesAssumption

LEMMA ReversedOrder ==
  ASSUME NEW s \in Seq(Codes), Ascending(s)
  PROVE  Descending(Reverse(s))
<1>1. Len(s) \in Nat /\ DOMAIN s = 1 .. Len(s)
  OBVIOUS
<1>2. Reverse(s) = [i \in 1 .. Len(s) |-> s[(Len(s) - i) + 1]]
  BY DEF Reverse
<1>3. ASSUME NEW i \in 1 .. Len(s), NEW j \in 1 .. Len(s), i < j
      PROVE  s[(Len(s) - j) + 1] < s[(Len(s) - i) + 1]
  <2>1. /\ (Len(s) - j) + 1 \in 1 .. Len(s) /\ (Len(s) - i) + 1 \in 1 .. Len(s)
        /\ (Len(s) - j) + 1 < (Len(s) - i) + 1
    BY <1>1, <1>3
  <2> QED BY <1>1, <2>1 DEF Ascending
<1> QED BY <1>1, <1>2, <1>3 DEF Descending

LEMMA AppendedOrder ==
  ASSUME NEW s \in Seq(Codes), Ascending(s), NEW d \in Codes, \A c \in ToSet(s) : c < d
  PROVE  Ascending(Append(s, d))
<1>1. Len(s) \in Nat /\ DOMAIN s = 1 .. Len(s) /\ DOMAIN Append(s, d) = 1 .. Len(s) + 1
  OBVIOUS
<1>2. \A i \in 1 .. Len(s) : Append(s, d)[i] = s[i] /\ s[i] < d
  BY <1>1, Members
<1>3. Append(s, d)[Len(s) + 1] = d
  OBVIOUS
<1>4. ASSUME NEW i \in 1 .. Len(s) + 1, NEW j \in 1 .. Len(s) + 1, i < j
      PROVE  Append(s, d)[i] < Append(s, d)[j]
  <2>1. i \in 1 .. Len(s)
    BY <1>1, <1>4
  <2>2. CASE j = Len(s) + 1
    BY <1>2, <1>3, <2>1, <2>2
  <2>3. CASE j \in 1 .. Len(s)
    BY <1>1, <1>2, <1>4, <2>1, <2>3 DEF Ascending
  <2> QED BY <1>1, <2>2, <2>3
<1> QED BY <1>1, <1>4 DEF Ascending

\* A calm flip adds the released build to what the application knows, as its newest.
LEMMA CalmFlip ==
  ASSUME RelInv, CalmRelease, run.pc = "flipping"
  PROVE  /\ run.app.inst \in Codes /\ run.app.inst = run.code
         /\ Descending(run.app.legacy)
         /\ ToSet(run.app.legacy) = ToSet(legacy)
         /\ \A c \in ToSet(legacy) : c < run.code
         /\ pointer.inst <= run.code
         /\ Known(pointer) \ {NoCode} \subseteq Known(run.app)
         /\ Known(run.app) \subseteq Known(pointer) \cup {run.code}
<1>1. /\ legacy \in Seq(Codes) /\ run.code \in Codes /\ pointer \in AppRecords
      /\ manifest \in Codes \cup {NoCode} /\ run.app = App(run.code, Reverse(legacy))
      /\ pointer.inst = manifest /\ run.code \notin ToSet(legacy)
      /\ manifest <= run.code /\ manifest \in {NoCode, run.code} \cup ToSet(legacy)
      /\ \A c \in ToSet(legacy) : c <= manifest
      /\ ToSet(pointer.legacy) = {c \in ToSet(legacy) : c < manifest}
  BY DEF RelInv, CalmRelease
<1>2. /\ run.app.inst = run.code /\ run.app.legacy = Reverse(legacy)
      /\ ToSet(run.app.legacy) = ToSet(legacy) /\ Descending(Reverse(legacy))
  BY <1>1, ReversedSet, ReversedOrder DEF App, CalmRelease
<1>3. ToSet(legacy) \subseteq Codes
  BY <1>1, Members
<1>4. ASSUME NEW c \in ToSet(legacy) PROVE c < run.code /\ c # NoCode /\ c \in Nat
  <2>1. c \in Nat \ {0} /\ manifest \in Nat /\ run.code \in Nat
    BY <1>1, <1>3, Numbered
  <2>2. c <= manifest /\ manifest <= run.code /\ c # run.code
    BY <1>1
  <2> QED BY <2>1, <2>2
<1>5. Known(pointer) \ {NoCode} \subseteq Known(run.app)
  BY <1>1, <1>2
<1>6. Known(run.app) \subseteq Known(pointer) \cup {run.code}
  <2>1. ASSUME NEW c \in ToSet(legacy) PROVE c = manifest \/ c < manifest
    BY <1>1, <1>4, CodesAssumption
  <2> QED BY <1>1, <1>2, <2>1
<1> QED BY <1>1, <1>2, <1>4, <1>5, <1>6

\* Releases that are not broken off and do not go back keep their order.
LEMMA CalmReleaseStep ==
  ASSUME RelInv, CalmRelease, RelNext, ~Abort, ~GoesBack
  PROVE  CalmRelease'
<1>0. /\ legacy \in Seq(Codes) /\ pointer \in AppRecords
      /\ manifest \in Codes \cup {NoCode} /\ ToSet(legacy) \subseteq Codes
      /\ run \in [pc : {"idle", "recording", "building", "flipping", "verifying"},
                 code : Codes \cup {NoCode}, old : Codes \cup {NoCode}, app : AppRecords]
  BY Members DEF RelInv
<1>1. ASSUME NEW code \in Codes, Start(code) PROVE CalmRelease'
  <2>1. run'.pc = "recording" /\ run'.code = code /\ run.pc = "idle"
        /\ UNCHANGED <<manifest, legacy, pointer>>
    BY <1>1 DEF Start
  <2>2. manifest <= code /\ code \notin ToSet(legacy)
    BY <1>0, <2>1 DEF GoesBack
  <2> QED BY <2>1, <2>2 DEF CalmRelease
<1>2. CASE Record
  <2>1. /\ run.pc = "recording" /\ run'.pc = "building" /\ run'.code = run.code
        /\ run.old = manifest /\ UNCHANGED <<manifest, pointer>>
        /\ run.code \in Codes
    BY <1>0, <1>2 DEF Record, RelInv
  <2>2. pointer.inst = manifest /\ manifest <= run.code /\ run.code \notin ToSet(legacy)
    BY <2>1 DEF CalmRelease
  <2>3. CASE legacy' = legacy /\ manifest \in {NoCode, run.code} \cup ToSet(legacy)
    BY <2>1, <2>3 DEF CalmRelease
  <2>4. CASE /\ legacy' = Append(legacy, manifest)
             /\ manifest \notin {NoCode, run.code} \cup ToSet(legacy)
    <3>1. manifest \in Codes /\ \A c \in ToSet(legacy) : c < manifest
      <4>1. \A c \in ToSet(legacy) : c <= manifest /\ c # manifest /\ c \in Nat
        BY <1>0, <2>4, CodesAssumption DEF CalmRelease
      <4> QED BY <1>0, <2>4, <4>1, CodesAssumption
    <3>2. Ascending(legacy') /\ ToSet(legacy') = ToSet(legacy) \cup {manifest}
      BY <1>0, <2>4, <3>1, AppendedOrder, AppendedSet DEF CalmRelease
    <3>3. {c \in ToSet(legacy') : c < pointer.inst} = {c \in ToSet(legacy) : c < pointer.inst}
      <4>1. ~(manifest < pointer.inst)
        BY <2>2, <3>1, CodesAssumption
      <4> QED BY <3>2, <4>1
    <3>4. \A c \in ToSet(legacy') : c <= manifest
      <4>1. manifest <= manifest
        BY <1>0, CodesAssumption
      <4>2. \A c \in ToSet(legacy) : c <= manifest
        BY DEF CalmRelease
      <4> QED BY <3>2, <4>1, <4>2
    <3> QED BY <2>1, <2>2, <2>4, <3>2, <3>3, <3>4 DEF CalmRelease
  <2> QED BY <1>2, <2>1, <2>3, <2>4 DEF Record
<1>3. CASE BuildAndPublish
  <2>1. /\ run.pc = "building" /\ run'.pc = "flipping" /\ run'.code = run.code
        /\ run'.app = App(run.code, Reverse(legacy)) /\ UNCHANGED <<manifest, legacy, pointer>>
    BY <1>0, <1>3 DEF BuildAndPublish
  <2> QED BY <2>1 DEF CalmRelease
<1>4. CASE Flip
  <2>1. /\ run.pc = "flipping" /\ run'.pc = "verifying" /\ run'.code = run.code
        /\ run'.app = run.app /\ UNCHANGED <<manifest, legacy>>
    BY <1>0, <1>4 DEF Flip
  <2>2. CASE pointer' = run.app
    <3>1. {c \in ToSet(legacy) : c < run.code} = ToSet(legacy)
      BY <2>1, CalmFlip
    <3>2. run.code # NoCode
      BY <2>1, CalmFlip
    <3> QED BY <2>1, <2>2, <3>1, <3>2, CalmFlip DEF CalmRelease
  <2>3. CASE pointer' = pointer
    BY <2>1, <2>3 DEF CalmRelease
  <2> QED BY <1>4, <2>2, <2>3 DEF Flip
<1>5. CASE Finish
  <2>1. /\ run.pc = "verifying" /\ run'.pc = "idle" /\ UNCHANGED <<legacy, pointer>>
        /\ run.code \in Codes /\ run.app.inst = run.code
    BY <1>0, <1>5 DEF Finish, Idle, RelInv
  <2>2. CASE pointer = run.app /\ manifest' = run.code
    <3>1. ASSUME NEW c \in ToSet(legacy) PROVE c <= run.code
      <4>1. c \in Nat /\ manifest \in Nat /\ run.code \in Nat
        BY <1>0, <2>1, Numbered
      <4>2. c <= manifest /\ manifest <= run.code
        BY <2>1 DEF CalmRelease
      <4> QED BY <4>1, <4>2
    <3> QED BY <2>1, <2>2, <3>1 DEF CalmRelease
  <2>3. CASE pointer # run.app /\ manifest' = manifest
    BY <2>1, <2>3 DEF CalmRelease
  <2> QED BY <1>5, <2>2, <2>3 DEF Finish
<1> QED BY <1>1, <1>2, <1>3, <1>4, <1>5 DEF RelNext

\* What is older than the served instance, of what its application knows.
LEMMA Displaced ==
  ASSUME RelInv, CalmRelease
  PROVE  /\ ToSet(pointer.legacy) = {c \in Known(pointer) : c < pointer.inst}
         /\ \A c \in Known(pointer) : c \in Nat /\ c <= pointer.inst
         /\ pointer # NoApp => pointer.inst \in Codes
<1>1. pointer \in AppRecords /\ ToSet(pointer.legacy) \subseteq Codes
  BY Members DEF RelInv
<1>2. /\ ToSet(pointer.legacy) = {c \in ToSet(legacy) : c < pointer.inst}
      /\ pointer.inst = NoCode => pointer = NoApp
  BY DEF CalmRelease
<1>3. pointer.inst \in Codes \cup {NoCode}
  BY <1>1
<1>4. pointer.inst \in Nat
  BY <1>3, Numbered
<1>5. ASSUME NEW c \in ToSet(pointer.legacy) PROVE c \in Nat /\ c < pointer.inst
  BY <1>1, <1>2, Numbered
<1>6. \A c \in Known(pointer) : c = pointer.inst \/ c \in ToSet(pointer.legacy)
  OBVIOUS
<1>7. ToSet(pointer.legacy) = {c \in Known(pointer) : c < pointer.inst}
  BY <1>4, <1>5, <1>6
<1>8. \A c \in Known(pointer) : c \in Nat /\ c <= pointer.inst
  BY <1>4, <1>5, <1>6
<1>9. pointer # NoApp => pointer.inst \in Codes
  BY <1>2, <1>3
<1> QED BY <1>7, <1>8, <1>9

-----------------------------------------------------------------------------
\* What is not yet in the instance that is served.
Left == placed \ (IF pointer = NoApp THEN {} ELSE content[pointer.inst])

\* A tab's application is of the line that is served, and so is what it probes.
CalmTab(r) ==
  /\ r.app # NoApp => /\ r.app.inst \in Codes \cap Known(pointer)
                      /\ ToSet(r.app.legacy) = {c \in Known(pointer) : c < r.app.inst}
  /\ Descending(r.app.legacy) /\ Descending(r.ids)
  /\ ToSet(r.ids) \subseteq ToSet(r.app.legacy)

CalmTabs ==
  /\ \A t \in Tabs : CalmTab(tab[t])
  /\ \A c \in Codes : content[c] # {} => c \in Known(pointer)
  /\ pointer = NoApp => placed = {}

\* A tab that probes for an instance newer than k holds what is left, or gets to k.
Finds(r, k) ==
  k < r.app.inst /\ r.ids # <<>> =>
    Left \subseteq r.old \/ (r.old = {} /\ k \in ToSet(r.ids))

Probes(r) == r.app.inst = pointer.inst /\ r.ids # <<>>

\* What is left is in the displaced instance k, whatever newer one is not empty has it
\* too, and a probe of the served one is under way or to come.
Keeps(k) ==
  /\ content[k] # {}
  /\ \A c \in ToSet(pointer.legacy) : k <= c => content[c] = {} \/ Left \subseteq content[c]
  /\ \A t \in Tabs : Finds(tab[t], k)
  /\ content[pointer.inst] = {} =>
       \A t \in Tabs : tab[t].app.inst = pointer.inst => Probes(tab[t])
  /\ content[pointer.inst] # {} => \E t \in Tabs : Probes(tab[t])

CalmLeft == Left = {} \/ \E k \in ToSet(pointer.legacy) : Keeps(k)

CalmInv == calm => CalmRelease /\ CalmTabs /\ CalmLeft

LEMMA HeadAndTail ==
  ASSUME NEW s \in Seq(Codes), s # <<>>
  PROVE  /\ Head(s) \in ToSet(s) /\ Tail(s) \in Seq(Codes)
         /\ ToSet(Tail(s)) \subseteq ToSet(s)
         /\ \A c \in ToSet(s) : c = Head(s) \/ c \in ToSet(Tail(s))
         /\ Descending(s) =>
              Descending(Tail(s)) /\ \A c \in ToSet(s) : c <= Head(s)
<1>1. /\ Len(s) \in Nat \ {0} /\ DOMAIN s = 1 .. Len(s) /\ Head(s) = s[1]
      /\ Tail(s) \in Seq(Codes) /\ DOMAIN Tail(s) = 1 .. Len(s) - 1
      /\ \A i \in 1 .. Len(s) - 1 : Tail(s)[i] = s[i + 1]
  OBVIOUS
<1>2. \A i \in 1 .. Len(s) : s[i] \in ToSet(s)
  BY <1>1 DEF ToSet
<1>3. \A i \in 1 .. Len(s) - 1 : i + 1 \in 1 .. Len(s)
  BY <1>1
<1>4. ToSet(Tail(s)) \subseteq ToSet(s)
  <2> SUFFICES ASSUME NEW c \in ToSet(Tail(s)) PROVE c \in ToSet(s)
    OBVIOUS
  <2>1. PICK i \in 1 .. Len(s) - 1 : Tail(s)[i] = c
    BY <1>1 DEF ToSet
  <2> QED BY <1>1, <1>2, <1>3, <2>1
<1>5. ASSUME NEW c \in ToSet(s), c # Head(s) PROVE c \in ToSet(Tail(s))
  <2>1. PICK i \in 1 .. Len(s) : s[i] = c
    BY <1>1, Members
  <2>2. i # 1
    BY <1>1, <1>5, <2>1
  <2>3. i - 1 \in 1 .. Len(s) - 1 /\ Tail(s)[i - 1] = c
    BY <1>1, <2>1, <2>2
  <2> QED BY <1>1, <2>3, Members
<1>6. ASSUME Descending(s) PROVE Descending(Tail(s))
  <2> SUFFICES ASSUME NEW i \in 1 .. Len(s) - 1, NEW j \in 1 .. Len(s) - 1, i < j
               PROVE  Tail(s)[j] < Tail(s)[i]
    BY <1>1 DEF Descending
  <2>1. i + 1 < j + 1
    BY <1>1
  <2> QED BY <1>1, <1>3, <1>6, <2>1 DEF Descending
<1>7. ASSUME Descending(s), NEW c \in ToSet(s) PROVE c <= Head(s)
  <2>1. PICK i \in 1 .. Len(s) : s[i] = c
    BY <1>1, Members
  <2>2. c \in Codes /\ Head(s) \in Codes
    BY <1>1, <2>1
  <2>0. c \in Nat /\ Head(s) \in Nat
    BY <2>2, Numbered
  <2>3. i = 1 \/ c < Head(s)
    BY <1>1, <1>7, <2>1 DEF Descending
  <2> QED BY <1>1, <2>0, <2>1, <2>3
<1> QED BY <1>1, <1>2, <1>4, <1>5, <1>6, <1>7

TabRecords == [app : AppRecords, ids : Seq(Codes), old : SUBSET Pixels]

LEMMA TabTypes ==
  TypeOK <=> /\ RelTypeOK
             /\ content \in [Codes -> SUBSET Pixels] /\ placed \subseteq Pixels
             /\ tab \in [Tabs -> TabRecords] /\ calm \in BOOLEAN
             /\ \A t \in Tabs : tab[t].old # {} => tab[t].ids # <<>>
BY DEF TypeOK, TabRecords

\* A step of one tab that touches no instance.
LEMMA ProbeStep ==
  ASSUME RelInv, TypeOK, CalmTabs, CalmLeft, UNCHANGED <<relVars, content, placed>>,
         NEW t \in Tabs, NEW r \in TabRecords, tab' = [tab EXCEPT ![t] = r],
         CalmTab(r),
         \A k \in ToSet(pointer.legacy) :
           Left # {} /\ Keeps(k) =>
             /\ Finds(r, k)
             /\ content[pointer.inst] = {} /\ r.app.inst = pointer.inst => r.ids # <<>>
             /\ Probes(tab[t]) => Probes(r)
  PROVE  CalmTabs' /\ CalmLeft'
<1>1. /\ tab \in [Tabs -> TabRecords] /\ tab'[t] = r /\ pointer' = pointer
      /\ \A u \in Tabs : u # t => tab'[u] = tab[u]
      /\ content' = content /\ placed' = placed /\ Left' = Left
  BY DEF TypeOK, TabRecords, relVars, Left
<1>2. CalmTabs'
  <2>1. \A u \in Tabs : CalmTab(tab'[u])
    BY <1>1 DEF CalmTabs
  <2>2. (\A u \in Tabs : CalmTab(tab[u]))'
    BY <1>1, <2>1 DEF CalmTab
  <2> QED BY <1>1, <2>2 DEF CalmTabs
<1>3. CASE Left = {}
  BY <1>1, <1>2, <1>3 DEF CalmLeft
<1>4. ASSUME NEW k \in ToSet(pointer.legacy), Left # {}, Keeps(k) PROVE Keeps(k)'
  <2>1. \A u \in Tabs : Finds(tab'[u], k)
    BY <1>1, <1>4 DEF Keeps
  <2>2. (\A u \in Tabs : Finds(tab[u], k))'
    BY <1>1, <2>1 DEF Finds
  <2>3. content[pointer.inst] = {} =>
          \A u \in Tabs : tab'[u].app.inst = pointer.inst => Probes(tab'[u])
    BY <1>1, <1>4 DEF Keeps, Probes
  <2>4. content[pointer.inst] # {} => \E u \in Tabs : Probes(tab'[u])
    BY <1>1, <1>4 DEF Keeps
  <2> QED BY <1>1, <1>4, <2>2, <2>3, <2>4 DEF Keeps, Probes
<1> QED BY <1>1, <1>2, <1>3, <1>4 DEF CalmLeft

\* The steps of a probe: what is left stays on its way.
LEMMA CalmProbe ==
  ASSUME RelInv, TypeOK, calm, CalmInv, NEW t \in Tabs, calm',
         Load(t) \/ Resync(t) \/ Leave(t) \/ Fetch(t) \/ PassOver(t)
  PROVE  CalmInv'
<1> DEFINE r0 == tab[t]
<1>0. CalmRelease /\ CalmTabs /\ CalmLeft
  BY DEF CalmInv
<1>1. /\ r0 \in TabRecords /\ CalmTab(r0) /\ pointer \in AppRecords
      /\ r0.old # {} => r0.ids # <<>>
      /\ UNCHANGED <<relVars, content, placed>>
      /\ <<>> \in Seq(Codes) /\ ToSet(<<>>) = {} /\ Descending(<<>>)
  <2>1. r0 \in TabRecords /\ (r0.old # {} => r0.ids # <<>>) /\ pointer \in AppRecords
    BY TabTypes
  <2>2. UNCHANGED <<relVars, content, placed>>
    BY DEF Load, Resync, Leave, Fetch, PassOver
  <2>3. <<>> \in Seq(Codes) /\ ToSet(<<>>) = {} /\ Descending(<<>>)
    BY DEF Descending, ToSet
  <2> QED BY <1>0, <2>1, <2>2, <2>3 DEF CalmTabs
<1>2. CalmRelease'
  BY <1>0, <1>1 DEF CalmRelease, relVars
<1>3. ASSUME NEW k \in ToSet(pointer.legacy)
      PROVE  /\ k \in Codes /\ k \in Nat /\ k < pointer.inst /\ pointer.inst \in Codes
             /\ k \in Known(pointer) /\ pointer.legacy # <<>>
  <2>1. pointer.legacy # <<>>
    BY DEF ToSet
  <2>2. pointer # NoApp
    BY <2>1 DEF NoApp, App
  <2>3. k \in Codes
    BY <1>1, Members
  <2> QED BY <1>0, <2>1, <2>2, <2>3, Displaced, Numbered
<1>4. CASE Load(t)
  <2> DEFINE r == [Closed EXCEPT !.app = pointer, !.ids = Queue(pointer, <<>>)]
  <2>1. /\ r0.ids = <<>> /\ tab' = [tab EXCEPT ![t] = r] /\ pointer # NoApp
        /\ r.app = pointer /\ r.old = {}
        /\ r.ids = IF content[pointer.inst] = {} THEN pointer.legacy ELSE <<>>
    BY <1>4 DEF Load, Closed, Queue
  <2>2. r \in TabRecords
    BY <1>1, <2>1 DEF TabRecords, Closed, NoApp, App
  <2> HIDE DEF r
  <2>3. CalmTab(r)
    BY <1>0, <1>1, <2>1, Displaced DEF CalmTab, CalmRelease
  <2>4. ASSUME NEW k \in ToSet(pointer.legacy), Keeps(k)
        PROVE  /\ Finds(r, k)
               /\ content[pointer.inst] = {} /\ r.app.inst = pointer.inst => r.ids # <<>>
               /\ Probes(r0) => Probes(r)
    BY <1>3, <2>1 DEF Finds, Probes
  <2> QED BY <1>0, <1>1, <1>2, <2>1, <2>2, <2>3, <2>4, ProbeStep DEF CalmInv
<1>5. CASE Resync(t)
  <2> DEFINE r == [tab[t] EXCEPT !.ids = Queue(tab[t].app, @)]
  <2>1. /\ tab' = [tab EXCEPT ![t] = r] /\ r0.app # NoApp
        /\ r.app = r0.app /\ r.old = {} /\ r0.old = {} /\ r \in TabRecords
        /\ \/ r.ids = r0.ids
           \/ r0.ids = <<>> /\ content[r0.app.inst] = {} /\ r.ids = r0.app.legacy
        /\ content[r0.app.inst] = {} => r0.ids # <<>> \/ r.ids = r0.app.legacy
    BY <1>1, <1>5 DEF Resync, Queue, TabRecords
  <2> HIDE DEF r
  <2>3. CalmTab(r)
    BY <1>1, <2>1 DEF CalmTab
  <2>4. ASSUME NEW k \in ToSet(pointer.legacy), Keeps(k)
        PROVE  /\ Finds(r, k)
               /\ content[pointer.inst] = {} /\ r.app.inst = pointer.inst => r.ids # <<>>
               /\ Probes(r0) => Probes(r)
    <3>1. Finds(r0, k) /\ (content[pointer.inst] = {} /\ r0.app.inst = pointer.inst =>
                             r0.ids # <<>>)
      BY <2>4 DEF Keeps, Probes
    <3>2. k < r0.app.inst => k \in ToSet(r0.app.legacy)
      BY <1>1, <1>3, <2>1 DEF CalmTab
    <3> QED BY <2>1, <3>1, <3>2 DEF Finds, Probes
  <2> QED BY <1>0, <1>1, <1>2, <2>1, <2>3, <2>4, ProbeStep DEF CalmInv
<1>6. CASE Leave(t)
  <2>1. /\ r0.ids = <<>> /\ tab' = [tab EXCEPT ![t] = Closed]
        /\ Closed.app = NoApp /\ Closed.app.inst = NoCode /\ Closed.app.legacy = <<>>
        /\ Closed.ids = <<>> /\ Closed.old = {}
    BY <1>6 DEF Leave, Closed, NoApp, App
  <2>2. Closed \in TabRecords
    BY <1>1 DEF TabRecords, Closed, NoApp, App
  <2>3. CalmTab(Closed)
    BY <1>1, <2>1 DEF CalmTab
  <2>4. ASSUME NEW k \in ToSet(pointer.legacy), Keeps(k)
        PROVE  /\ Finds(Closed, k)
               /\ content[pointer.inst] = {} /\ Closed.app.inst = pointer.inst
                    => Closed.ids # <<>>
               /\ Probes(r0) => Probes(Closed)
    BY <1>3, <2>1, Numbered DEF Finds, Probes
  <2> QED BY <1>0, <1>1, <1>2, <2>1, <2>2, <2>3, <2>4, ProbeStep DEF CalmInv
<1>7. CASE Fetch(t)
  <2> DEFINE r == [tab[t] EXCEPT !.old = content[Head(tab[t].ids)]]
  <2>0. Head(r0.ids) \in ToSet(r0.ids) /\ Head(r0.ids) \in Codes
    BY <1>1, <1>7, HeadAndTail, Members DEF Fetch, TabRecords
  <2>1. /\ tab' = [tab EXCEPT ![t] = r] /\ r0.ids # <<>>
        /\ r.app = r0.app /\ r.ids = r0.ids /\ r0.old = {}
        /\ r.old = content[Head(r0.ids)] /\ r.old # {} /\ r \in TabRecords
    BY <1>1, <1>7, <2>0 DEF Fetch, TabRecords, TypeOK
  <2> HIDE DEF r
  <2>3. CalmTab(r)
    BY <1>1, <2>1 DEF CalmTab
  <2>4. ASSUME NEW k \in ToSet(pointer.legacy), Keeps(k)
        PROVE  /\ Finds(r, k)
               /\ content[pointer.inst] = {} /\ r.app.inst = pointer.inst => r.ids # <<>>
               /\ Probes(r0) => Probes(r)
    <3>1. Finds(r0, k)
      BY <2>4 DEF Keeps
    <3>2. ASSUME k < r0.app.inst PROVE Left \subseteq r.old
      <4>1. k \in ToSet(r0.ids) \/ Left = {}
        BY <2>1, <3>1, <3>2 DEF Finds
      <4>2. CASE k \in ToSet(r0.ids)
        <5>1. k <= Head(r0.ids)
          BY <1>1, <2>1, <4>2, HeadAndTail DEF TabRecords, CalmTab
        <5>2. r0.app # NoApp
          BY <1>1, <1>3, <3>2, Numbered DEF NoApp, App
        <5>3. Head(r0.ids) \in Known(pointer) /\ Head(r0.ids) < r0.app.inst
              /\ r0.app.inst \in Known(pointer)
          BY <1>1, <2>0, <5>2 DEF CalmTab
        <5>4. Head(r0.ids) < pointer.inst
          BY <1>0, <1>3, <5>3, Displaced, Numbered
        <5>5. Head(r0.ids) \in ToSet(pointer.legacy)
          BY <1>0, <5>3, <5>4, Displaced
        <5> QED BY <2>1, <2>4, <5>1, <5>5 DEF Keeps
      <4> QED BY <4>1, <4>2
    <3> QED BY <2>1, <3>2 DEF Finds, Probes
  <2> QED BY <1>0, <1>1, <1>2, <2>1, <2>3, <2>4, ProbeStep DEF CalmInv
<1>8. CASE PassOver(t)
  <2> DEFINE r == [tab[t] EXCEPT !.ids = Tail(@)]
  <2>0. /\ Tail(r0.ids) \in Seq(Codes) /\ Descending(Tail(r0.ids))
        /\ ToSet(Tail(r0.ids)) \subseteq ToSet(r0.ids)
        /\ \A c \in ToSet(r0.ids) : c = Head(r0.ids) \/ c \in ToSet(Tail(r0.ids))
    BY <1>1, <1>8, HeadAndTail DEF PassOver, TabRecords, CalmTab
  <2>1. /\ tab' = [tab EXCEPT ![t] = r] /\ r0.ids # <<>>
        /\ r.app = r0.app /\ r.ids = Tail(r0.ids) /\ r0.old = {} /\ r.old = {}
        /\ content[Head(r0.ids)] = {} /\ r \in TabRecords
    BY <1>1, <1>8, <2>0 DEF PassOver, TabRecords
  <2> HIDE DEF r
  <2>3. CalmTab(r)
    BY <1>1, <2>0, <2>1 DEF CalmTab
  <2>4. ASSUME NEW k \in ToSet(pointer.legacy), Left # {}, Keeps(k)
        PROVE  /\ Finds(r, k)
               /\ content[pointer.inst] = {} /\ r.app.inst = pointer.inst => r.ids # <<>>
               /\ Probes(r0) => Probes(r)
    <3>1. Finds(r0, k) /\ content[k] # {}
      BY <2>4 DEF Keeps
    <3>2. k < r0.app.inst => Left = {} \/ k \in ToSet(Tail(r0.ids))
      BY <2>0, <2>1, <3>1 DEF Finds
    <3>3. k < r0.app.inst => k \in ToSet(r.ids) /\ r.ids # <<>>
      <4>1. ToSet(<<>>) = {}
        BY <1>1
      <4> QED BY <2>1, <2>4, <3>2, <4>1
    <3> QED BY <1>3, <2>1, <3>3 DEF Finds, Probes
  <2> QED BY <1>0, <1>1, <1>2, <2>1, <2>3, <2>4, ProbeStep DEF CalmInv
<1> QED BY <1>4, <1>5, <1>6, <1>7, <1>8

\* A fold brings what is left into the served instance, or into an older one that a
\* later probe may find.
LEMMA CalmFold ==
  ASSUME RelInv, TypeOK, calm, CalmInv, NEW t \in Tabs, Fold(t)
  PROVE  CalmInv'
<1> DEFINE r0 == tab[t]
           r  == [tab[t] EXCEPT !.ids = <<>>, !.old = {}]
           a  == r0.app.inst
<1>0. CalmRelease /\ CalmTabs /\ CalmLeft
  BY DEF CalmInv
<1>1. /\ r0 \in TabRecords /\ r0.old # {} /\ r0.ids # <<>> /\ CalmTab(r0)
      /\ tab \in [Tabs -> TabRecords] /\ content \in [Codes -> SUBSET Pixels]
      /\ pointer \in AppRecords
  BY <1>0, TabTypes DEF Fold, CalmTabs
<1>2. /\ UNCHANGED <<relVars, placed>> /\ tab' = [tab EXCEPT ![t] = r]
      /\ content' = [content EXCEPT ![a] = @ \cup r0.old]
      /\ r.app = r0.app /\ r.ids = <<>> /\ r.old = {}
  BY <1>1 DEF Fold, Folded, TabRecords
<1> HIDE DEF r, r0, a
<1>3. a = r0.app.inst /\ r0 = tab[t]
  BY DEF a, r0
<1>4. r0.app # NoApp
  <2>1. Head(r0.ids) \in ToSet(r0.app.legacy)
    BY <1>1, HeadAndTail DEF TabRecords, CalmTab
  <2> QED BY <2>1 DEF NoApp, App, ToSet
<1>5. /\ a \in Codes /\ a \in Known(pointer) /\ a \in Nat /\ a <= pointer.inst
      /\ pointer # NoApp /\ pointer.inst \in Codes
  <2>1. a \in Codes /\ a \in Known(pointer)
    BY <1>1, <1>3, <1>4 DEF CalmTab
  <2>2. pointer # NoApp
    BY <2>1, Numbered DEF NoApp, App, ToSet
  <2> QED BY <1>0, <2>1, <2>2, Displaced
<1>6. CalmRelease'
  BY <1>0, <1>2 DEF CalmRelease, relVars
<1>7. /\ tab'[t] = r /\ \A u \in Tabs : u # t => tab'[u] = tab[u]
      /\ content'[a] = content[a] \cup r0.old
      /\ \A c \in Codes : c # a => content'[c] = content[c]
      /\ pointer' = pointer /\ placed' = placed
  BY <1>1, <1>2, <1>5 DEF relVars
<1>8. CalmTabs'
  <2>1. CalmTab(r)
    BY <1>1, <1>2 DEF CalmTab, Descending, ToSet
  <2>2. \A u \in Tabs : CalmTab(tab'[u])
    BY <1>0, <1>7, <2>1 DEF CalmTabs
  <2>3. (\A u \in Tabs : CalmTab(tab[u]))'
    BY <1>7, <2>2 DEF CalmTab
  <2> QED BY <1>0, <1>5, <1>7, <2>3 DEF CalmTabs
<1>9. Left = placed \ content[pointer.inst] /\ Left' = placed \ content'[pointer.inst]
  BY <1>5, <1>7 DEF Left
<1>10. Left' \subseteq Left
  BY <1>5, <1>7, <1>9
<1>11. CASE Left = {}
  BY <1>6, <1>8, <1>10, <1>11 DEF CalmInv, CalmLeft
<1>12. ASSUME NEW k \in ToSet(pointer.legacy), Keeps(k), Left # {}
       PROVE  CalmLeft'
  <2>1. k \in Codes /\ k \in Nat /\ k < pointer.inst
    BY <1>0, <1>1, <1>12, Members, Displaced, Numbered
  <2>2. k < a => Left \subseteq r0.old
    BY <1>1, <1>3, <1>12 DEF Keeps, Finds
  <2>3. CASE a = pointer.inst
    BY <1>7, <1>9, <2>1, <2>2, <2>3 DEF CalmLeft
  <2>4. CASE a # pointer.inst
    <3>1. content'[pointer.inst] = content[pointer.inst] /\ Left' = Left
      BY <1>5, <1>7, <1>9, <2>4
    <3>2. content'[k] # {}
      BY <1>7, <1>12, <2>1 DEF Keeps
    <3>3. ASSUME NEW c \in ToSet(pointer.legacy), k <= c
          PROVE  content'[c] = {} \/ Left \subseteq content'[c]
      <4>0. c \in Codes /\ (content[c] = {} \/ Left \subseteq content[c])
        BY <1>1, <1>12, <3>3, Members DEF Keeps
      <4>1. CASE c # a
        BY <1>7, <4>0, <4>1
      <4>2. CASE c = a /\ c = k
        BY <1>7, <1>12, <4>0, <4>2 DEF Keeps
      <4>3. CASE c = a /\ k < c
        BY <1>7, <2>2, <4>3
      <4> QED BY <1>5, <2>1, <3>3, <4>1, <4>2, <4>3
    <3>4. \A u \in Tabs : Finds(tab'[u], k)
      BY <1>2, <1>7, <1>12 DEF Keeps, Finds
    <3>5. (\A u \in Tabs : Finds(tab[u], k))'
      BY <3>1, <3>4 DEF Finds
    <3>6. \A u \in Tabs : tab[u].app.inst = pointer.inst => tab'[u] = tab[u]
      BY <1>3, <1>7, <2>4
    <3>7. \A u \in Tabs : tab'[u].app.inst = pointer.inst => tab'[u] = tab[u]
      BY <1>2, <1>3, <1>7, <2>4
    <3>8. content'[pointer.inst] = {} =>
            \A u \in Tabs : tab'[u].app.inst = pointer.inst => Probes(tab'[u])
      BY <1>12, <3>1, <3>7 DEF Keeps
    <3>9. content'[pointer.inst] # {} => \E u \in Tabs : Probes(tab'[u])
      BY <1>12, <3>1, <3>6 DEF Keeps, Probes
    <3>10. Keeps(k)'
      BY <1>7, <3>1, <3>2, <3>3, <3>5, <3>8, <3>9 DEF Keeps, Probes
    <3> QED BY <1>7, <3>10 DEF CalmLeft
  <2> QED BY <2>3, <2>4
<1> QED BY <1>0, <1>6, <1>8, <1>11, <1>12 DEF CalmInv, CalmLeft

\* A placement goes to the served instance, so no more is left than before.
LEMMA CalmPlace ==
  ASSUME RelInv, TypeOK, calm, CalmInv, NEW t \in Tabs, NEW x \in Pixels, Place(t, x),
         calm'
  PROVE  CalmInv'
<1>0. CalmRelease /\ CalmTabs /\ CalmLeft
  BY DEF CalmInv
<1>1. /\ tab[t].app = pointer /\ pointer # NoApp /\ UNCHANGED <<relVars, tab>>
      /\ content' = [content EXCEPT ![pointer.inst] = @ \cup {x}]
      /\ placed' = placed \cup {x} /\ pointer' = pointer /\ tab' = tab
  BY DEF Place, relVars
<1>2. content \in [Codes -> SUBSET Pixels] /\ pointer \in AppRecords
  BY TabTypes
<1>3. pointer.inst \in Codes
  BY <1>0, <1>1, Displaced
<1>4. /\ content'[pointer.inst] = content[pointer.inst] \cup {x}
      /\ \A c \in Codes : c # pointer.inst => content'[c] = content[c]
  BY <1>1, <1>2, <1>3
<1>5. CalmRelease'
  BY <1>0, <1>1 DEF CalmRelease, relVars
<1>6. CalmTabs'
  BY <1>0, <1>1, <1>3, <1>4 DEF CalmTabs, CalmTab
<1>7. Left' \subseteq Left
  BY <1>1, <1>4 DEF Left
<1>8. CASE Left' = {}
  BY <1>5, <1>6, <1>8 DEF CalmInv, CalmLeft
<1>9. ASSUME NEW k \in ToSet(pointer.legacy), Keeps(k) PROVE Keeps(k)'
  <2>1. \A c \in ToSet(pointer.legacy) : c \in Codes /\ c # pointer.inst
    BY <1>0, <1>2, Members, Displaced, Numbered
  <2>2. \A c \in ToSet(pointer.legacy) : content'[c] = content[c]
    BY <1>4, <2>1
  <2>3. \E u \in Tabs : Probes(tab[u])
    <3>1. CASE content[pointer.inst] = {}
      BY <1>1, <1>9, <3>1 DEF Keeps
    <3> QED BY <1>9, <3>1 DEF Keeps
  <2> QED BY <1>1, <1>4, <1>7, <1>9, <2>2, <2>3 DEF Keeps, Finds, Probes
<1> QED BY <1>0, <1>1, <1>5, <1>6, <1>7, <1>8, <1>9 DEF CalmInv, CalmLeft

\* The pointer moves, with no probe on its way: what it pointed to is now the first
\* that is displaced, and has all that was placed or nothing.
LEMMA CalmMove ==
  ASSUME RelInv, TypeOK, calm, CalmInv, run.pc = "flipping", pointer' = run.app,
         pointer' # pointer, \A t \in Tabs : tab[t].ids = <<>>,
         UNCHANGED <<content, tab, placed>>
  PROVE  CalmTabs' /\ CalmLeft'
<1> DEFINE n == run.code
           o == pointer.inst
<1>0. CalmRelease /\ CalmTabs /\ CalmLeft
  BY DEF CalmInv
<1>1. /\ run.app.inst \in Codes /\ run.app.inst = n
      /\ ToSet(run.app.legacy) = ToSet(legacy)
      /\ \A c \in ToSet(legacy) : c < n
      /\ o <= n
      /\ Known(pointer) \ {NoCode} \subseteq Known(run.app)
      /\ Known(run.app) \subseteq Known(pointer) \cup {n}
  BY <1>0, CalmFlip
<1>2. /\ n \in Codes /\ n \in Nat /\ n # NoCode /\ run.app # NoApp /\ o \in Nat
      /\ \A c \in Known(pointer) : c \in Nat /\ c <= o
      /\ \A c \in Codes : c \in Nat /\ c # NoCode
  <2>1. \A c \in Known(pointer) : c \in Nat /\ c <= o
    BY <1>0, Displaced
  <2>2. o \in Known(pointer)
    OBVIOUS
  <2>3. n \in Codes /\ \A c \in Codes : c \in Nat /\ c # NoCode
    BY <1>1, Numbered
  <2>4. run.app.inst # NoCode
    BY <1>1, <2>3
  <2>5. run.app # NoApp
    BY <2>4 DEF NoApp, App
  <2> QED BY <2>1, <2>2, <2>3, <2>5
<1>3. tab \in [Tabs -> TabRecords] /\ content \in [Codes -> SUBSET Pixels]
  BY TabTypes
<1> HIDE DEF n, o
<1>4. ASSUME NEW c \in Known(pointer) PROVE c <= n /\ (c < n \/ (c = n /\ n = o))
  <2>1. c \in Nat /\ c <= o /\ o <= n
    BY <1>1, <1>2
  <2> QED BY <1>2, <2>1
<1>5. CalmTabs'
  <2>1. ASSUME NEW u \in Tabs PROVE CalmTab(tab[u])'
    <3>1. CalmTab(tab[u]) /\ tab'[u] = tab[u]
      BY <1>0 DEF CalmTabs
    <3>2. CASE tab[u].app = NoApp
      BY <3>1, <3>2 DEF CalmTab
    <3>3. CASE tab[u].app # NoApp
      <4> DEFINE b == tab[u].app.inst
      <4>1. b \in Codes /\ b \in Known(pointer)
            /\ ToSet(tab[u].app.legacy) = {c \in Known(pointer) : c < b}
        BY <3>1, <3>3 DEF CalmTab
      <4>3. b # NoCode /\ b \in Nat
        BY <1>2, <4>1
      <4>2. b \in Known(run.app) /\ b \in Nat /\ b <= n
        BY <1>1, <1>4, <4>1, <4>3
      <4> HIDE DEF b
      <4>4. \A c \in Known(run.app) : c < b => c \in Known(pointer)
        BY <1>1, <1>2, <4>2
      <4>5. \A c \in Known(pointer) : c < b => c \in Known(run.app) \/ c = NoCode
        BY <1>1
      <4>6. NoCode \notin Known(pointer)
        <5>1. pointer.inst # NoCode
          BY <1>2, <4>1, <4>3 DEF o
        <5>2. ToSet(pointer.legacy) \subseteq Codes
          BY Members DEF RelInv
        <5> QED BY <1>2, <5>1, <5>2
      <4>7. {c \in Known(run.app) : c < b} = {c \in Known(pointer) : c < b}
        BY <4>4, <4>5, <4>6
      <4> QED BY <3>1, <4>1, <4>2, <4>7 DEF CalmTab, b
    <3> QED BY <3>2, <3>3
  <2>2. \A c \in Codes : content[c] # {} => c \in Known(run.app)
    BY <1>0, <1>1, <1>2 DEF CalmTabs
  <2> QED BY <1>2, <2>1, <2>2 DEF CalmTabs
<1>6. Left' = placed \ content[n]
  BY <1>1, <1>2 DEF Left
<1>7. CASE pointer = NoApp
  BY <1>0, <1>5, <1>6, <1>7 DEF CalmTabs, CalmLeft
<1>8. CASE pointer # NoApp
  <2>1. o \in Codes /\ Left = placed \ content[o]
    BY <1>0, <1>8, Displaced DEF o, Left
  <2>2. \A u \in Tabs : tab[u].app.inst \notin Known(pointer) => tab[u].app.inst = NoCode
    BY <1>0 DEF CalmTabs, CalmTab, NoApp, App
  <2>3. ASSUME NEW k \in Codes, k \in ToSet(legacy), content[k] # {}, content[n] = {},
               \A u \in Tabs : tab[u].app.inst # n,
               \A c \in ToSet(legacy) : k <= c => content[c] = {} \/ placed \subseteq content[c]
        PROVE  CalmLeft'
    <3>1. k \in ToSet(run.app.legacy)
      BY <1>1, <2>3
    <3>2. Left' = placed
      BY <1>6, <2>3
    <3>3. Keeps(k)'
      BY <1>1, <2>3, <3>2 DEF Keeps, Finds, Probes
    <3> QED BY <3>1, <3>3 DEF CalmLeft
  <2>4. ToSet(legacy) \subseteq Codes /\ \A c \in ToSet(legacy) : c \in Known(pointer) /\ c <= o
    <3>1. ToSet(legacy) \subseteq Codes
      BY Members DEF RelInv
    <3>2. ASSUME NEW c \in ToSet(legacy) PROVE c \in Known(pointer)
      <4>1. c \in Known(run.app) /\ c < n
        BY <1>1
      <4>2. c # n
        BY <1>2, <4>1
      <4> QED BY <1>1, <4>1, <4>2
    <3> QED BY <1>2, <3>1, <3>2
  <2>5. \A u \in Tabs : tab[u].app.inst = o => content[o] # {} \/ Left = {}
    <3>1. ASSUME NEW u \in Tabs, tab[u].app.inst = o, content[o] = {}, Left # {} PROVE FALSE
      BY <1>0, <3>1 DEF CalmLeft, Keeps, Probes, o
    <3> QED BY <3>1
  <2>6. Left = {} \/ content[o] = {}
    BY <1>0 DEF CalmLeft, Keeps, Probes, o
  <2>7. CASE n = o
    <3>1. CASE Left = {}
      BY <1>5, <1>6, <2>1, <2>7, <3>1 DEF CalmLeft
    <3>2. ASSUME Left # {} PROVE CalmLeft'
      <4>1. PICK k \in ToSet(pointer.legacy) : Keeps(k)
        BY <1>0, <3>2 DEF CalmLeft
      <4>2. k \in ToSet(legacy) /\ content[k] # {} /\ content[o] = {}
        BY <1>0, <2>6, <3>2, <4>1 DEF CalmRelease, Keeps
      <4>3. \A c \in ToSet(legacy) : c \in ToSet(pointer.legacy)
        BY <1>0, <1>1, <2>7 DEF CalmRelease, o
      <4>4. Left = placed
        BY <2>1, <4>2
      <4>5. \A c \in ToSet(legacy) : k <= c => content[c] = {} \/ placed \subseteq content[c]
        BY <4>1, <4>3, <4>4 DEF Keeps
      <4>6. \A u \in Tabs : tab[u].app.inst # n
        BY <2>5, <2>7, <3>2, <4>2
      <4> QED BY <2>3, <2>4, <2>7, <4>2, <4>5, <4>6
    <3> QED BY <1>5, <3>1, <3>2
  <2>8. CASE n # o
    <3>1. n \notin Known(pointer) /\ o < n
      BY <1>1, <1>2, <1>4, <2>1, <2>8 DEF o
    <3>2. content[n] = {}
      BY <1>0, <1>2, <3>1 DEF CalmTabs
    <3>3. \A u \in Tabs : tab[u].app.inst # n
      BY <1>2, <2>2, <3>1, <1>0 DEF CalmTabs, CalmTab, NoApp, App
    <3>4. o \in ToSet(legacy)
      <4>1. o \in Known(run.app)
        BY <1>1, <1>2, <2>1 DEF o
      <4> QED BY <1>1, <2>8, <4>1
    <3>5. CASE placed = {}
      BY <1>5, <1>6, <3>5 DEF CalmLeft
    <3>6. ASSUME placed # {}, Left = {} PROVE CalmLeft'
      <4>1. placed \subseteq content[o] /\ content[o] # {}
        BY <2>1, <3>6
      <4>2. ASSUME NEW c \in ToSet(legacy), o <= c PROVE c = o
        <5>1. c <= o /\ c \in Nat
          BY <1>2, <2>4
        <5> QED BY <1>2, <4>2, <5>1
      <4>3. \A c \in ToSet(legacy) : o <= c => content[c] = {} \/ placed \subseteq content[c]
        BY <4>1, <4>2
      <4> QED BY <2>1, <2>3, <3>2, <3>3, <3>4, <4>1, <4>3
    <3>7. ASSUME Left # {} PROVE CalmLeft'
      <4>1. PICK k \in ToSet(pointer.legacy) : Keeps(k)
        BY <1>0, <3>7 DEF CalmLeft
      <4>2. k \in ToSet(legacy) /\ content[k] # {} /\ content[o] = {}
        BY <1>0, <2>6, <3>7, <4>1 DEF CalmRelease, Keeps
      <4>3. \A c \in ToSet(legacy) : c = o \/ c \in ToSet(pointer.legacy)
        BY <2>4 DEF o
      <4>4. Left = placed
        BY <2>1, <4>2
      <4>5. \A c \in ToSet(legacy) : k <= c => content[c] = {} \/ placed \subseteq content[c]
        BY <4>1, <4>2, <4>3, <4>4 DEF Keeps
      <4> QED BY <2>3, <2>4, <3>2, <3>3, <4>2, <4>5
    <3> QED BY <1>5, <3>5, <3>6, <3>7
  <2> QED BY <1>5, <2>7, <2>8
<1> QED BY <1>7, <1>8

LEMMA CalmUpgrade ==
  ASSUME RelInv, TypeOK, calm, CalmInv, Upgrade, calm'
  PROVE  CalmInv'
<1>0. CalmRelease /\ CalmTabs /\ CalmLeft
  BY DEF CalmInv
<1>1. RelNext /\ ~Abort /\ ~Hasty /\ ~GoesBack /\ UNCHANGED <<content, tab, placed>>
  BY DEF Upgrade
<1>2. CalmRelease'
  BY <1>0, <1>1, CalmReleaseStep
<1>3. CASE pointer' = pointer
  <2>1. CalmTabs' /\ CalmLeft'
    BY <1>0, <1>1, <1>3 DEF CalmTabs, CalmTab, CalmLeft, Left, Keeps, Finds, Probes
  <2> QED BY <1>2, <2>1 DEF CalmInv
<1>4. CASE pointer' # pointer
  <2>1. run.pc = "flipping" /\ pointer' = run.app
    BY <1>1, <1>4 DEF RelNext, Start, Record, BuildAndPublish, Flip, Finish
  <2>2. \A t \in Tabs : tab[t].ids = <<>>
    BY <1>1, <1>4 DEF Hasty
  <2> QED BY <1>1, <1>2, <1>4, <2>1, <2>2, CalmMove DEF CalmInv
<1> QED BY <1>3, <1>4

LEMMA CalmStep == RelInv /\ TypeOK /\ CalmInv /\ [Next]_vars => CalmInv'
<1> SUFFICES ASSUME RelInv, TypeOK, CalmInv, [Next]_vars, calm' PROVE CalmInv'
  BY DEF CalmInv
<1>1. CASE UNCHANGED vars
  BY <1>1 DEF vars, relVars, migVars, CalmInv, CalmRelease, CalmTabs, CalmTab, CalmLeft, Left,
              Keeps, Finds, Probes
<1>2. ASSUME Next PROVE calm
  BY <1>2 DEF Next, Upgrade, Load, Resync, Leave, Fetch, PassOver, Fold, FoldFails, Place
<1>3. ASSUME NEW t \in Tabs PROVE ~FoldFails(t)
  BY DEF FoldFails
<1> QED BY <1>1, <1>2, <1>3, CalmUpgrade, CalmProbe, CalmFold, CalmPlace DEF Next

\* The first on a list that is not empty.
Keep(a, b) == a

Numbers == INSTANCE Folding WITH Op <- Keep, A <- Codes, E <- Codes, Less <- Keep

LEMMA Reaches ==
  ASSUME RelInv, TypeOK, CalmRelease, NEW s \in Seq(Codes), Descending(s),
         ToSet(s) \subseteq ToSet(pointer.legacy),
         NEW k \in ToSet(pointer.legacy), k \in ToSet(s), Keeps(k)
  PROVE  IsNext(s, Left)
<1> DEFINE T == {i \in DOMAIN s : content[s[i]] # {}}
<1>1. DOMAIN s = 1 .. Len(s) /\ Len(s) \in Nat
  OBVIOUS
<1>2. PICK j \in DOMAIN s : s[j] = k
  BY Members
<1>3. T \in SUBSET Nat /\ j \in T
  BY <1>1, <1>2 DEF Keeps
<1> HIDE DEF T
<1>4. PICK i \in T : \A m \in T : i <= m
  BY <1>3, Numbers!Least
<1>5. i \in DOMAIN s /\ content[s[i]] # {} /\ i <= j
  BY <1>3, <1>4 DEF T
<1>6. s[i] \in ToSet(pointer.legacy)
  BY <1>5, Members
<1>7. s[i] \in Nat /\ k \in Nat
  <2>1. s[i] \in Codes /\ k \in Codes
    BY <1>2, <1>5
  <2> QED BY <2>1, Numbered
<1>8. k <= s[i]
  BY <1>1, <1>2, <1>5, <1>7 DEF Descending
<1>9. Left \subseteq content[s[i]]
  BY <1>5, <1>6, <1>8 DEF Keeps
<1>10. ASSUME NEW m \in 1 .. i - 1 PROVE content[s[m]] = {}
  BY <1>1, <1>4, <1>5 DEF T
<1> QED BY <1>5, <1>9, <1>10 DEF IsNext

LEMMA CalmCarries == RelInv /\ TypeOK /\ CalmInv => CalmUpgradesCarryAll
<1> SUFFICES ASSUME RelInv, TypeOK, CalmInv, calm, pointer # NoApp, Left # {}
             PROVE  \/ content[pointer.inst] = {} /\ IsNext(pointer.legacy, Left)
                    \/ \E t \in Tabs :
                         /\ tab[t].app.inst = pointer.inst /\ tab[t].ids # <<>>
                         /\ \/ Left \subseteq tab[t].old
                            \/ tab[t].old = {} /\ IsNext(tab[t].ids, Left)
  BY DEF CalmUpgradesCarryAll, Left
<1>1. CalmRelease /\ CalmTabs /\ CalmLeft
  BY DEF CalmInv
<1>2. PICK k \in ToSet(pointer.legacy) : Keeps(k)
  BY <1>1 DEF CalmLeft
<1>3. pointer.legacy \in Seq(Codes) /\ Descending(pointer.legacy)
  BY <1>1 DEF RelInv, CalmRelease
<1>4. CASE content[pointer.inst] = {}
  BY <1>1, <1>2, <1>3, <1>4, Reaches
<1>5. CASE content[pointer.inst] # {}
  <2>1. PICK t \in Tabs : Probes(tab[t])
    BY <1>2, <1>5 DEF Keeps
  <2>2. /\ tab[t] \in TabRecords /\ CalmTab(tab[t]) /\ Finds(tab[t], k)
        /\ k < pointer.inst /\ pointer.inst \in Codes
    BY <1>1, <1>2, TabTypes, Displaced DEF CalmTabs, Keeps
  <2>3. tab[t].app # NoApp
    BY <2>1, <2>2, Numbered DEF Probes, NoApp, App
  <2>4. ToSet(tab[t].app.legacy) = ToSet(pointer.legacy)
    BY <1>1, <2>1, <2>2, <2>3, Displaced DEF Probes, CalmTab
  <2>5. Left \subseteq tab[t].old \/ (tab[t].old = {} /\ k \in ToSet(tab[t].ids))
    BY <2>1, <2>2 DEF Finds, Probes
  <2>6. tab[t].ids \in Seq(Codes) /\ Descending(tab[t].ids)
        /\ ToSet(tab[t].ids) \subseteq ToSet(pointer.legacy)
    BY <2>2, <2>4 DEF TabRecords, CalmTab
  <2> QED BY <1>1, <1>2, <2>1, <2>5, <2>6, Reaches DEF Probes
<1> QED BY <1>4, <1>5

\* However many upgrades there are, if none is broken off, goes back or is hasty and
\* no fetch or fold fails: what is not yet in the served instance is the next that a
\* probe finds, and there is one or will be with the first reader.
THEOREM CalmUpgradesCarry == Spec => []CalmUpgradesCarryAll
<1>1. Init => CalmInv
  BY DEF Init, RelInit, CalmInv, CalmRelease, CalmTabs, CalmTab, CalmLeft, Left, Closed,
         NoApp, App, Idle, Ascending, Descending, ToSet
<1>2. RelInv /\ TypeOK /\ CalmInv /\ [Next]_vars => CalmInv'
  BY CalmStep
<1>3. Spec => []CalmInv
  BY <1>1, <1>2, Invariant, PTL DEF Spec, SafeSpec
<1> QED BY <1>3, Invariant, CalmCarries, PTL

-----------------------------------------------------------------------------
\* The contract of update_state: every payload the host delivers.
Payload == [kind : {"state", "delta", "both"}, from : Peers, to : Peers,
            state : States, delta : States]

\* One update on a replica in state s that was told H.
LEMMA NewerJoins ==
  ASSUME NEW H \in SUBSET Pointers, NEW s \in States, IsNewest(s, H),
         NEW f \in Pointers
  PROVE  /\ Newer(s, f) \in Pointers
         /\ IsNewest(Newer(s, f), H \cup {f})
         /\ s = Newer(s, f) \/ OrderLess(s, Newer(s, f))
<1>1. /\ s \in Pointers \/ (s = NoPointer /\ H = {})
      /\ s \in Pointers => s # NoPointer
      /\ f # NoPointer
  BY PointerAssumption DEF States, IsNewest, NoPointer
<1>2. CASE s = NoPointer
  <2>1. H = {} /\ Newer(s, f) = f
    BY <1>1, <1>2 DEF Newer
  <2> QED BY <1>2, <2>1, PointerAssumption DEF IsNewest, OrderLess, NoPointer
<1>3. CASE s \in Pointers /\ ~OrderLess(s, f)
  <2>1. Newer(s, f) = s
    BY <1>1, <1>3 DEF Newer
  <2> QED BY <1>1, <1>3, <2>1 DEF IsNewest
<1>4. CASE s \in Pointers /\ OrderLess(s, f)
  <2>1. Newer(s, f) = f
    BY <1>4 DEF Newer
  <2>2. ASSUME NEW g \in H PROVE ~OrderLess(f, g)
    <3>1. g \in Pointers /\ ~OrderLess(s, g)
      BY <2>2 DEF IsNewest
    <3> QED BY <1>4, <3>1, PointerAssumption DEF OrderLess
  <2>3. ~OrderLess(f, f)
    BY PointerAssumption DEF OrderLess
  <2> QED BY <1>4, <2>1, <2>2, <2>3 DEF IsNewest
<1> QED BY <1>1, <1>2, <1>3, <1>4

\* The order of the pointers, the older of two or the same, is transitive.
LEMMA OrderTransitive ==
  ASSUME NEW f \in States, NEW g \in Pointers, NEW h \in Pointers,
         f = g \/ OrderLess(f, g), g = h \/ OrderLess(g, h)
  PROVE  f = h \/ OrderLess(f, h)
BY PointerAssumption DEF OrderLess, States, NoPointer

\* A whole accepted update, of one part or of two.
LEMMA UpdateJoins ==
  ASSUME NEW H \in SUBSET Pointers, NEW s \in States, IsNewest(s, H),
         NEW m \in Payload, NEW t, Host!Accepted(m, t)
  PROVE  /\ Host!Updated(s, m) \in Pointers /\ Host!Told(s, m) \in SUBSET Pointers
         /\ IsNewest(Host!Updated(s, m), H \cup Host!Told(s, m))
         /\ s = Host!Updated(s, m) \/ OrderLess(s, Host!Updated(s, m))
<1> DEFINE mid == Newer(s, m.state)
<1>1. CASE m.kind = "delta"
  <2>1. m.delta \in Pointers /\ Host!Told(s, m) = {m.delta}
        /\ Host!Updated(s, m) = Newer(s, m.delta)
    BY <1>1 DEF Payload, Host!Accepted, Parses, States, Host!Told, ToldBy, Host!Updated
  <2> QED BY <2>1, NewerJoins
<1>2. CASE m.kind = "state"
  <2>1. m.state \in Pointers /\ Host!Told(s, m) = {m.state}
        /\ Host!Updated(s, m) = Newer(s, m.state)
    BY <1>2 DEF Payload, Host!Accepted, Parses, States, Host!Told, Single, Host!Updated
  <2> QED BY <2>1, NewerJoins
<1>3. CASE m.kind = "both"
  <2>1. /\ m.state \in Pointers /\ m.delta \in Pointers
        /\ Host!Told(s, m) = {m.state} \cup {m.delta}
        /\ Host!Updated(s, m) = Newer(mid, m.delta)
    BY <1>3 DEF Payload, Host!Accepted, Parses, States, Host!Told, Single, ToldBy, Host!Updated
  <2>2. /\ mid \in Pointers /\ IsNewest(mid, H \cup {m.state})
        /\ s = mid \/ OrderLess(s, mid)
    BY <2>1, NewerJoins
  <2> HIDE DEF mid
  <2>3. /\ Newer(mid, m.delta) \in Pointers
        /\ IsNewest(Newer(mid, m.delta), (H \cup {m.state}) \cup {m.delta})
        /\ mid = Newer(mid, m.delta) \/ OrderLess(mid, Newer(mid, m.delta))
    <3>1. mid \in States /\ H \cup {m.state} \in SUBSET Pointers
      BY <2>1, <2>2 DEF States
    <3> QED BY <2>1, <2>2, <3>1, NewerJoins
  <2>4. (H \cup {m.state}) \cup {m.delta} = H \cup Host!Told(s, m)
    BY <2>1
  <2>5. s = Newer(mid, m.delta) \/ OrderLess(s, Newer(mid, m.delta))
    BY <2>2, <2>3, OrderTransitive
  <2> QED BY <2>1, <2>3, <2>4, <2>5
<1> QED BY <1>1, <1>2, <1>3 DEF Payload

-----------------------------------------------------------------------------
FacadeInv == FacadeTypeOK /\ ServesNewest

Forward == \A p \in Peers : state'[p] = state[p] \/ OrderLess(state[p], state'[p])

\* An update, accepted or not, keeps the newest pointer and goes forward.
LEMMA FacadeUpdate ==
  ASSUME FacadeInv, NEW p \in Peers, NEW m \in Payload, Host!Update(p, m)
  PROVE  /\ state' \in [Peers -> States] /\ heard' \in [Peers -> SUBSET Pointers]
         /\ ServesNewest' /\ Forward
<1>0. /\ state[p] \in States /\ heard[p] \in SUBSET Pointers
      /\ IsNewest(state[p], heard[p])
  BY DEF FacadeInv, FacadeTypeOK, ServesNewest
<1>1. CASE Host!Accepted(m, clock[p])
  <2> DEFINE s == Host!Updated(state[p], m)
             H == heard[p] \cup Host!Told(state[p], m)
  <2>1. /\ s \in Pointers /\ H \in SUBSET Pointers /\ IsNewest(s, H)
        /\ state[p] = s \/ OrderLess(state[p], s)
    BY <1>0, <1>1, UpdateJoins
  <2>2. /\ state' = [state EXCEPT ![p] = s]
        /\ heard' = [heard EXCEPT ![p] = H]
    BY <1>1 DEF Host!Update
  <2> HIDE DEF s, H
  <2>3. state' \in [Peers -> States] /\ heard' \in [Peers -> SUBSET Pointers]
    BY <2>1, <2>2 DEF FacadeInv, FacadeTypeOK, States
  <2>4. ASSUME NEW q \in Peers
        PROVE  /\ IsNewest(state'[q], heard'[q])
               /\ state'[q] = state[q] \/ OrderLess(state[q], state'[q])
    <3>1. CASE q = p
      BY <2>1, <2>2, <3>1 DEF FacadeInv, FacadeTypeOK
    <3>2. CASE q # p
      <4>1. state'[q] = state[q] /\ heard'[q] = heard[q]
        BY <2>2, <3>2 DEF FacadeInv, FacadeTypeOK
      <4> QED BY <4>1 DEF FacadeInv, ServesNewest
    <3> QED BY <3>1, <3>2
  <2> QED BY <2>3, <2>4 DEF ServesNewest, Forward
<1>2. CASE ~Host!Accepted(m, clock[p])
  BY <1>2 DEF Host!Update, FacadeInv, FacadeTypeOK, ServesNewest, Forward, IsNewest
<1> QED BY <1>1, <1>2

\* A step that touches no replica keeps what is said of the replicas.
LEMMA FacadeIdle ==
  ASSUME FacadeInv, UNCHANGED <<state, heard>>
  PROVE  /\ state' \in [Peers -> States] /\ heard' \in [Peers -> SUBSET Pointers]
         /\ ServesNewest' /\ Forward
BY DEF FacadeInv, FacadeTypeOK, ServesNewest, Forward, IsNewest

\* What a peer puts on the network.
LEMMA FacadeSends ==
  ASSUME FacadeTypeOK, NEW p \in Peers, NEW q \in Peers,
         NEW kind \in {"state", "delta", "both"}, NEW s \in States, NEW d \in States
  PROVE  Host!Delivery(p, q, kind, s, d) \in Payload /\ MessageOK(Host!Delivery(p, q, kind, s, d))
BY DEF Host!Delivery, Payload, MessageOK

\* A delta is a pointer or nothing.
LEMMA FacadeDelta ==
  ASSUME NEW f \in States, NEW v PROVE Delta(f, v) \in States
BY DEF Delta, States

\* Every step keeps the invariant and takes no replica back.
LEMMA FacadeStep == FacadeInv /\ [Host!Next]_(Host!vars) => FacadeInv' /\ Forward
<1> SUFFICES ASSUME FacadeInv, [Host!Next]_(Host!vars) PROVE FacadeInv' /\ Forward
  OBVIOUS
<1>0. FacadeTypeOK
  BY DEF FacadeInv
<1>1. ASSUME NEW p \in Peers, Host!Tick(p) PROVE FacadeInv' /\ Forward
  <2>1. clock' \in [Peers -> 0 .. MaxClock]
    BY <1>0, <1>1, FacadeBoundAssumption DEF Host!Tick, FacadeTypeOK
  <2>2. UNCHANGED <<state, heard, net>>
    BY <1>1 DEF Host!Tick
  <2> QED BY <1>0, <2>1, <2>2, FacadeIdle DEF FacadeInv, FacadeTypeOK
<1>2. ASSUME NEW p \in Peers, NEW d \in Pointers, Host!Submit(p, d)
      PROVE  FacadeInv' /\ Forward
  <2>1. Host!Delivery(p, p, "delta", NoPointer, d) \in Payload
    BY <1>0, FacadeSends DEF States
  <2> QED BY <1>0, <1>2, <2>1, FacadeUpdate DEF Host!Submit, FacadeInv, FacadeTypeOK
<1>3. ASSUME NEW p \in Peers, NEW q \in Peers,
             Host!Ask(p, q) \/ Host!PushState(p, q) \/ Host!PushBoth(p, q)
      PROVE  FacadeInv' /\ Forward
  <2>1. PICK m : Host!Send(m) /\ MessageOK(m)
    <3>1. CASE Host!Ask(p, q)
      BY <3>1 DEF Host!Ask, Host!Summary, MessageOK
    <3>2. CASE Host!PushState(p, q)
      <4>1. state[p] \in States /\ NoPointer \in States
        BY <1>0 DEF FacadeTypeOK, States
      <4> QED BY <1>0, <3>2, <4>1, FacadeSends DEF Host!PushState
    <3>3. CASE Host!PushBoth(p, q)
      <4>1. state[p] \in States /\ Delta(state[p], VersionOf(NoPointer)) \in States
        BY <1>0, FacadeDelta DEF FacadeTypeOK
      <4> QED BY <1>0, <3>3, <4>1, FacadeSends DEF Host!PushBoth
    <3> QED BY <1>3, <3>1, <3>2, <3>3
  <2>2. net' = net \cup {m} /\ UNCHANGED <<state, clock, heard>>
    BY <2>1 DEF Host!Send
  <2> QED BY <1>0, <2>1, <2>2, FacadeIdle DEF FacadeInv, FacadeTypeOK
<1>4. ASSUME NEW m \in net, Host!Answer(m) PROVE FacadeInv' /\ Forward
  <2> DEFINE d == Delta(state[m.to], m.marks)
             r == Host!Delivery(m.to, m.from, "delta", NoPointer, d)
  <2>1. m.from \in Peers /\ m.to \in Peers
    BY <1>0, <1>4 DEF FacadeTypeOK, MessageOK
  <2>2. d \in States
    BY <1>0, <2>1, FacadeDelta DEF FacadeTypeOK
  <2>3. MessageOK(r)
    BY <1>0, <2>1, <2>2, FacadeSends DEF States
  <2>4. net' \subseteq net \cup {r} /\ UNCHANGED <<state, clock, heard>>
    BY <1>4 DEF Host!Answer
  <2> HIDE DEF r
  <2> QED BY <1>0, <2>3, <2>4, FacadeIdle DEF FacadeInv, FacadeTypeOK
<1>5. ASSUME NEW m \in net, Host!Receive(m) PROVE FacadeInv' /\ Forward
  <2>1. m \in Payload /\ m.to \in Peers
    BY <1>0, <1>5 DEF Host!Receive, FacadeTypeOK, MessageOK, Payload
  <2> QED BY <1>0, <1>5, <2>1, FacadeUpdate DEF Host!Receive, FacadeInv, FacadeTypeOK
<1>6. ASSUME NEW m \in net, Host!Lose(m) PROVE FacadeInv' /\ Forward
  <2>1. net' \subseteq net /\ UNCHANGED <<state, clock, heard>>
    BY <1>6 DEF Host!Lose
  <2> QED BY <1>0, <2>1, FacadeIdle DEF FacadeInv, FacadeTypeOK
<1>7. CASE UNCHANGED Host!vars
  BY <1>0, <1>7, FacadeIdle DEF Host!vars, FacadeInv, FacadeTypeOK
<1> QED BY <1>1, <1>2, <1>3, <1>4, <1>5, <1>6, <1>7 DEF Host!Next

\* The invariant holds: the types, and that the newest pointer is served.
LEMMA FacadeInvariant == Host!Spec => []FacadeInv
<1>1. Host!Init => FacadeInv
  BY FacadeBoundAssumption DEF Host!Init, FacadeInv, FacadeTypeOK,
         ServesNewest, IsNewest, States
<1> QED BY <1>1, FacadeStep, PTL DEF Host!Spec

\* The types of the facade's replicas and of the messages between them.
THEOREM FacadeTypeCorrect == Host!Spec => []FacadeTypeOK
BY FacadeInvariant, PTL DEF FacadeInv

\* Every peer serves the newest release it was told of, whatever the order.
THEOREM NewestIsServed == Host!Spec => []ServesNewest
BY FacadeInvariant, PTL DEF FacadeInv

\* No update rolls the stable URL back.
THEOREM PointerNeverRollsBack == Host!Spec => NeverRollsBack
<1>1. FacadeInv /\ [Host!Next]_(Host!vars) => [Forward]_(Host!vars)
  BY FacadeStep
<1> QED BY <1>1, FacadeInvariant, PTL DEF Host!Spec, NeverRollsBack, Forward

\* The facade of every peer implements the abstract replica: it starts empty, and each
\* step of the network is for it a step of learning, or none (update_state_impl).
THEOREM FacadeLearns == peer \in Peers => (Host!Spec => Abstract!Spec)
<1> SUFFICES ASSUME peer \in Peers PROVE Host!Spec => Abstract!Spec
  OBVIOUS
<1>1. Host!Init => Abstract!Init
  BY DEF Host!Init, Abstract!Init, IsNewest
<1>2. FacadeInv /\ FacadeInv' /\ [Host!Next]_(Host!vars)
        => [Abstract!Learn]_(Abstract!vars)
  <2> SUFFICES ASSUME FacadeInv, FacadeInv', [Host!Next]_(Host!vars)
               PROVE  Abstract!Learn \/ UNCHANGED <<state[peer], heard[peer]>>
    BY DEF Abstract!vars
  <2>1. ASSUME NEW p, NEW m, Host!Update(p, m)
        PROVE  heard[peer] \subseteq heard'[peer]
    BY <2>1 DEF Host!Update, FacadeInv, FacadeTypeOK
  <2>2. UNCHANGED <<state, heard>> \/ \E p, m : Host!Update(p, m)
    <3>1. CASE \E p \in Peers, d \in Pointers : Host!Submit(p, d)
      BY <3>1 DEF Host!Submit
    <3>2. CASE \E m \in net : Host!Receive(m)
      BY <3>2 DEF Host!Receive
    <3>3. CASE \E p \in Peers, q \in Peers :
                 Host!Ask(p, q) \/ Host!PushState(p, q) \/ Host!PushBoth(p, q)
      BY <3>3 DEF Host!Ask, Host!PushState, Host!PushBoth, Host!Send
    <3>4. CASE UNCHANGED Host!vars \/ (\E p \in Peers : Host!Tick(p))
               \/ \E m \in net : Host!Answer(m) \/ Host!Lose(m)
      BY <3>4 DEF Host!vars, Host!Tick, Host!Answer, Host!Lose
    <3> QED BY <3>1, <3>2, <3>3, <3>4 DEF Host!Next
  <2>3. heard'[peer] \in SUBSET Pointers /\ IsNewest(state'[peer], heard'[peer])
    BY DEF FacadeInv, FacadeTypeOK, ServesNewest
  <2> QED BY <2>1, <2>2, <2>3 DEF Abstract!Learn
<1> QED BY <1>1, <1>2, FacadeInvariant, PTL DEF Host!Spec, Abstract!Spec

-----------------------------------------------------------------------------
\* The join is unique: no two pointers are the newest of the same set.
LEMMA OneNewest ==
  ASSUME NEW H \in SUBSET Pointers, NEW f \in States, NEW g \in States,
         IsNewest(f, H), IsNewest(g, H)
  PROVE  f = g
<1>1. CASE H = {}
  BY <1>1 DEF IsNewest
<1>2. CASE H # {}
  <2>1. f \in H /\ g \in H /\ ~OrderLess(f, g) /\ ~OrderLess(g, f)
    BY <1>2 DEF IsNewest
  <2>2. /\ f.version \in Nat /\ f.sig \in Nat /\ g.version \in Nat /\ g.sig \in Nat
        /\ f.version = g.version /\ f.sig = g.sig => f = g
    BY <2>1, PointerAssumption
  <2> QED BY <2>1, <2>2 DEF OrderLess
<1> QED BY <1>1, <1>2

\* Peers that were told the same pointers serve the same release, signature included,
\* even where two were signed with one version.
ServesAlike == \A p, q \in Peers : heard[p] = heard[q] => state[p] = state[q]

THEOREM FacadesServeAlike == Host!Spec => []ServesAlike
<1>1. FacadeInv => ServesAlike
  BY OneNewest DEF FacadeInv, FacadeTypeOK, ServesNewest, ServesAlike
<1> QED BY <1>1, FacadeInvariant, PTL

\* Merges of facades form a semilattice, of which the empty facade is the bottom: it does
\* not matter which peer asks, in what order, or how often.  (facade-contract: "so
\* merges commute".)
FacadeMergesCommute ==
  \A p, q, r \in Peers :
    /\ Newer(state[p], state[q]) = Newer(state[q], state[p])
    /\ Newer(state[p], Newer(state[q], state[r])) = Newer(Newer(state[p], state[q]), state[r])
    /\ Newer(state[p], state[p]) = state[p]
    /\ Newer(NoPointer, state[p]) = state[p]

THEOREM FacadesMergeAlike == Host!Spec => []FacadeMergesCommute
<1>1. ASSUME NEW f \in States
      PROVE  /\ f.version \in Nat /\ f.sig \in Nat
             /\ f = NoPointer <=> f.version = 0
  BY PointerAssumption DEF States, NoPointer
<1>2. ASSUME NEW f \in States, NEW g \in States, f.version = g.version, f.sig = g.sig
      PROVE  f = g
  BY <1>1, <1>2, PointerAssumption DEF States
<1>3. ASSUME NEW f \in States, NEW g \in States
      PROVE  /\ Newer(f, g) \in States
             /\ Newer(f, g) = Newer(g, f) /\ Newer(f, f) = f /\ Newer(NoPointer, f) = f
  BY <1>1, <1>2 DEF Newer, OrderLess
<1>4. ASSUME NEW f \in States, NEW g \in States, NEW h \in States
      PROVE  Newer(f, Newer(g, h)) = Newer(Newer(f, g), h)
  BY <1>1, <1>2 DEF Newer, OrderLess
<1>5. FacadeInv => FacadeMergesCommute
  BY <1>3, <1>4 DEF FacadeInv, FacadeTypeOK, FacadeMergesCommute
<1> QED BY <1>5, FacadeInvariant, PTL

\* One answer settles: a peer that applied what another had for its version lacks
\* nothing that the other would tell it, and once each has answered the other both
\* serve one version.  (get_state_delta: "empty delta = converged".)
Answered(f, g) == Newer(f, Delta(g, VersionOf(f)))

FacadeAnswersSettle ==
  \A p, q \in Peers :
    /\ Delta(state[q], VersionOf(Answered(state[p], state[q]))) = NoPointer
    /\ VersionOf(Answered(state[p], state[q])) = VersionOf(Answered(state[q], state[p]))

THEOREM FacadesSettle == Host!Spec => []FacadeAnswersSettle
<1>1. ASSUME NEW f \in States
      PROVE  /\ f.version \in Nat /\ f.sig \in Nat
             /\ f = NoPointer <=> f.version = 0
  BY PointerAssumption DEF States, NoPointer
<1>2. FacadeInv => FacadeAnswersSettle
  BY <1>1 DEF FacadeInv, FacadeTypeOK, FacadeAnswersSettle, Answered, Newer, OrderLess,
              Delta, VersionOf, NoPointer
<1> QED BY <1>2, FacadeInvariant, PTL
=============================================================================
