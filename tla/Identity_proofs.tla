--------------------------- MODULE Identity_proofs ---------------------------
(***************************************************************************)
(* No interleaving of releases, connections, probes and timeouts destroys  *)
(* a key; none leaves one in two containers, nor gives a user a key that   *)
(* no probed container had, unless the store refused a write or two tabs   *)
(* connected at once; none locks a tab out of a container that no newer    *)
(* one adopted, while the store works and answers come in time: for any    *)
(* number of containers, tabs, keys and connections.                       *)
(***************************************************************************)
EXTENDS Identity, SequenceTheorems, TLAPS

USE IdentityAssumption DEF Apps, siteVars

\* Requests and answers are typed, and tell what they are.
LEMMA MessageTypes ==
  /\ \A old \in Apps : Adopt(old) \in Requests
  /\ GetIdentity \in Requests /\ Error \in Answers
  /\ \A k \in Keys \cup {Absent} : AdoptResult(k) \in Answers
  /\ \A k \in Keys : IdentityOf(k) \in Answers
  /\ \A r \in Requests : r.kind = "adopt" => r.old \in Apps
BY DEF Adopt, GetIdentity, Error, AdoptResult, IdentityOf, Requests, Answers

LEMMA AnswerTypes ==
  ASSUME NEW r \in Answers
  PROVE  /\ r.kind = "adopted" => r.key \in Keys \cup {Absent}
         /\ r.kind = "identity" => r.key \in Keys
BY DEF Answers, Error

\* A tab that is not open.
LEMMA ClosedType ==
  /\ Closed \in TabRecords /\ Closed.app = 0
  /\ Closed.pc = "closed" /\ Closed.asked = <<>> /\ Closed.answers = <<>>
<1>1. <<>> \in Seq(Apps) /\ <<>> \in Seq(Requests) /\ <<>> \in Seq(Answers)
  OBVIOUS
<1> QED BY <1>1 DEF Closed, TabRecords

\* The next request of a tab.
LEMMA AskNextType ==
  ASSUME NEW tb \in TabRecords
  PROVE  /\ AskNext(tb) \in TabRecords
         /\ AskNext(tb).app = tb.app /\ AskNext(tb).pc \in {"probing", "getting"}
<1> USE DEF TabRecords
<1>1. CASE tb.left = <<>>
  <2>1. AskNext(tb) = [tb EXCEPT !.pc = "getting", !.asked = Append(@, GetIdentity)]
    BY <1>1 DEF AskNext
  <2>2. Append(tb.asked, GetIdentity) \in Seq(Requests)
    BY MessageTypes
  <2> QED BY <2>1, <2>2
<1>2. CASE tb.left # <<>>
  <2>1. AskNext(tb) = [tb EXCEPT !.pc = "probing", !.left = Tail(@),
                                 !.asked = Append(@, Adopt(Head(tb.left)))]
    BY <1>2 DEF AskNext
  <2>2. Head(tb.left) \in Apps /\ Tail(tb.left) \in Seq(Apps)
    BY <1>2
  <2>3. Append(tb.asked, Adopt(Head(tb.left))) \in Seq(Requests)
    BY <2>2, MessageTypes
  <2> QED BY <2>1, <2>2, <2>3
<1> QED BY <1>1, <1>2

LEMMA FailedType ==
  ASSUME NEW tb \in TabRecords
  PROVE  /\ Failed(tb) \in TabRecords
         /\ Failed(tb).app = tb.app /\ Failed(tb).pc \in {"probing", "getting", "failed"}
BY AskNextType DEF Failed, TabRecords
-----------------------------------------------------------------------------
\* What TypeOK says of the tabs, and of the keys.
TabsOK ==
  /\ tab \in [Tabs -> TabRecords]
  /\ \A t \in Tabs :
       /\ \/ tab[t].app \in 1 .. Len(probes)
          \/ tab[t].pc = "closed" /\ tab[t].asked = <<>> /\ tab[t].answers = <<>>
       /\ tab[t].pc = "ready" => tab[t].vk \in Keys

SlotType == slot \in [Apps -> Keys \cup {Absent, Blank}] /\ refused \in BOOLEAN

\* What the delegate may do to the keys.
SlotEffect == SlotType' /\ Minted \subseteq Minted' /\ (AdoptedOnce => AdoptedOnce')

\* A tab that is not closed has a container that was built.
LEMMA TabApp ==
  ASSUME TypeOK, NEW t \in Tabs,
         tab[t].pc # "closed" \/ tab[t].asked # <<>> \/ tab[t].answers # <<>>
  PROVE  tab[t].app \in 1 .. Len(probes) /\ tab[t].app \in Apps
BY DEF TypeOK, SiteTypeOK

\* A tab that is replaced by a record of the right type.
LEMMA TabChanged ==
  ASSUME TypeOK, NEW t \in Tabs, NEW r \in TabRecords,
         tab' = [tab EXCEPT ![t] = r], UNCHANGED siteVars,
         r.app \in 1 .. Len(probes), r.pc = "ready" => r.vk \in Keys
  PROVE  TabsOK'
BY DEF TypeOK, TabsOK

\* The delegate's answer to the request of a tab.
LEMMA AnswerType ==
  ASSUME TypeOK, NEW t \in Tabs, NEW r \in Answers, tab[t].asked # <<>>, Answer(t, r),
         UNCHANGED siteVars
  PROVE  TabsOK'
<1> DEFINE tb == [tab[t] EXCEPT !.asked = Tail(@), !.answers = Append(@, r)]
<1>1. tab[t] \in TabRecords /\ tab[t].app \in 1 .. Len(probes)
  BY DEF TypeOK
<1>2. Tail(tab[t].asked) \in Seq(Requests) /\ Append(tab[t].answers, r) \in Seq(Answers)
  BY <1>1 DEF TabRecords
<1>3. tb \in TabRecords
  BY <1>1, <1>2 DEF TabRecords
<1>4. tb.app = tab[t].app /\ tb.pc = tab[t].pc /\ tb.vk = tab[t].vk
  BY <1>1 DEF TabRecords
<1>5. tab' = [tab EXCEPT ![t] = tb]
  BY DEF Answer
<1>6. tb.pc = "ready" => tb.vk \in Keys
  BY <1>4 DEF TypeOK
<1> HIDE DEF tb
<1> QED BY <1>1, <1>3, <1>4, <1>5, <1>6, TabChanged

\* An adoption that finds a key moves it, copies it, or leaves it.
LEMMA MoveEffect ==
  ASSUME SlotType, NEW t \in Tabs, NEW app \in Apps, NEW old \in Apps,
         slot[app] \notin Keys, slot[old] \in Keys, Move(t, app, old)
  PROVE  SlotEffect /\ \E r \in Answers : Answer(t, r)
<1> USE DEF SlotType, SlotEffect
<1>1. CASE /\ Stores /\ slot' = [slot EXCEPT ![app] = slot[old], ![old] = Blank]
           /\ Answer(t, AdoptResult(slot[old]))
  <2>1. app # old /\ Blank \notin Keys
    OBVIOUS
  <2>2. /\ slot'[app] = slot[old] /\ slot'[old] = Blank
        /\ \A a \in Apps \ {app, old} : slot'[a] = slot[a]
    BY <1>1, <2>1
  <2>3. slot' \in [Apps -> Keys \cup {Absent, Blank}]
    BY <1>1
  <2>4. Minted \subseteq Minted'
    BY <2>1, <2>2 DEF Minted
  <2>5. AdoptedOnce => AdoptedOnce'
    BY <1>1, <2>1, <2>2 DEF AdoptedOnce, Stores
  <2> QED BY <1>1, <2>3, <2>4, <2>5, MessageTypes DEF Stores
<1>2. CASE /\ Refuses /\ slot' = [slot EXCEPT ![app] = slot[old]]
           /\ Answer(t, AdoptResult(slot[old]))
  BY <1>2, MessageTypes DEF Refuses, Minted, AdoptedOnce
<1>3. CASE Refuses /\ Answer(t, Error) /\ UNCHANGED slot
  BY <1>3, MessageTypes DEF Refuses, Minted, AdoptedOnce
<1> QED BY <1>1, <1>2, <1>3 DEF Move

\* A key is minted that no slot has, or nothing is stored.
LEMMA MintEffect ==
  ASSUME SlotType, NEW t \in Tabs, NEW app \in Apps, slot[app] = Absent, Mint(t, app)
  PROVE  SlotEffect /\ \E r \in Answers : Answer(t, r)
<1> USE DEF SlotType, SlotEffect
<1>1. ASSUME NEW k \in Keys \ Minted, Stores, slot' = [slot EXCEPT ![app] = k],
             Answer(t, IdentityOf(k))
      PROVE  SlotEffect /\ \E r \in Answers : Answer(t, r)
  <2>1. slot[app] \notin Keys
    OBVIOUS
  <2>2. Minted \subseteq Minted'
    BY <1>1, <2>1 DEF Minted
  <2>3. AdoptedOnce => AdoptedOnce'
    BY <1>1 DEF AdoptedOnce, Minted, Stores
  <2> QED BY <1>1, <2>2, <2>3, MessageTypes DEF Stores
<1>2. CASE Refuses /\ Answer(t, Error) /\ UNCHANGED slot
  BY <1>2, MessageTypes DEF Refuses, Minted, AdoptedOnce
<1> QED BY <1>1, <1>2 DEF Mint

\* Whatever is asked of the delegate.
LEMMA ProcessEffect ==
  ASSUME TypeOK, NEW t \in Tabs, Process(t)
  PROVE  SlotEffect /\ TabsOK' /\ UNCHANGED <<siteVars, connects, late>>
<1> DEFINE request == Head(tab[t].asked)
           app == tab[t].app
<1>1. tab[t].asked # <<>> /\ UNCHANGED <<siteVars, connects, late>>
  BY DEF Process
<1>2. tab[t] \in TabRecords /\ app \in Apps
  BY <1>1, TabApp DEF TypeOK
<1>3. request \in Requests
  BY <1>1, <1>2 DEF TabRecords
<1>4. SlotType
  BY DEF TypeOK, SlotType
<1>5. ASSUME NEW r \in Answers, Answer(t, r), UNCHANGED <<slot, refused>>
      PROVE  SlotEffect
  BY <1>4, <1>5 DEF SlotEffect, SlotType, Minted, AdoptedOnce
<1>6. ASSUME request.kind = "adopt", HandleAdopt(t, app, request.old)
      PROVE  SlotEffect /\ \E r \in Answers : Answer(t, r)
  <2>1. request.old \in Apps
    BY <1>3, <1>6, MessageTypes
  <2>2. Absent \in Keys \cup {Absent}
    OBVIOUS
  <2> HIDE DEF request, app
  <2> QED BY <1>2, <1>4, <1>5, <1>6, <2>1, <2>2, MoveEffect, MessageTypes DEF HandleAdopt
<1>7. ASSUME request.kind = "identity", HandleGet(t, app)
      PROVE  SlotEffect /\ \E r \in Answers : Answer(t, r)
  <2> HIDE DEF request, app
  <2> QED BY <1>2, <1>4, <1>5, <1>7, MintEffect, MessageTypes DEF HandleGet
<1>8. SlotEffect /\ \E r \in Answers : Answer(t, r)
  BY <1>6, <1>7 DEF Process
<1> QED BY <1>1, <1>8, AnswerType
-----------------------------------------------------------------------------
\* Elements of a sequence in reverse.
LEMMA ReverseType ==
  ASSUME NEW S, NEW s \in Seq(S), NEW T, S \subseteq T
  PROVE  Reverse(s) \in Seq(T)
<1>1. \A i \in 1 .. Len(s) : s[(Len(s) - i) + 1] \in T
  OBVIOUS
<1> QED BY <1>1 DEF Reverse

\* A release builds the next container, which probes what was on file before.
LEMMA ReleaseType ==
  ASSUME SiteTypeOK, Release
  PROVE  SiteTypeOK' /\ Len(probes') = Len(probes) + 1
<1> DEFINE n == Len(probes)
<1>1. n \in Nat /\ n + 1 <= NumApps /\ probes' = Append(probes, Reverse(displaced))
  BY DEF Release, SiteTypeOK
<1>2. Reverse(displaced) \in Seq(1 .. n) /\ Reverse(displaced) \in Seq(Apps)
  <2>1. displaced \in Seq(1 .. n) /\ 1 .. n \subseteq Apps
    BY <1>1 DEF SiteTypeOK
  <2> QED BY <2>1, ReverseType
<1>3. /\ probes' \in Seq(Seq(Apps)) /\ Len(probes') = n + 1
      /\ probes'[n + 1] = Reverse(displaced)
      /\ \A i \in 1 .. n : probes'[i] = probes[i]
  BY <1>1, <1>2 DEF SiteTypeOK
<1>4. \A i \in 1 .. n + 1 : probes'[i] \in Seq(1 .. i - 1)
  <2> SUFFICES ASSUME NEW i \in 1 .. n + 1
               PROVE  probes'[i] \in Seq(1 .. i - 1)
    OBVIOUS
  <2>1. CASE i = n + 1
    <3>1. (n + 1) - 1 = n
      BY <1>1
    <3> QED BY <1>2, <1>3, <2>1, <3>1
  <2>2. CASE i # n + 1
    <3>1. i \in 1 .. n
      BY <1>1, <2>2
    <3> QED BY <1>3, <3>1 DEF SiteTypeOK
  <2> QED BY <2>1, <2>2
<1>5. displaced' \in Seq(1 .. n + 1)
  <2>1. displaced \in Seq(1 .. n + 1)
    BY <1>1 DEF SiteTypeOK
  <2>2. manifest \in 0 .. n
    BY DEF SiteTypeOK
  <2>3. CASE displaced' = displaced
    BY <2>1, <2>3
  <2>4. CASE manifest # 0 /\ displaced' = Append(displaced, manifest)
    <3>1. manifest \in 1 .. n + 1
      BY <1>1, <2>2, <2>4
    <3> QED BY <2>1, <2>4, <3>1
  <2> QED BY <2>3, <2>4 DEF Release, Recorded
<1>6. pointer' \in 0 .. n + 1 /\ manifest' \in 0 .. n + 1
  <2>1. pointer \in 0 .. n /\ manifest \in 0 .. n
    BY DEF SiteTypeOK
  <2> QED BY <1>1, <2>1 DEF Release
<1> QED BY <1>1, <1>3, <1>4, <1>5, <1>6 DEF SiteTypeOK

\* The tab that Connect makes, before its first request.
NewTab(t, app) ==
  [Closed EXCEPT !.app = app, !.left = probes[app], !.known = Known(app),
                 !.had = {slot[a] : a \in Known(app)} \cap Keys,
                 !.alone = Undisturbed(t)]

LEMMA NewTabType ==
  ASSUME TypeOK, NEW t \in Tabs, NEW app \in Apps, Connect(t, app)
  PROVE  /\ app \in 1 .. Len(probes) /\ NewTab(t, app) \in TabRecords
         /\ probes[app] \in Seq(Apps)
         /\ NewTab(t, app).app = app /\ NewTab(t, app).left = probes[app]
         /\ NewTab(t, app).asked = <<>> /\ NewTab(t, app).answers = <<>>
         /\ NewTab(t, app).pc = "closed" /\ NewTab(t, app).alone = Undisturbed(t)
         /\ NewTab(t, app).known = {app} \cup {probes[app][i] : i \in 1 .. Len(probes[app])}
         /\ NewTab(t, app).had = {slot[a] : a \in NewTab(t, app).known} \cap Keys
<1>1. app \in 1 .. Len(probes)
  <2>1. CASE app = pointer
    <3>1. pointer \in 0 .. Len(probes) /\ Len(probes) \in Nat
      BY DEF TypeOK, SiteTypeOK
    <3> QED BY <2>1, <3>1
  <2>2. CASE app = tab[t].app /\ tab[t].pc # "closed"
    BY <2>2, TabApp
  <2> QED BY <2>1, <2>2 DEF Connect
<1>2. probes[app] \in Seq(Apps)
  BY <1>1 DEF TypeOK, SiteTypeOK
<1>3. Known(app) = {app} \cup {probes[app][i] : i \in 1 .. Len(probes[app])}
  BY <1>2 DEF Known, ToSet
<1>4. Known(app) \in SUBSET Apps /\ Undisturbed(t) \in BOOLEAN
  BY <1>2, <1>3 DEF Undisturbed
<1>5. {slot[a] : a \in Known(app)} \cap Keys \in SUBSET Keys
  OBVIOUS
<1>6. NewTab(t, app) \in TabRecords
  BY <1>2, <1>4, <1>5, ClosedType DEF NewTab, TabRecords
<1> QED BY <1>1, <1>2, <1>3, <1>6 DEF NewTab, Closed

\* For any number of containers, tabs, keys and connections, whatever times out and
\* whatever the store refuses, a tab that is ready has a key.
THEOREM TypeCorrect == Spec => []TypeOK
<1>1. Init => TypeOK
  <2> SUFFICES ASSUME Init PROVE TypeOK
    OBVIOUS
  <2>1. SiteTypeOK /\ connects \in Nat /\ refused \in BOOLEAN /\ late \in BOOLEAN
    <3>1. probes = <<>> /\ displaced = <<>> /\ Len(probes) = 0 /\ 0 <= NumApps
      BY DEF Init
    <3>2. <<>> \in Seq(Seq(Apps)) /\ <<>> \in Seq(1 .. 0)
      <4> HIDE DEF Apps
      <4> QED OBVIOUS
    <3>3. pointer \in 0 .. 0 /\ manifest \in 0 .. 0 /\ connects \in Nat
      BY DEF Init
    <3>4. refused \in BOOLEAN /\ late \in BOOLEAN
      BY Zenon DEF Init
    <3> QED BY <3>1, <3>2, <3>3, <3>4 DEF SiteTypeOK
  <2>2. slot \in [Apps -> Keys \cup {Absent, Blank}]
    BY DEF Init
  <2>3. tab \in [Tabs -> TabRecords] /\ \A t \in Tabs : tab[t] = Closed
    BY ClosedType DEF Init
  <2> QED BY <2>1, <2>2, <2>3, ClosedType DEF TypeOK
<1>2. TypeOK /\ [Next]_vars => TypeOK'
  <2> SUFFICES ASSUME TypeOK, [Next]_vars PROVE TypeOK'
    OBVIOUS
  <2>1. CASE Release
    <3>1. SiteTypeOK' /\ Len(probes) <= Len(probes') /\ Len(probes) \in Nat
          /\ Len(probes') \in Nat
      BY <2>1, ReleaseType DEF TypeOK
    <3>2. UNCHANGED <<slot, tab, connects, refused, late>>
      BY <2>1 DEF Release
    <3> QED BY <3>1, <3>2 DEF TypeOK
  <2>2. ASSUME NEW t \in Tabs, NEW app \in Apps, Connect(t, app)
        PROVE  TypeOK'
    <3> DEFINE new == NewTab(t, app)
    <3>1. new \in TabRecords /\ new.app = app /\ app \in 1 .. Len(probes)
      BY <2>2, NewTabType
    <3>2. ASSUME NEW u \in Tabs \ {t}
          PROVE  /\ tab'[u] \in TabRecords
                 /\ tab'[u].app = tab[u].app /\ tab'[u].pc = tab[u].pc
                 /\ tab'[u].vk = tab[u].vk /\ tab'[u].asked = tab[u].asked
                 /\ tab'[u].answers = tab[u].answers
      <4>1. tab'[u] = [tab[u] EXCEPT !.alone = @ /\ ~Waiting(tab[u])]
        BY <2>2 DEF Connect
      <4>2. (tab[u].alone /\ ~Waiting(tab[u])) \in BOOLEAN
        BY DEF Waiting
      <4>3. tab[u] \in TabRecords
        BY DEF TypeOK
      <4> QED BY <4>1, <4>2, <4>3 DEF TabRecords
    <3>3. /\ tab'[t] = AskNext(new)
          /\ tab' \in [Tabs -> {tab'[u] : u \in Tabs}]
          /\ UNCHANGED <<siteVars, slot, refused, late>> /\ connects' = connects + 1
      BY <2>2 DEF Connect, NewTab
    <3> HIDE DEF new
    <3>4. /\ tab'[t] \in TabRecords /\ tab'[t].app \in 1 .. Len(probes)
          /\ tab'[t].pc # "ready"
      BY <3>1, <3>3, AskNextType
    <3>5. SiteTypeOK' /\ connects' \in Nat /\ refused' \in BOOLEAN /\ late' \in BOOLEAN
      BY <3>3 DEF TypeOK, SiteTypeOK
    <3>6. slot' \in [Apps -> Keys \cup {Absent, Blank}] /\ probes' = probes
      BY <3>3 DEF TypeOK
    <3>7. tab' \in [Tabs -> TabRecords]
      BY <3>2, <3>3, <3>4
    <3>8. ASSUME NEW v \in Tabs
          PROVE  /\ \/ tab'[v].app \in 1 .. Len(probes)
                    \/ /\ tab'[v].pc = "closed" /\ tab'[v].asked = <<>>
                       /\ tab'[v].answers = <<>>
                 /\ tab'[v].pc = "ready" => tab'[v].vk \in Keys
      BY <3>2, <3>4 DEF TypeOK
    <3> QED BY <3>5, <3>6, <3>7, <3>8 DEF TypeOK
  <2>3. ASSUME NEW t \in Tabs, Process(t)
        PROVE  TypeOK'
    BY <2>3, ProcessEffect DEF SlotEffect, SlotType, TabsOK, TypeOK, SiteTypeOK
  <2>4. ASSUME NEW t \in Tabs, Deliver(t)
        PROVE  TypeOK'
    <3> DEFINE r == Head(tab[t].answers)
               tb == Received(tab[t])
               next == IF ~Waiting(tb) THEN tb
                       ELSE IF Resolves(tb, r) THEN [tb EXCEPT !.pc = "ready", !.vk = r.key]
                       ELSE Failed(tb)
    <3>1. /\ tab[t].answers # <<>> /\ tab[t] \in TabRecords
          /\ tab[t].app \in 1 .. Len(probes)
      BY <2>4, TabApp DEF Deliver, TypeOK
    <3>2. r \in Answers /\ Tail(tab[t].answers) \in Seq(Answers)
      BY <3>1 DEF TabRecords
    <3>3. /\ tb \in TabRecords /\ tb.app = tab[t].app /\ tb.pc = tab[t].pc
          /\ tb.vk = tab[t].vk
      BY <3>1, <3>2 DEF Received, TabRecords
    <3>4. tab' = [tab EXCEPT ![t] = next] /\ UNCHANGED <<siteVars, slot, connects, refused, late>>
      BY <2>4 DEF Deliver
    <3> HIDE DEF r, tb
    <3>5. /\ next \in TabRecords /\ next.app \in 1 .. Len(probes)
          /\ next.pc = "ready" => next.vk \in Keys
      <4>1. CASE ~Waiting(tb)
        BY <3>1, <3>3, <4>1 DEF TypeOK
      <4>2. CASE Waiting(tb) /\ Resolves(tb, r)
        <5>1. r.key \in Keys
          BY <3>2, <4>2, AnswerTypes DEF Resolves
        <5> QED BY <3>1, <3>3, <4>2, <5>1 DEF TabRecords
      <4>3. CASE Waiting(tb) /\ ~Resolves(tb, r)
        <5>1. next = Failed(tb)
          BY <4>3
        <5> QED BY <3>1, <3>3, <5>1, FailedType
      <4> QED BY <4>1, <4>2, <4>3
    <3> HIDE DEF next
    <3>6. TabsOK'
      BY <3>4, <3>5, TabChanged
    <3> QED BY <3>4, <3>6 DEF TypeOK, TabsOK, SiteTypeOK
  <2>5. ASSUME NEW t \in Tabs, Timeout(t)
        PROVE  TypeOK'
    <3>1. tab[t] \in TabRecords /\ tab[t].app \in 1 .. Len(probes)
      BY <2>5, TabApp DEF Timeout, Waiting, TypeOK
    <3>2. tab' = [tab EXCEPT ![t] = Failed(tab[t])] /\ UNCHANGED siteVars
      BY <2>5 DEF Timeout
    <3>3. TabsOK'
      BY <3>1, <3>2, FailedType, TabChanged
    <3> QED BY <2>5, <3>3 DEF TypeOK, TabsOK, SiteTypeOK, Timeout
  <2>6. CASE UNCHANGED vars
    BY <2>6 DEF vars, TypeOK, SiteTypeOK
  <2> QED BY <2>1, <2>2, <2>3, <2>4, <2>5, <2>6 DEF Next
<1> QED BY <1>1, <1>2, PTL DEF Spec

\* Only the delegate writes keys.
LEMMA KeysStep ==
  ASSUME TypeOK, [Next]_vars
  PROVE  Minted \subseteq Minted' /\ (AdoptedOnce => AdoptedOnce')
<1>1. CASE UNCHANGED <<slot, refused>>
  BY <1>1 DEF Minted, AdoptedOnce
<1>2. CASE \E t \in Tabs : Process(t)
  BY <1>2, ProcessEffect DEF SlotEffect
<1> QED BY <1>1, <1>2 DEF Next, Release, Connect, Deliver, Timeout, vars

\* Unless the store refused a write, no key is ever in two containers, whichever
\* tabs of whichever releases adopt and mint at once (adopt_legacy_origin: "so it
\* cannot be adopted twice").
THEOREM KeysAreAdoptedOnce == Spec => []AdoptedOnce
<1>1. Init => AdoptedOnce
  BY DEF Init, AdoptedOnce
<1>2. TypeOK /\ AdoptedOnce /\ [Next]_vars => AdoptedOnce'
  BY KeysStep
<1> QED BY <1>1, <1>2, TypeCorrect, PTL DEF Spec

\* No step destroys a key, although either of an adoption's two writes may fail.
THEOREM NoKeyIsLost == Spec => KeysSurvive
<1>1. TypeOK /\ [Next]_vars => [Minted \subseteq Minted']_vars
  BY KeysStep
<1> QED BY <1>1, TypeCorrect, PTL DEF Spec, KeysSurvive

-----------------------------------------------------------------------------
\* What IdentitySurvives rests on, of a tab that had a key when it connected and
\* resolves it with no other about (Calm): what the answers may still say, and
\* where the key is still looked for.
Somewhere(x, s) == \E i \in 1 .. Len(s) : s[i] = x

Calm(tb) == tb.alone /\ tb.had # {} /\ Waiting(tb)

\* No container the tab may be told of has a key that it had not.
HadAll(tb, s) == \A a \in tb.known : s[a] \in Keys => s[a] \in tb.had

ToldOwn(tb) ==
  \A i \in 1 .. Len(tb.answers) :
    tb.answers[i].kind # "error" => tb.answers[i].key \in tb.had \cup {Absent}

\* The own key is asked for when all known containers have been probed.
Probes(tb) ==
  /\ tb.app \in tb.known
  /\ tb.pc = "getting" => tb.left = <<>>
  /\ \A i \in 1 .. Len(tb.left) : tb.left[i] \in tb.known
  /\ \A i \in 1 .. Len(tb.asked) :
       /\ tb.asked[i].kind = "identity" => tb.pc = "getting" /\ i = Len(tb.asked)
       /\ tb.asked[i].kind = "adopt" => tb.asked[i].old \in tb.known

\* A key is under the own container, or under one that is still to be probed.
Findable(tb, s) ==
  \/ s[tb.app] \in Keys
  \/ \E a \in tb.known :
       s[a] \in Keys /\ (Somewhere(a, tb.left) \/ Somewhere(Adopt(a), tb.asked))

Finds(tb, s) == HadAll(tb, s) /\ ToldOwn(tb) /\ Probes(tb) /\ Findable(tb, s)

Survives(tb) ==
  tb.pc = "ready" /\ tb.alone /\ tb.had # {} => tb.vk \in tb.had

\* The inductive invariant.
TabSettled(t) ==
  /\ Calm(tab[t]) => Undisturbed(t) /\ Finds(tab[t], slot)
  /\ Survives(tab[t])

IdentityInv == refused \/ \A t \in Tabs : TabSettled(t)

\* The next request goes to a container that is known, or to the own when no other
\* is left, and what can be found still can.
LEMMA AskNextFinds ==
  ASSUME NEW tb \in TabRecords, tb.app \in Apps, NEW s,
         Probes(tb), tb.pc # "getting", Findable(tb, s), HadAll(tb, s), ToldOwn(tb)
  PROVE  Finds(AskNext(tb), s) /\ Waiting(AskNext(tb))
<1> USE DEF TabRecords
<1> DEFINE nx == AskNext(tb)
<1>0. /\ nx.app = tb.app /\ nx.known = tb.known /\ nx.had = tb.had
      /\ nx.answers = tb.answers
  BY DEF AskNext
<1>1. HadAll(nx, s) /\ ToldOwn(nx)
  <2> HIDE DEF nx
  <2> QED BY <1>0 DEF HadAll, ToldOwn
<1>2. CASE tb.left = <<>>
  <2>1. nx = [tb EXCEPT !.pc = "getting", !.asked = Append(@, GetIdentity)]
    BY <1>2 DEF AskNext
  <2>2. /\ nx.pc = "getting" /\ nx.left = <<>> /\ nx.asked = Append(tb.asked, GetIdentity)
        /\ Len(nx.asked) = Len(tb.asked) + 1 /\ nx.asked[Len(tb.asked) + 1] = GetIdentity
        /\ \A i \in 1 .. Len(tb.asked) : nx.asked[i] = tb.asked[i]
    BY <1>2, <2>1, MessageTypes
  <2>3. Len(tb.asked) \in Nat /\ Len(tb.left) = 0
    BY <1>2
  <2> HIDE DEF nx
  <2>4. Probes(nx)
    <3>1. ASSUME NEW i \in 1 .. Len(nx.asked)
          PROVE  /\ nx.asked[i].kind = "identity" => i = Len(nx.asked)
                 /\ nx.asked[i].kind = "adopt" => nx.asked[i].old \in tb.known
      <4>1. CASE i = Len(tb.asked) + 1
        BY <2>2, <4>1 DEF GetIdentity
      <4>2. CASE i \in 1 .. Len(tb.asked)
        <5>1. tb.asked[i].kind # "identity"
          BY <4>2 DEF Probes
        <5>2. tb.asked[i].kind = "adopt" => tb.asked[i].old \in tb.known
          BY <4>2 DEF Probes
        <5> QED BY <2>2, <4>2, <5>1, <5>2
      <4> QED BY <2>2, <2>3, <4>1, <4>2
    <3> QED BY <1>0, <2>2, <3>1 DEF Probes
  <2>5. Findable(nx, s)
    <3>1. \A x : Somewhere(x, tb.asked) => Somewhere(x, nx.asked)
      BY <2>2, <2>3 DEF Somewhere
    <3>2. \A x : ~Somewhere(x, tb.left)
      BY <2>3 DEF Somewhere
    <3> QED BY <1>0, <3>1, <3>2 DEF Findable
  <2> QED BY <1>1, <2>2, <2>4, <2>5 DEF nx, Finds, Waiting
<1>3. CASE tb.left # <<>>
  <2>1. nx = [tb EXCEPT !.pc = "probing", !.left = Tail(@),
                        !.asked = Append(@, Adopt(Head(tb.left)))]
    BY <1>3 DEF AskNext
  <2>2. /\ Len(tb.asked) \in Nat /\ Len(tb.left) \in Nat \ {0}
        /\ Head(tb.left) = tb.left[1] /\ Head(tb.left) \in Apps
        /\ Len(Tail(tb.left)) = Len(tb.left) - 1
        /\ \A i \in 1 .. Len(tb.left) - 1 : Tail(tb.left)[i] = tb.left[i + 1]
    BY <1>3
  <2>3. /\ nx.pc = "probing" /\ nx.left = Tail(tb.left)
        /\ nx.asked = Append(tb.asked, Adopt(tb.left[1]))
    BY <2>1, <2>2
  <2>4. /\ Len(nx.asked) = Len(tb.asked) + 1
        /\ nx.asked[Len(tb.asked) + 1] = Adopt(tb.left[1])
        /\ \A i \in 1 .. Len(tb.asked) : nx.asked[i] = tb.asked[i]
    BY <2>2, <2>3, MessageTypes
  <2> HIDE DEF nx
  <2>5. Probes(nx)
    <3>1. ASSUME NEW i \in 1 .. Len(nx.asked)
          PROVE  /\ nx.asked[i].kind # "identity"
                 /\ nx.asked[i].kind = "adopt" => nx.asked[i].old \in tb.known
      <4>1. CASE i = Len(tb.asked) + 1
        <5>1. tb.left[1] \in tb.known
          BY <2>2 DEF Probes
        <5> QED BY <2>4, <4>1, <5>1 DEF Adopt
      <4>2. CASE i \in 1 .. Len(tb.asked)
        <5>1. tb.asked[i].kind # "identity"
          BY <4>2 DEF Probes
        <5>2. tb.asked[i].kind = "adopt" => tb.asked[i].old \in tb.known
          BY <4>2 DEF Probes
        <5> QED BY <2>4, <4>2, <5>1, <5>2
      <4> QED BY <2>2, <2>4, <4>1, <4>2
    <3>2. \A i \in 1 .. Len(nx.left) : nx.left[i] \in tb.known
      BY <2>2, <2>3 DEF Probes
    <3> QED BY <1>0, <2>3, <3>1, <3>2 DEF Probes
  <2>6. Findable(nx, s)
    <3>1. \A x : Somewhere(x, tb.asked) => Somewhere(x, nx.asked)
      BY <2>2, <2>4 DEF Somewhere
    <3>2. ASSUME NEW x, Somewhere(x, tb.left)
          PROVE  Somewhere(x, nx.left) \/ Somewhere(Adopt(x), nx.asked)
      <4>1. PICK i \in 1 .. Len(tb.left) : tb.left[i] = x
        BY <3>2 DEF Somewhere
      <4>2. CASE i = 1
        BY <2>2, <2>4, <4>1, <4>2 DEF Somewhere
      <4>3. CASE i # 1
        <5>1. i - 1 \in 1 .. Len(nx.left) /\ nx.left[i - 1] = x
          BY <2>2, <2>3, <4>1, <4>3
        <5> QED BY <5>1 DEF Somewhere
      <4> QED BY <4>2, <4>3
    <3> QED BY <1>0, <3>1, <3>2 DEF Findable
  <2> QED BY <1>1, <2>3, <2>5, <2>6 DEF nx, Finds, Waiting
<1> QED BY <1>2, <1>3

\* A step that writes no slot and no tab.
LEMMA Unchanged ==
  ASSUME NEW t \in Tabs, TabSettled(t), UNCHANGED <<tab, slot>>
  PROVE  TabSettled(t)'
BY DEF TabSettled, Undisturbed

\* A new connection finds a key that is there, and ends the calm of the others.
LEMMA ConnectSettles ==
  ASSUME TypeOK, NEW u \in Tabs, NEW app \in Apps, Connect(u, app), NEW t \in Tabs,
         TabSettled(t)
  PROVE  TabSettled(t)'
<1>1. slot' = slot
  BY DEF Connect
<1>2. ASSUME NEW v \in Tabs \ {u}
      PROVE  /\ tab'[v].alone = (tab[v].alone /\ ~Waiting(tab[v]))
             /\ tab'[v].pc = tab[v].pc /\ tab'[v].had = tab[v].had
             /\ tab'[v].vk = tab[v].vk /\ tab'[v].asked = tab[v].asked
  <2>1. tab'[v] = [tab[v] EXCEPT !.alone = @ /\ ~Waiting(tab[v])]
    BY DEF Connect
  <2>2. tab[v] \in TabRecords
    BY DEF TypeOK
  <2> QED BY <2>1, <2>2 DEF TabRecords
<1>3. CASE t # u
  <2>1. ~Calm(tab'[t])
    BY <1>2, <1>3 DEF Calm, Waiting
  <2>2. Survives(tab'[t])
    BY <1>2, <1>3 DEF TabSettled, Survives
  <2> QED BY <2>1, <2>2 DEF TabSettled
<1>4. CASE t = u
  <2> DEFINE new == NewTab(t, app)
  <2>1. tab'[t] = AskNext(new)
    BY <1>4 DEF Connect, NewTab
  <2>2. /\ new.app = app /\ new.left = probes[app] /\ new.asked = <<>>
        /\ new.answers = <<>> /\ new.pc = "closed" /\ new.alone = Undisturbed(t)
        /\ new.known = {app} \cup {probes[app][i] : i \in 1 .. Len(probes[app])}
        /\ new.had = {slot[a] : a \in new.known} \cap Keys
    BY <1>4, NewTabType
  <2>3. new \in TabRecords
    BY <1>4, NewTabType
  <2> HIDE DEF new
  <2>4. /\ tab'[t].alone = new.alone /\ tab'[t].had = new.had
        /\ tab'[t].pc \in {"probing", "getting"}
    BY <2>1, <2>3 DEF AskNext, TabRecords
  <2>5. Survives(tab'[t])
    BY <2>4 DEF Survives
  <2>6. ASSUME Calm(tab'[t])
        PROVE  Undisturbed(t)' /\ Finds(tab'[t], slot)
    <3>1. Undisturbed(t) /\ new.had # {}
      BY <2>2, <2>4, <2>6 DEF Calm
    <3>2. Undisturbed(t)'
      BY <1>2, <1>4, <3>1 DEF Undisturbed, Waiting
    <3>3. HadAll(new, slot) /\ ToldOwn(new) /\ Len(new.asked) = 0
      BY <2>2 DEF HadAll, ToldOwn
    <3>4. Probes(new)
      BY <2>2, <3>3 DEF Probes
    <3>5. PICK a \in new.known : slot[a] \in Keys
      BY <2>2, <3>1
    <3>6. Findable(new, slot)
      BY <2>2, <3>5 DEF Findable, Somewhere
    <3> QED BY <2>1, <2>2, <2>3, <3>2, <3>3, <3>4, <3>6, AskNextFinds
  <2> QED BY <1>1, <2>5, <2>6 DEF TabSettled
<1> QED BY <1>3, <1>4

\* Another tab that acts is not connecting: it has nothing to ask, and an answer that
\* it gets is dropped.
LEMMA OthersSettle ==
  ASSUME TypeOK, NEW t \in Tabs, NEW u \in Tabs \ {t}, TabSettled(t),
         Process(u) \/ Deliver(u) \/ Timeout(u)
  PROVE  TabSettled(t)'
<1>1. tab'[t] = tab[t]
  <2>1. CASE Process(u)
    <3>1. \E r : Answer(u, r)
      BY <2>1 DEF Process, HandleAdopt, HandleGet, Move, Mint
    <3> QED BY <3>1 DEF Answer, TypeOK
  <2>2. CASE Deliver(u) \/ Timeout(u)
    BY <2>2 DEF Deliver, Timeout, TypeOK
  <2> QED BY <2>1, <2>2
<1>2. ASSUME Calm(tab[t])
      PROVE  Undisturbed(t)' /\ slot' = slot
  <2>1. Undisturbed(t) /\ ~Waiting(tab[u]) /\ tab[u].asked = <<>>
    BY <1>2 DEF TabSettled, Undisturbed
  <2>2. Deliver(u)
    BY <2>1 DEF Process, Timeout
  <2>3. ~Waiting(Received(tab[u])) /\ Received(tab[u]).asked = <<>>
    BY <2>1 DEF Waiting, Received, TypeOK, TabRecords
  <2>4. tab' = [tab EXCEPT ![u] = Received(tab[u])] /\ slot' = slot
    BY <2>2, <2>3 DEF Deliver
  <2> QED BY <2>1, <2>3, <2>4 DEF Undisturbed, TypeOK
<1> QED BY <1>1, <1>2 DEF TabSettled

\* A failed probe is followed by the next request; nothing follows the last one.
LEMMA FailedSettles ==
  ASSUME NEW tb \in TabRecords, tb.app \in Apps, NEW s, Waiting(tb),
         Calm(tb) => Finds(tb, s)
  PROVE  /\ Calm(Failed(tb)) => Calm(tb) /\ Finds(Failed(tb), s)
         /\ Survives(Failed(tb))
         /\ Failed(tb).pc # "ready"
<1>1. CASE tb.pc = "probing"
  <2>1. Failed(tb) = AskNext(tb)
    BY <1>1 DEF Failed
  <2>2. /\ AskNext(tb).alone = tb.alone /\ AskNext(tb).had = tb.had
        /\ AskNext(tb).pc \in {"probing", "getting"}
    BY DEF AskNext, TabRecords
  <2>3. Calm(AskNext(tb)) => Calm(tb)
    BY <2>2 DEF Calm
  <2>4. Calm(tb) => Finds(AskNext(tb), s)
    BY <1>1, AskNextFinds DEF Finds
  <2> QED BY <2>1, <2>2, <2>3, <2>4 DEF Survives
<1>2. CASE tb.pc # "probing"
  <2>1. Failed(tb).pc = "failed"
    BY <1>2 DEF Failed, TabRecords
  <2> QED BY <2>1 DEF Calm, Waiting, Survives
<1> QED BY <1>1, <1>2

\* A tab is told a key that it had, or goes on looking.
LEMMA DeliverSettles ==
  ASSUME TypeOK, NEW t \in Tabs, TabSettled(t), Deliver(t)
  PROVE  TabSettled(t)'
<1> DEFINE r == Head(tab[t].answers)
           tb == Received(tab[t])
           next == IF ~Waiting(tb) THEN tb
                   ELSE IF Resolves(tb, r) THEN [tb EXCEPT !.pc = "ready", !.vk = r.key]
                   ELSE Failed(tb)
<1>1. tab[t].answers # <<>> /\ tab[t] \in TabRecords /\ tab[t].app \in Apps
  BY TabApp DEF Deliver, TypeOK
<1>2. r \in Answers /\ Tail(tab[t].answers) \in Seq(Answers)
  BY <1>1 DEF TabRecords
<1>3. /\ tb \in TabRecords /\ tb.app = tab[t].app /\ tb.pc = tab[t].pc
      /\ tb.vk = tab[t].vk /\ tb.alone = tab[t].alone /\ tb.had = tab[t].had
      /\ tb.known = tab[t].known
      /\ tb.left = tab[t].left /\ tb.asked = tab[t].asked
      /\ tb.answers = Tail(tab[t].answers)
  BY <1>1, <1>2 DEF Received, TabRecords
<1>4. tab' = [tab EXCEPT ![t] = next] /\ slot' = slot
  BY DEF Deliver
<1>5. tab'[t] = next /\ \A u \in Tabs \ {t} : tab'[u] = tab[u]
  <2> HIDE DEF next
  <2> QED BY <1>4 DEF TypeOK
<1>6. Undisturbed(t) => Undisturbed(t)'
  BY <1>5 DEF Undisturbed
<1>7. (Calm(tab[t]) <=> Calm(tb)) /\ (Survives(tab[t]) => Survives(tb))
  BY <1>3 DEF Calm, Waiting, Survives
<1>8. /\ Len(tab[t].answers) \in Nat \ {0} /\ r = tab[t].answers[1]
      /\ Len(tb.answers) = Len(tab[t].answers) - 1
      /\ \A i \in 1 .. Len(tab[t].answers) - 1 : tb.answers[i] = tab[t].answers[i + 1]
  BY <1>1, <1>3 DEF TabRecords
<1> HIDE DEF r, tb
<1>9. Finds(tab[t], slot) => Finds(tb, slot)
  <2>1. ToldOwn(tab[t]) => ToldOwn(tb)
    BY <1>3, <1>8 DEF ToldOwn
  <2> QED BY <1>3, <2>1 DEF Finds, HadAll, Probes, Findable
<1>10. CASE ~Waiting(tb)
  BY <1>5, <1>7, <1>10 DEF TabSettled, Calm
<1>11. CASE Waiting(tb) /\ Resolves(tb, r)
  <2>1. next = [tb EXCEPT !.pc = "ready", !.vk = r.key]
    BY <1>11
  <2>2. /\ next.pc = "ready" /\ next.vk = r.key /\ next.alone = tb.alone
        /\ next.had = tb.had
    BY <1>3, <2>1 DEF TabRecords
  <2>3. ASSUME tb.alone, tb.had # {}
        PROVE  r.key \in tb.had
    <3>1. ToldOwn(tab[t])
      BY <1>7, <1>11, <2>3 DEF TabSettled, Calm, Finds
    <3>2. r.kind # "error"
      BY <1>11 DEF Resolves
    <3>3. r.key \in tb.had \cup {Absent}
      BY <1>3, <1>8, <3>1, <3>2 DEF ToldOwn
    <3>4. r.key # Absent
      BY <1>2, <1>11, AnswerTypes DEF Resolves
    <3> QED BY <3>3, <3>4
  <2> HIDE DEF next
  <2> QED BY <1>5, <2>2, <2>3 DEF TabSettled, Calm, Waiting, Survives
<1>12. CASE Waiting(tb) /\ ~Resolves(tb, r)
  <2>1. next = Failed(tb)
    BY <1>12
  <2>2. Calm(tb) => Undisturbed(t) /\ Finds(tb, slot)
    BY <1>7, <1>9 DEF TabSettled
  <2> HIDE DEF next
  <2>3. /\ Calm(next) => Calm(tb) /\ Finds(next, slot)
        /\ Survives(next)
    BY <1>1, <1>3, <1>12, <2>1, <2>2, FailedSettles
  <2> QED BY <1>4, <1>5, <1>6, <2>2, <2>3 DEF TabSettled
<1> QED BY <1>10, <1>11, <1>12

LEMMA TimeoutSettles ==
  ASSUME TypeOK, NEW t \in Tabs, TabSettled(t), Timeout(t)
  PROVE  TabSettled(t)'
<1>1. tab[t] \in TabRecords /\ tab[t].app \in Apps /\ Waiting(tab[t])
  BY TabApp DEF Timeout, Waiting, TypeOK
<1>2. /\ tab'[t] = Failed(tab[t]) /\ \A u \in Tabs \ {t} : tab'[u] = tab[u]
      /\ slot' = slot
  BY DEF Timeout, TypeOK
<1>3. /\ Calm(tab'[t]) => Calm(tab[t]) /\ Finds(tab'[t], slot)
      /\ Survives(tab'[t])
  BY <1>1, <1>2, FailedSettles DEF TabSettled
<1>4. Undisturbed(t) => Undisturbed(t)'
  BY <1>2 DEF Undisturbed
<1> QED BY <1>2, <1>3, <1>4 DEF TabSettled

\* What an answer r leaves of a tab whose head of the queue it answers, when the
\* slots are s after it.
LEMMA AnswerSettles ==
  ASSUME TypeOK, NEW t \in Tabs, TabSettled(t), tab[t].asked # <<>>,
         NEW r \in Answers, Answer(t, r),
         Calm(tab[t]) =>
           /\ r.kind # "error" => r.key \in tab[t].had \cup {Absent}
           /\ HadAll(tab[t], slot')
           /\ \/ slot'[tab[t].app] \in Keys
              \/ slot' = slot /\ Head(tab[t].asked).kind = "adopt"
                   /\ slot[Head(tab[t].asked).old] \notin Keys
  PROVE  TabSettled(t)'
<1> DEFINE tb == tab[t]
           nx == tab'[t]
<1>1. tb \in TabRecords /\ tb.app \in Apps
  BY TabApp DEF TypeOK
<1>2. /\ nx = [tb EXCEPT !.asked = Tail(@), !.answers = Append(@, r)]
      /\ \A u \in Tabs \ {t} : tab'[u] = tab[u]
  BY DEF Answer, TypeOK
<1>3. /\ nx.asked = Tail(tb.asked) /\ nx.answers = Append(tb.answers, r)
      /\ nx.pc = tb.pc /\ nx.alone = tb.alone /\ nx.had = tb.had /\ nx.vk = tb.vk
      /\ nx.app = tb.app /\ nx.known = tb.known /\ nx.left = tb.left
  BY <1>1, <1>2 DEF TabRecords
<1>4. /\ Len(tb.asked) \in Nat \ {0} /\ Head(tb.asked) = tb.asked[1]
      /\ Len(nx.asked) = Len(tb.asked) - 1
      /\ \A i \in 1 .. Len(tb.asked) - 1 : nx.asked[i] = tb.asked[i + 1]
  BY <1>1, <1>3 DEF TabRecords
<1>5. /\ Len(tb.answers) \in Nat /\ Len(nx.answers) = Len(tb.answers) + 1
      /\ nx.answers[Len(tb.answers) + 1] = r
      /\ \A i \in 1 .. Len(tb.answers) : nx.answers[i] = tb.answers[i]
  BY <1>1, <1>3 DEF TabRecords
<1>6. Undisturbed(t) => Undisturbed(t)'
  BY <1>2 DEF Undisturbed
<1>7. Survives(tb) /\ (Calm(nx) => Calm(tb)) => Survives(nx) /\ (Calm(nx) => Calm(tb))
  BY <1>3 DEF Survives
<1>8. Calm(nx) => Calm(tb)
  BY <1>3 DEF Calm, Waiting
<1> HIDE DEF nx
<1>9. ASSUME Calm(tb)
      PROVE  Finds(nx, slot')
  <2>1. Finds(tb, slot) /\ HadAll(tb, slot')
    BY <1>9 DEF TabSettled
  <2>2. HadAll(nx, slot')
    BY <1>3, <2>1 DEF HadAll
  <2>3. ToldOwn(nx)
    <3>1. ASSUME NEW i \in 1 .. Len(nx.answers), nx.answers[i].kind # "error"
          PROVE  nx.answers[i].key \in tb.had \cup {Absent}
      <4>1. CASE i = Len(tb.answers) + 1
        BY <1>5, <1>9, <3>1, <4>1
      <4>2. CASE i \in 1 .. Len(tb.answers)
        BY <1>5, <2>1, <3>1, <4>2 DEF Finds, ToldOwn
      <4> QED BY <1>5, <4>1, <4>2
    <3> QED BY <1>3, <3>1 DEF ToldOwn
  <2>4. Probes(nx)
    <3>1. ASSUME NEW i \in 1 .. Len(nx.asked)
          PROVE  /\ nx.asked[i].kind = "identity" => nx.pc = "getting" /\ i = Len(nx.asked)
                 /\ nx.asked[i].kind = "adopt" => nx.asked[i].old \in nx.known
      <4>1. i + 1 \in 1 .. Len(tb.asked) /\ nx.asked[i] = tb.asked[i + 1]
        BY <1>4
      <4> QED BY <1>3, <1>4, <2>1, <4>1 DEF Finds, Probes
    <3> QED BY <1>3, <2>1, <3>1 DEF Finds, Probes
  <2>5. Findable(nx, slot')
    <3>1. CASE slot'[tb.app] \in Keys
      BY <1>3, <3>1 DEF Findable
    <3>2. CASE /\ slot' = slot /\ tb.asked[1].kind = "adopt"
               /\ slot[tb.asked[1].old] \notin Keys /\ slot'[tb.app] \notin Keys
      <4>1. PICK a \in tb.known :
              slot[a] \in Keys /\ (Somewhere(a, tb.left) \/ Somewhere(Adopt(a), tb.asked))
        BY <2>1, <3>2 DEF Finds, Findable
      <4>2. ASSUME Somewhere(Adopt(a), tb.asked)
            PROVE  Somewhere(Adopt(a), nx.asked)
        <5>1. PICK i \in 1 .. Len(tb.asked) : tb.asked[i] = Adopt(a)
          BY <4>2 DEF Somewhere
        <5>2. i # 1
          BY <3>2, <4>1, <5>1 DEF Adopt
        <5>3. i - 1 \in 1 .. Len(nx.asked) /\ nx.asked[i - 1] = Adopt(a)
          BY <1>4, <5>1, <5>2
        <5> QED BY <5>3 DEF Somewhere
      <4> QED BY <1>3, <3>2, <4>1, <4>2 DEF Findable
    <3> QED BY <1>4, <1>9, <3>1, <3>2
  <2> QED BY <2>2, <2>3, <2>4, <2>5 DEF Finds
<1> QED BY <1>6, <1>7, <1>8, <1>9 DEF TabSettled, nx

\* While the store works, an adoption finds the key that is there, and the own key is
\* asked for when it is in the own slot: a tab that had a key mints none.
LEMMA ProcessSettles ==
  ASSUME TypeOK, NEW t \in Tabs, TabSettled(t), Process(t), ~refused'
  PROVE  TabSettled(t)'
<1> DEFINE tb == tab[t]
           request == Head(tab[t].asked)
           app == tab[t].app
<1>1. tb.asked # <<>> /\ tb \in TabRecords /\ app \in Apps
  BY TabApp DEF Process, TypeOK
<1>2. /\ request = tb.asked[1] /\ request \in Requests /\ Len(tb.asked) \in Nat \ {0}
      /\ slot \in [Apps -> Keys \cup {Absent, Blank}]
  BY <1>1 DEF TabRecords, TypeOK
<1>3. Calm(tb) => Finds(tb, slot)
  BY DEF TabSettled
<1>4. \A a \in tb.known : a \in Apps
  BY <1>1 DEF TabRecords
<1>5. ASSUME request.kind = "adopt", HandleAdopt(t, app, request.old)
      PROVE  TabSettled(t)'
  <2>1. request.old \in Apps
    BY <1>2, <1>5, MessageTypes
  <2>2. Calm(tb) => request.old \in tb.known /\ app \in tb.known
    BY <1>2, <1>3, <1>5 DEF Finds, Probes
  <2>3. Calm(tb) => \A a \in tb.known : slot[a] \in Keys => slot[a] \in tb.had
    BY <1>3 DEF Finds, HadAll
  <2> DEFINE old == request.old
  <2> HIDE DEF request, app, tb, old
  <2>4. CASE slot[app] \in Keys /\ Answer(t, AdoptResult(slot[app])) /\ UNCHANGED slot
    <3>1. AdoptResult(slot[app]) \in Answers /\ AdoptResult(slot[app]).key = slot[app]
      BY <2>4, MessageTypes DEF AdoptResult
    <3>2. Calm(tb) => slot[app] \in tb.had /\ HadAll(tb, slot')
      BY <1>3, <2>2, <2>3, <2>4 DEF Finds
    <3> QED BY <1>1, <2>4, <3>1, <3>2, AnswerSettles DEF tb, app
  <2>5. CASE /\ slot[app] \notin Keys /\ slot[old] \notin Keys
             /\ Answer(t, AdoptResult(Absent)) /\ UNCHANGED slot
    <3>1. AdoptResult(Absent) \in Answers /\ AdoptResult(Absent).key = Absent
      BY MessageTypes DEF AdoptResult
    <3>2. Calm(tb) => HadAll(tb, slot')
      BY <1>3, <2>5 DEF Finds
    <3> QED BY <1>1, <1>5, <2>5, <3>1, <3>2, AnswerSettles DEF tb, request, old
  <2>6. CASE slot[app] \notin Keys /\ slot[old] \in Keys /\ Move(t, app, old)
    <3>1. /\ slot' = [slot EXCEPT ![app] = slot[old], ![old] = Blank]
          /\ Answer(t, AdoptResult(slot[old]))
      BY <2>6 DEF Move, Refuses
    <3>2. AdoptResult(slot[old]) \in Answers /\ AdoptResult(slot[old]).key = slot[old]
      BY <2>6, MessageTypes DEF AdoptResult
    <3>3. app # old /\ Blank \notin Keys
      BY <2>6
    <3>4. /\ slot'[app] = slot[old] /\ slot'[old] = Blank
          /\ \A a \in Apps \ {app, old} : slot'[a] = slot[a]
      BY <1>1, <1>2, <2>1, <3>1, <3>3 DEF old
    <3>5. Calm(tb) => slot[old] \in tb.had
      BY <1>1, <2>1, <2>2, <2>3, <2>6 DEF old
    <3>6. Calm(tb) => HadAll(tb, slot')
      <4> SUFFICES ASSUME Calm(tb), NEW a \in tb.known, slot'[a] \in Keys
                   PROVE  slot'[a] \in tb.had
        BY DEF HadAll, tb, app
      <4>1. CASE a = app
        BY <3>4, <3>5, <4>1
      <4>2. CASE a = old
        BY <3>3, <3>4, <4>2
      <4>3. CASE a \notin {app, old}
        BY <1>4, <2>3, <3>4, <4>3
      <4> QED BY <4>1, <4>2, <4>3
    <3> QED BY <1>1, <2>6, <3>1, <3>2, <3>4, <3>5, <3>6, AnswerSettles DEF tb, app
  <2> QED BY <1>5, <2>4, <2>5, <2>6 DEF HandleAdopt, old
<1>6. ASSUME request.kind = "identity", HandleGet(t, app)
      PROVE  TabSettled(t)'
  <2>1. ASSUME Calm(tb)
        PROVE  slot[app] \in Keys /\ slot[app] \in tb.had
    <3>1. tb.left = <<>> /\ Len(tb.asked) = 1
      <4>1. 1 \in 1 .. Len(tb.asked) /\ tb.asked[1].kind = "identity"
        BY <1>2, <1>6
      <4>2. Probes(tb)
        BY <1>3, <2>1 DEF Finds
      <4> QED BY <4>1, <4>2 DEF Probes
    <3>2. \A a : ~Somewhere(a, tb.left)
      BY <3>1 DEF Somewhere
    <3>3. \A a : ~Somewhere(Adopt(a), tb.asked)
      BY <1>2, <1>6, <3>1 DEF Somewhere, Adopt
    <3>4. slot[app] \in Keys
      BY <1>3, <2>1, <3>2, <3>3 DEF Finds, Findable
    <3>5. app \in tb.known
      BY <1>3, <2>1 DEF Finds, Probes
    <3> QED BY <1>3, <2>1, <3>4, <3>5 DEF Finds, HadAll
  <2> HIDE DEF request, app, tb
  <2>2. CASE slot[app] \in Keys /\ Answer(t, IdentityOf(slot[app])) /\ UNCHANGED slot
    <3>1. IdentityOf(slot[app]) \in Answers /\ IdentityOf(slot[app]).key = slot[app]
      BY <2>2, MessageTypes DEF IdentityOf
    <3>2. Calm(tb) => HadAll(tb, slot')
      BY <1>3, <2>2 DEF Finds
    <3> QED BY <1>1, <2>1, <2>2, <3>1, <3>2, AnswerSettles DEF tb, app
  <2>3. ASSUME slot[app] \notin Keys, NEW r \in Answers, Answer(t, r)
        PROVE  TabSettled(t)'
    <3>1. ~Calm(tb)
      BY <2>1, <2>3
    <3> QED BY <1>1, <2>3, <3>1, AnswerSettles DEF tb
  <2>4. CASE slot[app] = Blank /\ Answer(t, Error)
    BY <2>3, <2>4, MessageTypes
  <2>5. CASE slot[app] = Absent /\ Mint(t, app)
    <3>1. PICK r \in Answers : Answer(t, r)
      BY <2>5, MessageTypes DEF Mint
    <3> QED BY <2>3, <2>5, <3>1
  <2> QED BY <1>6, <2>2, <2>4, <2>5 DEF HandleGet
<1> QED BY <1>5, <1>6 DEF Process
-----------------------------------------------------------------------------
\* A store that has refused a write is not forgotten to have.
LEMMA RefusedStays ==
  ASSUME [Next]_vars, ~refused'
  PROVE  ~refused
<1>1. CASE \E t \in Tabs : Process(t)
  BY <1>1 DEF Process, HandleAdopt, HandleGet, Move, Mint, Stores, Refuses
<1>2. CASE UNCHANGED refused
  BY <1>2
<1> QED BY <1>1, <1>2 DEF Next, Release, Connect, Deliver, Timeout, vars

\* Who had a key under a container that the application knows, its own or one that it
\* probes, when the tab connected is given one of those, through any releases, failed
\* ones included, however late the delegate's answers are and to whichever question
\* they come, unless the store refused a write or another tab connected meanwhile
\* (adoptOrGetIdentity: "adopt one left under a previous release's web-container id").
\* Which containers an application probes is release.sh's doing, and the one that its
\* release displaced is not among them.
THEOREM IdentitiesSurvive == Spec => []IdentitySurvives
<1>1. Init => IdentityInv
  BY ClosedType DEF Init, IdentityInv, TabSettled, Calm, Waiting, Survives
<1>2. TypeOK /\ IdentityInv /\ [Next]_vars => IdentityInv'
  <2> SUFFICES ASSUME TypeOK, IdentityInv, [Next]_vars, ~refused', NEW t \in Tabs
               PROVE  TabSettled(t)'
    BY DEF IdentityInv
  <2>1. TabSettled(t)
    BY RefusedStays DEF IdentityInv
  <2>2. CASE Release \/ UNCHANGED vars
    BY <2>1, <2>2, Unchanged DEF Release, vars
  <2>3. ASSUME NEW u \in Tabs, NEW app \in Apps, Connect(u, app)
        PROVE  TabSettled(t)'
    BY <2>1, <2>3, ConnectSettles
  <2>4. ASSUME NEW u \in Tabs, Process(u) \/ Deliver(u) \/ Timeout(u)
        PROVE  TabSettled(t)'
    <3>1. CASE u = t
      BY <2>1, <2>4, <3>1, ProcessSettles, DeliverSettles, TimeoutSettles
    <3>2. CASE u # t
      BY <2>1, <2>4, <3>2, OthersSettle
    <3> QED BY <3>1, <3>2
  <2> QED BY <2>2, <2>3, <2>4 DEF Next
<1>3. IdentityInv => IdentitySurvives
  BY DEF IdentityInv, TabSettled, Survives, IdentitySurvives
<1> QED BY <1>1, <1>2, <1>3, TypeCorrect, PTL DEF Spec
-----------------------------------------------------------------------------
\* Every application probes what the ones before it probe, all of it on file.
FilesGrow ==
  \A n \in 1 .. Len(probes) :
    /\ ToSet(probes[n]) \subseteq ToSet(displaced)
    /\ \A m \in 1 .. n - 1 : ToSet(probes[m]) \subseteq ToSet(probes[n])

Locked(app) == slot[app] # Absent /\ Superseded(app)

\* A slot is blanked only by a newer container.
BlanksSuperseded == \A app \in Apps : slot[app] = Blank => Superseded(app)

\* One question at a time, each with its own answer, as long as none is late; the
\* only error there is comes of a blanked slot.
Asks(tb) ==
  /\ tb.answers = <<>> /\ Len(tb.asked) = 1
  /\ \/ /\ tb.pc = "probing" /\ tb.asked[1].kind = "adopt"
        /\ tb.asked[1].old \in ToSet(probes[tb.app])
     \/ tb.pc = "getting" /\ tb.asked[1].kind = "identity"

Told(tb) ==
  /\ tb.asked = <<>> /\ Len(tb.answers) = 1
  /\ \/ tb.pc = "probing" /\ tb.answers[1].kind = "adopted"
     \/ /\ tb.pc = "getting"
        /\ \/ tb.answers[1].kind = "identity"
           \/ tb.answers[1].kind = "error" /\ Locked(tb.app)

Converses(tb) ==
  IF Waiting(tb) THEN /\ Asks(tb) \/ Told(tb)
                      /\ ToSet(tb.left) \subseteq ToSet(probes[tb.app])
  ELSE /\ tb.asked = <<>> /\ tb.answers = <<>>
       /\ tb.pc = "failed" => Locked(tb.app)

LockInv ==
  /\ FilesGrow
  /\ ~refused /\ ~late => BlanksSuperseded /\ \A t \in Tabs : Converses(tab[t])

\* A sequence and its reverse have the same elements.
LEMMA ReversedSet ==
  ASSUME NEW S, NEW s \in Seq(S)
  PROVE  ToSet(Reverse(s)) = ToSet(s)
<1>1. Len(s) \in Nat /\ DOMAIN s = 1 .. Len(s)
  OBVIOUS
<1>2. Reverse(s) = [i \in 1 .. Len(s) |-> s[(Len(s) - i) + 1]]
  BY DEF Reverse
<1>3. \A i \in 1 .. Len(s) : (Len(s) - i) + 1 \in 1 .. Len(s)
  BY <1>1
<1>4. \A i \in 1 .. Len(s) : s[i] = Reverse(s)[(Len(s) - i) + 1]
  BY <1>1, <1>2, <1>3
<1> QED BY <1>1, <1>2, <1>3, <1>4 DEF ToSet

\* What the containers built probe: earlier ones.
LEMMA ProbesEarlier ==
  ASSUME SiteTypeOK, NEW n \in 1 .. Len(probes)
  PROVE  n \in Apps /\ n \in Nat /\ \A b \in ToSet(probes[n]) : b \in Nat /\ b < n /\ b \in Apps
<1>1. Len(probes) \in Nat /\ Len(probes) <= NumApps /\ probes[n] \in Seq(1 .. n - 1)
  BY DEF SiteTypeOK
<1>2. \A b \in ToSet(probes[n]) : b \in 1 .. n - 1
  BY <1>1 DEF ToSet
<1> QED BY <1>1, <1>2

\* A release leaves what was built before it as it is.
LEMMA ReleaseKeepsProbes ==
  ASSUME SiteTypeOK, Release
  PROVE  /\ Len(probes) \in Nat /\ Len(probes') = Len(probes) + 1
         /\ \A n \in 1 .. Len(probes) : probes'[n] = probes[n]
         /\ ToSet(probes'[Len(probes')]) = ToSet(displaced)
         /\ ToSet(displaced) \subseteq ToSet(displaced')
<1>1. /\ Len(probes) \in Nat /\ probes \in Seq(Seq(Apps))
      /\ displaced \in Seq(1 .. Len(probes))
  BY DEF SiteTypeOK
<1>2. probes' = Append(probes, Reverse(displaced)) /\ displaced' = Recorded
  BY DEF Release
<1>3. /\ Len(probes') = Len(probes) + 1 /\ probes'[Len(probes) + 1] = Reverse(displaced)
      /\ \A n \in 1 .. Len(probes) : probes'[n] = probes[n]
  BY <1>1, <1>2
<1>4. ToSet(Reverse(displaced)) = ToSet(displaced)
  BY <1>1, ReversedSet
<1>5. ToSet(displaced) \subseteq ToSet(displaced')
  <2>1. CASE displaced' = displaced
    BY <2>1
  <2>2. CASE displaced' = Append(displaced, manifest)
    <3>1. \A i \in DOMAIN displaced :
            i \in DOMAIN displaced' /\ displaced'[i] = displaced[i]
      BY <1>1, <2>2
    <3> QED BY <3>1 DEF ToSet
  <2> QED BY <1>2, <2>1, <2>2 DEF Recorded
<1> QED BY <1>1, <1>3, <1>4, <1>5

LEMMA FilesGrowOn ==
  ASSUME TypeOK, FilesGrow, [Next]_vars
  PROVE  FilesGrow'
<1>1. CASE Release
  <2>1. SiteTypeOK /\ Len(probes) \in Nat /\ Len(probes') = Len(probes) + 1
    BY <1>1, ReleaseKeepsProbes DEF TypeOK
  <2> SUFFICES ASSUME NEW n \in 1 .. Len(probes')
               PROVE  /\ ToSet(probes'[n]) \subseteq ToSet(displaced')
                      /\ \A m \in 1 .. n - 1 : ToSet(probes'[m]) \subseteq ToSet(probes'[n])
    BY DEF FilesGrow
  <2>2. CASE n \in 1 .. Len(probes)
    <3>1. \A m \in 1 .. n - 1 : m \in 1 .. Len(probes)
      BY <2>1, <2>2
    <3> QED BY <1>1, <2>1, <2>2, <3>1, ReleaseKeepsProbes DEF FilesGrow
  <2>3. CASE n = Len(probes')
    <3>1. \A m \in 1 .. n - 1 : m \in 1 .. Len(probes)
      BY <2>1, <2>3
    <3> QED BY <1>1, <2>1, <2>3, <3>1, ReleaseKeepsProbes DEF FilesGrow
  <2> QED BY <2>1, <2>2, <2>3
<1>2. CASE UNCHANGED siteVars
  BY <1>2 DEF FilesGrow
<1> QED BY <1>1, <1>2 DEF Next, Connect, Process, Deliver, Timeout, vars

\* What a release leaves locked out.
LEMMA ReleaseKeepsLocked ==
  ASSUME TypeOK, Release, NEW app, Superseded(app)
  PROVE  Superseded(app)'
<1>1. PICK a \in 1 .. Len(probes) : a > app /\ app \in Known(a) /\ slot[a] \in Keys
  BY DEF Superseded
<1>2. /\ a \in 1 .. Len(probes') /\ probes'[a] = probes[a] /\ slot' = slot
  BY ReleaseKeepsProbes DEF TypeOK, Release
<1> QED BY <1>1, <1>2 DEF Superseded, Known

\* The delegate's three outcomes, when the store works: it changes no slot, moves a key
\* to a newer container that knows the old one, or mints one in an empty slot.
LEMMA ProcessOutcomes ==
  ASSUME TypeOK, NEW t \in Tabs, Process(t), ~refused', Waiting(tab[t]), Asks(tab[t])
  PROVE  LET app == tab[t].app
         IN /\ app \in 1 .. Len(probes) /\ app \in Apps /\ UNCHANGED siteVars
            /\ \/ slot' = slot
               \/ \E old \in ToSet(probes[app]) :
                    /\ slot[app] \notin Keys /\ slot[old] \in Keys
                    /\ slot' = [slot EXCEPT ![app] = slot[old], ![old] = Blank]
               \/ \E k \in Keys : slot[app] = Absent /\ slot' = [slot EXCEPT ![app] = k]
            /\ \E r \in Answers :
                 /\ Answer(t, r)
                 /\ \/ tab[t].pc = "probing" /\ r.kind = "adopted"
                    \/ tab[t].pc = "getting" /\ r.kind = "identity"
                    \/ /\ tab[t].pc = "getting" /\ r.kind = "error"
                       /\ slot[app] = Blank
<1> DEFINE app == tab[t].app
           request == Head(tab[t].asked)
<1>1. /\ app \in 1 .. Len(probes) /\ app \in Apps /\ UNCHANGED siteVars
      /\ tab[t] \in TabRecords /\ slot \in [Apps -> Keys \cup {Absent, Blank}]
  BY TabApp DEF Process, TypeOK, Waiting
<1>2. request = tab[t].asked[1] /\ request \in Requests
  BY <1>1 DEF Asks, TabRecords
<1>3. CASE request.kind = "adopt"
  <2>1. tab[t].pc = "probing" /\ request.old \in ToSet(probes[app])
    BY <1>2, <1>3 DEF Asks
  <2>2. request.old \in Apps
    BY <1>2, <1>3, MessageTypes
  <2>3. HandleAdopt(t, app, request.old)
    BY <1>3 DEF Process
  <2>4. \A k \in Keys \cup {Absent} : AdoptResult(k).kind = "adopted"
    BY DEF AdoptResult
  <2> DEFINE old == request.old
  <2> HIDE DEF request, app, old
  <2>5. CASE slot[app] \in Keys /\ Answer(t, AdoptResult(slot[app])) /\ UNCHANGED slot
    BY <1>1, <2>1, <2>4, <2>5, MessageTypes DEF app
  <2>6. CASE /\ slot[app] \notin Keys /\ slot[old] \notin Keys
             /\ Answer(t, AdoptResult(Absent)) /\ UNCHANGED slot
    <3>1. Absent \in Keys \cup {Absent}
      OBVIOUS
    <3> QED BY <1>1, <2>1, <2>4, <2>6, <3>1, MessageTypes DEF app
  <2>7. CASE slot[app] \notin Keys /\ slot[old] \in Keys /\ Move(t, app, old)
    <3>1. /\ slot' = [slot EXCEPT ![app] = slot[old], ![old] = Blank]
          /\ Answer(t, AdoptResult(slot[old]))
      BY <2>7 DEF Move, Refuses
    <3>2. AdoptResult(slot[old]) \in Answers /\ AdoptResult(slot[old]).kind = "adopted"
      BY <2>4, <2>7, MessageTypes
    <3> QED BY <1>1, <2>1, <2>7, <3>1, <3>2 DEF app, old
  <2> QED BY <2>3, <2>5, <2>6, <2>7 DEF HandleAdopt, old
<1>4. CASE request.kind = "identity"
  <2>1. tab[t].pc = "getting"
    BY <1>2, <1>4 DEF Asks
  <2>2. HandleGet(t, app)
    BY <1>4 DEF Process
  <2>3. \A k \in Keys : IdentityOf(k).kind = "identity"
    BY DEF IdentityOf
  <2>4. Error.kind = "error"
    BY DEF Error
  <2> HIDE DEF request, app
  <2>5. CASE slot[app] \in Keys /\ Answer(t, IdentityOf(slot[app])) /\ UNCHANGED slot
    <3>1. /\ IdentityOf(slot[app]) \in Answers
          /\ IdentityOf(slot[app]).kind = "identity"
      BY <2>3, <2>5, MessageTypes
    <3> QED BY <1>1, <2>1, <2>5, <3>1 DEF app
  <2>6. CASE slot[app] = Blank /\ Answer(t, Error) /\ UNCHANGED slot
    BY <1>1, <2>1, <2>4, <2>6, MessageTypes DEF app
  <2>7. CASE slot[app] = Absent /\ Mint(t, app)
    <3>1. PICK k \in Keys : slot' = [slot EXCEPT ![app] = k] /\ Answer(t, IdentityOf(k))
      BY <2>7 DEF Mint, Refuses
    <3>2. IdentityOf(k) \in Answers /\ IdentityOf(k).kind = "identity"
      BY <2>3, MessageTypes
    <3> QED BY <1>1, <2>1, <2>7, <3>1, <3>2 DEF app
  <2> QED BY <2>2, <2>5, <2>6, <2>7 DEF HandleGet
<1> QED BY <1>3, <1>4 DEF Process

\* No slot is emptied, none is blanked but by a newer container that has its key then,
\* and who has been superseded stays so: a key that moves on goes to a container that
\* probes what its former one probes.
LEMMA ProcessKeepsLocked ==
  ASSUME TypeOK, FilesGrow, BlanksSuperseded, NEW t \in Tabs, Process(t), ~refused',
         Waiting(tab[t]), Asks(tab[t])
  PROVE  BlanksSuperseded' /\ \A b \in Apps : Locked(b) => Locked(b)'
<1> DEFINE app == tab[t].app
<1>1. /\ app \in 1 .. Len(probes) /\ app \in Apps /\ probes' = probes /\ SiteTypeOK
      /\ slot \in [Apps -> Keys \cup {Absent, Blank}]
  BY ProcessOutcomes DEF TypeOK
<1>2. Blank \notin Keys /\ Absent \notin Keys /\ Absent # Blank
  BY DEF Absent, Blank
<1>3. Len(probes) \in Nat /\ \A n \in 1 .. Len(probes) : n \in Apps
  BY <1>1, ProbesEarlier DEF SiteTypeOK
<1> HIDE DEF app
<1>4. CASE slot' = slot
  BY <1>1, <1>4 DEF BlanksSuperseded, Locked, Superseded, Known
<1>5. ASSUME NEW old \in ToSet(probes[app]), slot[app] \notin Keys, slot[old] \in Keys,
             slot' = [slot EXCEPT ![app] = slot[old], ![old] = Blank]
      PROVE  BlanksSuperseded' /\ \A b \in Apps : Locked(b) => Locked(b)'
  <2>1. old \in Apps /\ old \in Nat /\ old < app /\ app \in Nat /\ app # old
    BY <1>1, ProbesEarlier
  <2>2. /\ slot'[app] \in Keys /\ slot'[old] = Blank
        /\ \A a \in Apps \ {app, old} : slot'[a] = slot[a]
    BY <1>1, <1>5, <2>1
  <2>3. Superseded(old)'
    BY <1>1, <2>1, <2>2 DEF Superseded, Known
  <2>4. ASSUME NEW b \in Apps, Superseded(b)
        PROVE  Superseded(b)'
    <3>1. PICK a \in 1 .. Len(probes) : a > b /\ b \in Known(a) /\ slot[a] \in Keys
      BY <2>4 DEF Superseded
    <3>2. CASE a # old
      <4>1. slot'[a] \in Keys
        BY <1>3, <2>2, <3>1, <3>2
      <4> QED BY <1>1, <3>1, <4>1 DEF Superseded, Known
    <3>3. CASE a = old
      <4>1. b \in ToSet(probes[old]) /\ b \in Nat
        BY <3>1, <3>3 DEF Known
      <4>2. old \in 1 .. app - 1
        BY <1>1, <1>3, <2>1, <3>3
      <4>3. ToSet(probes[old]) \subseteq ToSet(probes[app])
        BY <1>1, <4>2 DEF FilesGrow
      <4>4. app > b
        BY <2>1, <3>1, <3>3, <4>1
      <4> QED BY <1>1, <2>2, <4>1, <4>3, <4>4 DEF Superseded, Known
    <3> QED BY <3>2, <3>3
  <2>5. BlanksSuperseded'
    <3> SUFFICES ASSUME NEW b \in Apps, slot'[b] = Blank PROVE Superseded(b)'
      BY DEF BlanksSuperseded
    <3>1. b = old \/ slot[b] = Blank
      BY <1>2, <2>2
    <3> QED BY <2>3, <2>4, <3>1 DEF BlanksSuperseded
  <2>6. \A b \in Apps : slot[b] # Absent => slot'[b] # Absent
    BY <1>2, <2>2
  <2> QED BY <2>4, <2>5, <2>6 DEF Locked
<1>6. ASSUME NEW k \in Keys, slot[app] = Absent, slot' = [slot EXCEPT ![app] = k]
      PROVE  BlanksSuperseded' /\ \A b \in Apps : Locked(b) => Locked(b)'
  <2>1. slot'[app] \in Keys /\ \A a \in Apps \ {app} : slot'[a] = slot[a]
    BY <1>1, <1>6
  <2>2. ASSUME NEW b \in Apps, Superseded(b)
        PROVE  Superseded(b)'
    <3>1. PICK a \in 1 .. Len(probes) : a > b /\ b \in Known(a) /\ slot[a] \in Keys
      BY <2>2 DEF Superseded
    <3>2. slot'[a] \in Keys
      BY <1>3, <2>1, <3>1
    <3> QED BY <1>1, <3>1, <3>2 DEF Superseded, Known
  <2>3. \A b \in Apps : slot'[b] = Blank => slot[b] = Blank
    BY <1>2, <2>1
  <2>4. \A b \in Apps : slot[b] # Absent => slot'[b] # Absent
    BY <1>2, <2>1
  <2> QED BY <2>2, <2>3, <2>4 DEF BlanksSuperseded, Locked
<1> QED BY <1>4, <1>5, <1>6, ProcessOutcomes DEF app

-----------------------------------------------------------------------------
LEMMA TailOfOne ==
  ASSUME NEW S, NEW s \in Seq(S), Len(s) = 1
  PROVE  Tail(s) = <<>> /\ Head(s) = s[1]
<1>1. Tail(s) \in Seq(S) /\ Len(Tail(s)) = 0
  OBVIOUS
<1>2. \A q \in Seq(S) : Len(q) = 0 => q = <<>>
  BY EmptySeq
<1>3. Tail(s) = <<>>
  BY <1>1, <1>2
<1> QED BY <1>3

\* The first request of a connection, and the next one after an answer.
LEMMA AskNextConverses ==
  ASSUME NEW tb \in TabRecords, tb.asked = <<>>, tb.answers = <<>>,
         ToSet(tb.left) \subseteq ToSet(probes[tb.app])
  PROVE  Converses(AskNext(tb))
<1>1. CASE tb.left = <<>>
  <2>1. AskNext(tb) = [tb EXCEPT !.pc = "getting", !.asked = Append(@, GetIdentity)]
    BY <1>1 DEF AskNext
  <2>2. /\ AskNext(tb).pc = "getting" /\ AskNext(tb).asked = <<GetIdentity>>
        /\ AskNext(tb).answers = <<>> /\ AskNext(tb).left = tb.left
        /\ AskNext(tb).app = tb.app
    BY <2>1 DEF TabRecords
  <2>3. Len(<<GetIdentity>>) = 1 /\ <<GetIdentity>>[1].kind = "identity"
    BY DEF GetIdentity
  <2> QED BY <2>2, <2>3 DEF Converses, Waiting, Asks
<1>2. CASE tb.left # <<>>
  <2> DEFINE old == Head(tb.left)
  <2>1. AskNext(tb) = [tb EXCEPT !.pc = "probing", !.left = Tail(@),
                                 !.asked = Append(@, Adopt(old))]
    BY <1>2 DEF AskNext
  <2>2. /\ AskNext(tb).pc = "probing" /\ AskNext(tb).asked = <<Adopt(old)>>
        /\ AskNext(tb).answers = <<>> /\ AskNext(tb).left = Tail(tb.left)
        /\ AskNext(tb).app = tb.app
    BY <2>1 DEF TabRecords
  <2>3. old \in ToSet(tb.left) /\ ToSet(Tail(tb.left)) \subseteq ToSet(tb.left)
    BY <1>2 DEF TabRecords, ToSet
  <2>4. /\ Len(<<Adopt(old)>>) = 1 /\ <<Adopt(old)>>[1].kind = "adopt"
        /\ <<Adopt(old)>>[1].old = old
    BY DEF Adopt
  <2> QED BY <2>2, <2>3, <2>4 DEF Converses, Waiting, Asks
<1> QED BY <1>1, <1>2

\* A tab that nothing happens to goes on as it did.
LEMMA ConversesOn ==
  ASSUME NEW u \in Tabs, Converses(tab[u]), tab[u].pc # "closed" => tab[u].app \in Apps,
         tab'[u].pc = tab[u].pc, tab'[u].asked = tab[u].asked,
         tab'[u].answers = tab[u].answers, tab'[u].left = tab[u].left,
         tab'[u].app = tab[u].app,
         tab[u].pc # "closed" => probes'[tab[u].app] = probes[tab[u].app],
         \A b \in Apps : Locked(b) => Locked(b)'
  PROVE  Converses(tab[u])'
BY DEF Converses, Asks, Told, Waiting

LEMMA ConnectConverses ==
  ASSUME TypeOK, NEW t \in Tabs, NEW app \in Apps, Connect(t, app),
         \A u \in Tabs : Converses(tab[u])
  PROVE  \A u \in Tabs : Converses(tab[u])'
<1> DEFINE new == NewTab(t, app)
<1>1. /\ new \in TabRecords /\ new.asked = <<>> /\ new.answers = <<>>
      /\ new.left = probes[app] /\ new.app = app
  BY NewTabType
<1>2. /\ tab' = [u \in Tabs |-> IF u = t THEN AskNext(new)
                                ELSE [tab[u] EXCEPT !.alone = @ /\ ~Waiting(tab[u])]]
      /\ UNCHANGED <<siteVars, slot>>
  BY DEF Connect, NewTab
<1> HIDE DEF new
<1>3. Converses(tab[t])'
  <2>1. Converses(AskNext(new))
    BY <1>1, AskNextConverses
  <2>2. tab'[t] = AskNext(new)
    BY <1>2
  <2> QED BY <1>2, <2>1, <2>2
        DEF Converses, Asks, Told, Waiting, Locked, Superseded, Known
<1>4. ASSUME NEW u \in Tabs \ {t}
      PROVE  Converses(tab[u])'
  <2>1. tab'[u] = [tab[u] EXCEPT !.alone = @ /\ ~Waiting(tab[u])]
    BY <1>2
  <2>2. tab[u] \in TabRecords
    BY DEF TypeOK
  <2>3. /\ tab'[u].pc = tab[u].pc /\ tab'[u].asked = tab[u].asked
        /\ tab'[u].answers = tab[u].answers /\ tab'[u].left = tab[u].left
        /\ tab'[u].app = tab[u].app
    BY <2>1, <2>2 DEF TabRecords
  <2>4. \A b \in Apps : Locked(b) => Locked(b)'
    BY <1>2 DEF Locked, Superseded, Known
  <2>5. tab[u].pc # "closed" => tab[u].app \in Apps
    BY TabApp
  <2> QED BY <1>2, <2>3, <2>4, <2>5, ConversesOn
<1> QED BY <1>3, <1>4

LEMMA ProcessConverses ==
  ASSUME TypeOK, FilesGrow, BlanksSuperseded, NEW t \in Tabs, Process(t), ~refused',
         \A u \in Tabs : Converses(tab[u])
  PROVE  BlanksSuperseded' /\ \A u \in Tabs : Converses(tab[u])'
<1>1. Waiting(tab[t]) /\ Asks(tab[t])
  BY DEF Process, Converses, Told
<1>2. BlanksSuperseded' /\ \A b \in Apps : Locked(b) => Locked(b)'
  BY <1>1, ProcessKeepsLocked
<1>3. /\ tab[t].app \in Apps /\ UNCHANGED siteVars /\ tab[t] \in TabRecords
      /\ slot[tab[t].app] = Blank => Locked(tab[t].app)
  BY <1>1, ProcessOutcomes DEF TypeOK, BlanksSuperseded, Locked, Blank, Absent
<1>4. PICK r \in Answers :
        /\ Answer(t, r)
        /\ \/ tab[t].pc = "probing" /\ r.kind = "adopted"
           \/ tab[t].pc = "getting" /\ r.kind = "identity"
           \/ tab[t].pc = "getting" /\ r.kind = "error" /\ slot[tab[t].app] = Blank
  BY <1>1, ProcessOutcomes
<1>5. /\ tab'[t] = [tab[t] EXCEPT !.asked = Tail(@), !.answers = Append(@, r)]
      /\ \A u \in Tabs \ {t} : tab'[u] = tab[u]
  BY <1>4 DEF Answer, TypeOK
<1>6. Converses(tab[t])'
  <2>1. /\ tab'[t].pc = tab[t].pc /\ tab'[t].left = tab[t].left /\ tab'[t].app = tab[t].app
        /\ tab'[t].asked = Tail(tab[t].asked) /\ tab'[t].answers = Append(tab[t].answers, r)
    BY <1>3, <1>5 DEF TabRecords
  <2>2. tab'[t].asked = <<>> /\ Len(tab'[t].answers) = 1 /\ tab'[t].answers[1] = r
    <3>1. tab[t].asked \in Seq(Requests) /\ Len(tab[t].asked) = 1 /\ tab[t].answers = <<>>
      BY <1>1, <1>3 DEF Asks, TabRecords
    <3>2. Tail(tab[t].asked) = <<>>
      BY <3>1, TailOfOne
    <3> QED BY <2>1, <3>1, <3>2
  <2>3. \/ tab[t].pc = "probing" /\ r.kind = "adopted"
        \/ tab[t].pc = "getting" /\ r.kind = "identity"
        \/ tab[t].pc = "getting" /\ r.kind = "error" /\ Locked(tab[t].app)'
    <3>1. tab[t].app \in Apps /\ slot[tab[t].app] = Blank => Locked(tab[t].app)
      BY <1>3
    <3>2. slot[tab[t].app] = Blank => Locked(tab[t].app)'
      BY <1>2, <1>3, <2>1 DEF Locked, Superseded, Known
    <3> QED BY <1>4, <3>2
  <2>4. Told(tab[t])'
    BY <2>1, <2>2, <2>3 DEF Told, Locked, Superseded, Known
  <2>5. ToSet(tab'[t].left) \subseteq ToSet(probes'[tab'[t].app])
    BY <1>1, <1>3, <2>1 DEF Converses
  <2> QED BY <1>1, <2>1, <2>4, <2>5 DEF Converses, Waiting
<1>7. ASSUME NEW u \in Tabs \ {t}
      PROVE  Converses(tab[u])'
  <2>1. tab[u].pc # "closed" => tab[u].app \in Apps
    BY TabApp
  <2> QED BY <1>2, <1>3, <1>5, <2>1, ConversesOn
<1> QED BY <1>2, <1>6, <1>7

LEMMA DeliverConverses ==
  ASSUME TypeOK, NEW t \in Tabs, Deliver(t), \A u \in Tabs : Converses(tab[u])
  PROVE  \A u \in Tabs : Converses(tab[u])'
<1> DEFINE r == Head(tab[t].answers)
           tb == Received(tab[t])
           next == IF ~Waiting(tb) THEN tb
                   ELSE IF Resolves(tb, r) THEN [tb EXCEPT !.pc = "ready", !.vk = r.key]
                   ELSE Failed(tb)
<1>1. Waiting(tab[t]) /\ Told(tab[t]) /\ tab[t] \in TabRecords
      /\ ToSet(tab[t].left) \subseteq ToSet(probes[tab[t].app])
  BY DEF Deliver, Converses, Asks, TypeOK
<1>2. /\ Len(tab[t].answers) = 1 /\ r = tab[t].answers[1] /\ Tail(tab[t].answers) = <<>>
      /\ tab[t].answers \in Seq(Answers)
  <2>1. tab[t].answers \in Seq(Answers) /\ Len(tab[t].answers) = 1
    BY <1>1 DEF Told, TabRecords
  <2> QED BY <2>1, TailOfOne
<1>3. /\ tb \in TabRecords /\ tb.app = tab[t].app /\ tb.pc = tab[t].pc
      /\ tb.left = tab[t].left /\ tb.asked = <<>> /\ tb.answers = <<>>
  <2>1. tb = [tab[t] EXCEPT !.answers = <<>>] /\ <<>> \in Seq(Answers)
    <3>1. tb = [tab[t] EXCEPT !.answers = Tail(tab[t].answers)]
      BY DEF Received
    <3>2. <<>> \in Seq(Answers)
      OBVIOUS
    <3>3. Tail(tab[t].answers) = <<>>
      BY <1>2
    <3> HIDE DEF tb, r
    <3> QED BY <3>1, <3>2, <3>3
  <2> HIDE DEF tb
  <2> QED BY <1>1, <2>1 DEF TabRecords, Told
<1>4. /\ tab' = [tab EXCEPT ![t] = next] /\ UNCHANGED <<siteVars, slot>>
  BY DEF Deliver
<1>5. tab'[t] = next /\ \A u \in Tabs \ {t} : tab'[u] = tab[u]
  <2> HIDE DEF next
  <2> QED BY <1>4 DEF TypeOK
<1>6. Waiting(tb)
  BY <1>1, <1>3 DEF Waiting
<1> HIDE DEF r, tb
<1>7. Converses(next)
  <2>1. CASE Resolves(tb, r)
    <3>1. next = [tb EXCEPT !.pc = "ready", !.vk = r.key]
      BY <1>6, <2>1
    <3>2. next.pc = "ready" /\ next.asked = <<>> /\ next.answers = <<>>
      BY <1>3, <3>1 DEF TabRecords
    <3> HIDE DEF next
    <3> QED BY <3>2 DEF Converses, Waiting
  <2>2. CASE ~Resolves(tb, r) /\ tb.pc = "probing"
    <3>1. next = AskNext(tb)
      BY <1>6, <2>2 DEF Failed
    <3> QED BY <1>1, <1>3, <3>1, AskNextConverses
  <2>3. CASE ~Resolves(tb, r) /\ tb.pc = "getting"
    <3>1. next = [tb EXCEPT !.pc = "failed"]
      BY <1>6, <2>3 DEF Failed
    <3>2. Locked(tb.app)
      BY <1>1, <1>2, <1>3, <2>3 DEF Told, Resolves
    <3>3. /\ next.pc = "failed" /\ next.asked = <<>> /\ next.answers = <<>>
          /\ next.app = tb.app
      BY <1>3, <3>1 DEF TabRecords
    <3> HIDE DEF next
    <3> QED BY <3>2, <3>3 DEF Converses, Waiting
  <2> QED BY <1>6, <2>1, <2>2, <2>3 DEF Waiting
<1>8. Converses(tab[t])'
  <2> HIDE DEF next
  <2> QED BY <1>4, <1>5, <1>7 DEF Converses, Asks, Told, Waiting, Locked, Superseded, Known
<1>9. ASSUME NEW u \in Tabs \ {t}
      PROVE  Converses(tab[u])'
  <2>1. \A b \in Apps : Locked(b) => Locked(b)'
    BY <1>4 DEF Locked, Superseded, Known
  <2>2. tab[u].pc # "closed" => tab[u].app \in Apps
    BY TabApp
  <2> HIDE DEF next
  <2> QED BY <1>4, <1>5, <2>1, <2>2, ConversesOn
<1> QED BY <1>8, <1>9

LEMMA ReleaseConverses ==
  ASSUME TypeOK, Release, BlanksSuperseded, \A u \in Tabs : Converses(tab[u])
  PROVE  BlanksSuperseded' /\ \A u \in Tabs : Converses(tab[u])'
<1>1. UNCHANGED <<slot, tab>>
  BY DEF Release
<1>2. \A b \in Apps : Locked(b) => Locked(b)'
  BY <1>1, ReleaseKeepsLocked DEF Locked
<1>3. BlanksSuperseded'
  BY <1>1, ReleaseKeepsLocked DEF BlanksSuperseded
<1>4. ASSUME NEW u \in Tabs
      PROVE  Converses(tab[u])'
  <2>1. tab[u].pc # "closed" =>
          tab[u].app \in Apps /\ probes'[tab[u].app] = probes[tab[u].app]
    BY TabApp, ReleaseKeepsProbes DEF TypeOK
  <2> QED BY <1>1, <1>2, <2>1, ConversesOn
<1> QED BY <1>3, <1>4

\* For any containers, tabs and connections, through any releases, failed ones included:
\* as long as the store works and answers come in time, only tabs of a container whose
\* key a newer one adopted are refused an identity (stored_seed: blanked slots "read as
\* absent"; load_or_create_key takes them for corrupt).
THEOREM OnlyAdoptedAreLockedOut == Spec => []OnlyAdoptedLockedOut
<1>1. Init => LockInv
  <2> SUFFICES ASSUME Init PROVE LockInv
    OBVIOUS
  <2>1. FilesGrow
    BY DEF Init, FilesGrow
  <2>2. BlanksSuperseded
    BY DEF Init, BlanksSuperseded, Absent, Blank
  <2>3. \A t \in Tabs : Converses(tab[t])
    BY ClosedType DEF Init, Converses, Waiting
  <2> QED BY <2>1, <2>2, <2>3 DEF LockInv
<1>2. TypeOK /\ LockInv /\ [Next]_vars => LockInv'
  <2> SUFFICES ASSUME TypeOK, LockInv, [Next]_vars PROVE LockInv'
    OBVIOUS
  <2>1. FilesGrow /\ FilesGrow'
    BY FilesGrowOn DEF LockInv
  <2> SUFFICES ASSUME ~refused', ~late'
               PROVE  BlanksSuperseded' /\ \A t \in Tabs : Converses(tab[t])'
    BY <2>1 DEF LockInv
  <2>2. ~refused /\ ~late
    <3>1. ~refused
      BY RefusedStays
    <3>2. ~late
      BY DEF Next, Release, Connect, Process, Deliver, Timeout, vars
    <3> QED BY <3>1, <3>2
  <2>3. BlanksSuperseded /\ \A t \in Tabs : Converses(tab[t])
    BY <2>2 DEF LockInv
  <2>4. CASE Release
    BY <2>3, <2>4, ReleaseConverses
  <2>5. ASSUME NEW t \in Tabs, NEW app \in Apps, Connect(t, app)
        PROVE  BlanksSuperseded' /\ \A u \in Tabs : Converses(tab[u])'
    <3>1. BlanksSuperseded'
      BY <2>3, <2>5 DEF Connect, BlanksSuperseded, Superseded, Known
    <3> QED BY <2>3, <2>5, <3>1, ConnectConverses
  <2>6. ASSUME NEW t \in Tabs, Process(t)
        PROVE  BlanksSuperseded' /\ \A u \in Tabs : Converses(tab[u])'
    BY <2>1, <2>3, <2>6, ProcessConverses
  <2>7. ASSUME NEW t \in Tabs, Deliver(t)
        PROVE  BlanksSuperseded' /\ \A u \in Tabs : Converses(tab[u])'
    <3>1. BlanksSuperseded'
      BY <2>3, <2>7 DEF Deliver, BlanksSuperseded, Superseded, Known
    <3> QED BY <2>3, <2>7, <3>1, DeliverConverses
  <2>8. CASE \E t \in Tabs : Timeout(t)
    BY <2>8 DEF Timeout
  <2>9. CASE UNCHANGED vars
    BY <2>3, <2>9 DEF vars, BlanksSuperseded, Converses, Asks, Told, Waiting, Locked,
                      Superseded, Known
  <2> QED BY <2>4, <2>5, <2>6, <2>7, <2>8, <2>9 DEF Next
<1>3. LockInv => OnlyAdoptedLockedOut
  BY DEF LockInv, Converses, Waiting, Locked, OnlyAdoptedLockedOut
<1> QED BY <1>1, <1>2, <1>3, TypeCorrect, PTL DEF Spec

=============================================================================
