------------------------------ MODULE Admission ------------------------------
(***************************************************************************)
(* How a page gets its user admitted and named: the onboarding, the        *)
(* upgrade and the nickname edit of web/src/main.ts, the registry calls of *)
(* RealBackend, and the two delegates they ask over one line of waiters    *)
(* (web/src/freenet-api.ts).  Other pages of the same identity write to    *)
(* the same record.                                                        *)
(*                                                                         *)
(* updateWithRetry is modelled in Placing: here an update is applied, once *)
(* or again, at any time from when it is sent, and is acknowledged or not, *)
(* by the response to it or, since the SDK hands the responses out in the  *)
(* order of its promises, by the response to another update of the page.   *)
(***************************************************************************)
EXTENDS RegistryJs, Sequences, SequencesExt, FiniteSetsExt

CONSTANTS Me, Edits,      \* the identity of the page, the edits of its nickname
          MaxTime, MaxPushes,     \* bounds
          Named,       \* bound: what an onboarding has of a name, 1, or 0 for none
          MaxActs     \* bound: what users do, here and on other pages

\* The onboarding's functions are none of the edits.
ASSUME NamesAssumption ==
  /\ Me \in Authors
  /\ Edits \cap {"start", "probe", "work", "ghost", "upgrade"} = {}

ASSUME BoundsAssumption ==
  MaxTime \in Nat \ {0} /\ MaxPushes \in Nat /\ MaxActs \in Nat

\* The asynchronous functions of the page; "start" is startAdmission up to its
\* challenge, "probe" the presence probe that it makes beside.
Flows == {"start", "probe", "work", "ghost", "upgrade"} \cup Edits

Delegates == {"identity", "ghostkeys"}

VARIABLES time,       \* the page's clock
          registry,   \* the registry on the page's node
          view,       \* backend.registry of the page
          inbox,      \* full states on their way to the page
          pc,         \* what a flow is waiting for
          job,        \* of a flow: the delta it asked for and the one it got
          pendingDelegate,   \* the waiters, oldest first
          asked,      \* the requests each delegate has not answered
          sent,       \* the updates that may be applied
          acts, pushes,   \* counts: what users do, full states for the page
          crossed,    \* history: who was acknowledged before being applied
          misled,     \* history: a waiter went without its delegate's answer
          setBack     \* history: an older state replaced a view

askVars == <<pendingDelegate, asked, misled>>
sendVars == <<sent, crossed>>
pageVars == <<time, registry, view, inbox, pc, job, askVars, sendVars, acts, pushes,
              setBack>>

Unlocked(v) == Known(v[Me])

\* seen: the admission time that an upgrade went below; after: the edits shown
\* when an edit was submitted.
NoJob == [want |-> NoDelta, got |-> NoDelta, seen |-> 0, after |-> {}, acked |-> FALSE]

PageInit ==
  /\ time = 1
  /\ registry = EmptyRegistry /\ view = [a \in Authors |-> Unknown] /\ inbox = <<>>
  /\ pc = [f \in Flows |-> "idle"] /\ job = [f \in Flows |-> NoJob]
  /\ pendingDelegate = <<>> /\ asked = [d \in Delegates |-> <<>>]
  /\ sent = {} /\ crossed = {}
  /\ acts = 0 /\ pushes = 0 /\ misled = FALSE /\ setBack = FALSE

-----------------------------------------------------------------------------
(* Asking a delegate *)

Asking == {"challenging", "probing", "proving", "signing"}

DelegateOf(step) == IF step \in {"probing", "proving"} THEN "ghostkeys" ELSE "identity"

\* delegateRoundTrip: the waiter joins the line before the request is sent.
DelegateRoundTrip(f, step, delta, line, requests) ==
  /\ pc' = [pc EXCEPT ![f] = step]
  /\ pendingDelegate' = Append(line, f)
  /\ asked' = [requests EXCEPT ![DelegateOf(step)] =
                 Append(@, [step |-> step, delta |-> delta])]

\* A signature of one of the deltas.
AskToSign(f, deltas, line, requests) ==
  \E d \in deltas :
    /\ DelegateRoundTrip(f, "signing", d, line, requests)
    /\ job' = [job EXCEPT ![f].want = d]

\* SignAdmission, with a nickname of version 1 or with none.
Admissions(tier, ts, versions) ==
  {AdmissionOf(Me, r) : r \in {s \in Records :
     s.core.tier = tier /\ s.core.ts = ts /\ s.nickname.version \in versions}}

\* SignNickname.
Renamings(version) ==
  {NicknameOf(Me, n) : n \in {m \in Nicknames : m.version = version}}

\* closeOnboarding, on any event of the registry.
CloseAnyway(steps, v) ==
  IF steps["work"] = "searching" THEN [steps EXCEPT !["work"] = "stopped"] ELSE steps

\* onRegistry: once a tier is known, closeOnboarding ends the search for a nonce; an
\* admission under way goes on.
OnRegistry(steps, v) ==
  IF Unlocked(v) /\ steps["work"] = "searching"
    THEN [steps EXCEPT !["work"] = "stopped"] ELSE steps

-----------------------------------------------------------------------------
(* The user, and the worker *)

\* syncAll, then onConnected: a page without a tier opens the onboarding, and
\* startAdmission asks for the challenge and probes for ghost keys.  It is started
\* once: onboardingStarted is never reset.
Connect ==
  /\ pc["start"] = "idle"
  /\ view' = DecodeRegistryState(registry)
  /\ IF Unlocked(view')
       THEN pc' = [pc EXCEPT !["start"] = "unneeded"] /\ UNCHANGED <<pendingDelegate, asked>>
       ELSE /\ pc' = [pc EXCEPT !["start"] = "challenging", !["probe"] = "probing"]
            /\ pendingDelegate' = <<"start", "probe">>
            /\ asked' = [d \in Delegates |->
                 <<[step |-> IF d = "identity" THEN "challenging" ELSE "probing",
                    delta |-> NoDelta]>>]
  /\ UNCHANGED <<time, registry, inbox, job, sendVars, acts, pushes, misled, setBack>>

\* Time passes between the user's clicks, and while the worker searches.
Act == acts < MaxActs /\ acts' = acts + 1 /\ time' \in time .. MaxTime

\* The button of the onboarding, disabled while its flow runs, and for good once it
\* is admitted.  It waits for the challenge; once that failed, it does nothing.
ClickGhostkey ==
  /\ pc["ghost"] = "idle" /\ ~Unlocked(view) /\ Act
  /\ \/ /\ pc["start"] = "challenging"
        /\ pc' = [pc EXCEPT !["ghost"] = "waiting"]
        /\ UNCHANGED <<pendingDelegate, asked>>
     \/ /\ pc["start"] = "ready"
        /\ DelegateRoundTrip("ghost", "proving", NoDelta, pendingDelegate, asked)
  /\ UNCHANGED <<registry, view, inbox, job, sendVars, misled, pushes, setBack>>

\* The button of those admitted by work.
ClickUpgrade ==
  /\ pc["upgrade"] = "idle" /\ view[Me].tier = "pow" /\ Act
  /\ DelegateRoundTrip("upgrade", "challenging", NoDelta, pendingDelegate, asked)
  /\ job' = [job EXCEPT !["upgrade"] = NoJob]
  /\ UNCHANGED <<registry, view, inbox, sendVars, misled, pushes, setBack>>

\* setNickname, of a form that was opened when a tier was known.
SetNickname(e) ==
  /\ pc[e] = "idle" /\ e = CHOOSE f \in Edits : pc[f] = "idle"
  /\ Unlocked(view) /\ Act
  /\ \E d \in Renamings(view[Me].nicknameVersion + 1) :
       /\ DelegateRoundTrip(e, "signing", d, pendingDelegate, asked)
       /\ job' = [job EXCEPT ![e].want = d,
                             ![e].after = {f \in Edits : job[f].got # NoDelta}]
  /\ UNCHANGED <<registry, view, inbox, sendVars, misled, pushes, setBack>>

\* The worker is done; admitPow.
FindNonce ==
  /\ pc["work"] = "searching"
  /\ time' \in time .. MaxTime
  /\ AskToSign("work", Admissions("pow", time', Named), pendingDelegate, asked)
  /\ UNCHANGED <<registry, view, inbox, sendVars, acts, pushes, misled, setBack>>

-----------------------------------------------------------------------------
(* Answers of the delegates *)

\* startAdmission goes on, and so does a click that waited for the challenge.
Challenged(line, requests) ==
  LET started == [pc EXCEPT !["start"] = "ready", !["work"] = "searching"]
  IN IF pc["ghost"] = "waiting"
       THEN /\ pc' = [started EXCEPT !["ghost"] = "proving"]
            /\ pendingDelegate' = Append(line, "ghost")
            /\ asked' = [requests EXCEPT !["ghostkeys"] =
                           Append(@, [step |-> "proving", delta |-> NoDelta])]
       ELSE pc' = started /\ pendingDelegate' = line /\ asked' = requests

\* An upgrade at the time of the admission that it replaces.
SameTs == IF Unlocked(view) THEN view[Me].admittedTs ELSE time

\* "One below the existing one to win that merge."
UpgradeTs == IF Unlocked(view) THEN view[Me].admittedTs - 1 ELSE time

\* admitGhostkey.
Proved(f, line, requests) ==
  IF f = "ghost"
    THEN AskToSign(f, Admissions("ghostkey", time, Named), line, requests)
    ELSE \E d \in Admissions("ghostkey", UpgradeTs, {0}) :
           /\ DelegateRoundTrip(f, "signing", d, line, requests)
           /\ job' = [job EXCEPT ![f].want = d, ![f].seen = view[Me].admittedTs]

\* An edit that is shown when it is acknowledged.
SignedUnseen(f, d) ==
  /\ job' = [job EXCEPT ![f].got = d]
  /\ sent' = sent \cup {d}
  /\ pc' = [pc EXCEPT ![f] = "sending"]
  /\ UNCHANGED <<view, crossed>>

\* Whatever is signed is shown at once.
SignedShown(f, d) ==
  /\ job' = [job EXCEPT ![f].got = d]
  /\ sent' = sent \cup {d}
  /\ view' = ApplyRegistryDelta(view, d)
  /\ pc' = OnRegistry([pc EXCEPT ![f] = "sending"], view')
  /\ UNCHANGED crossed

\* A signed delta is sent; an edit is shown at once.
Signed(f, d) ==
  /\ job' = [job EXCEPT ![f].got = d]
  /\ sent' = sent \cup {d}
  /\ IF f \in Edits
       THEN /\ view' = ApplyRegistryDelta(view, d)
            /\ pc' = OnRegistry([pc EXCEPT ![f] = "sending"], view')
       ELSE pc' = [pc EXCEPT ![f] = "sending"] /\ UNCHANGED view
  /\ UNCHANGED crossed

\* Errors enable the buttons again; without a challenge there is no onboarding.
Failed(f) ==
  [pc EXCEPT ![f] = CASE f = "probe" -> "done"
                      [] f \in {"ghost", "upgrade"} -> "idle"
                      [] OTHER -> "failed",
             !["ghost"] = IF f = "start" /\ @ = "waiting" THEN "idle"
                          ELSE IF f = "ghost" THEN "idle" ELSE @]

\* The waiters in order, whomever they wait for.
OldestWaiter(d) == 1

\* The waiter an answer is given to: the first of its delegate, or else the first.
WaiterFor(d) ==
  LET mine == {n \in DOMAIN pendingDelegate : DelegateOf(pc[pendingDelegate[n]]) = d}
  IN IF mine = {} THEN 1 ELSE Min(mine)

\* What a delegate says: a ghost key may be denied, or there is none, and a node may
\* acknowledge a request without an answer.
Replies(request) ==
  IF request.step = "proving" THEN {"proving", "denied"} ELSE {request.step}

\* What f does with a reply; any but the one it expects is an error.
Resume(f, reply, d, line, requests) ==
  IF pc[f] # reply
    THEN /\ pc' = Failed(f) /\ pendingDelegate' = line /\ asked' = requests
         /\ UNCHANGED <<view, job, sendVars>>
  ELSE CASE reply = "challenging" ->
              /\ IF f = "start" THEN Challenged(line, requests)
                 ELSE DelegateRoundTrip(f, "proving", NoDelta, line, requests)
              /\ UNCHANGED <<view, job, sendVars>>
         [] reply = "probing" ->
              /\ pc' = [pc EXCEPT ![f] = "done"]
              /\ pendingDelegate' = line /\ asked' = requests
              /\ UNCHANGED <<view, job, sendVars>>
         [] reply = "proving" -> Proved(f, line, requests) /\ UNCHANGED <<view, sendVars>>
         [] reply = "signing" ->
              Signed(f, d) /\ pendingDelegate' = line /\ asked' = requests

\* onDelegateResponse; without a waiter an answer is dropped.
OnDelegateResponse(d) ==
  /\ asked[d] # <<>>
  /\ LET rest == [asked EXCEPT ![d] = Tail(@)]
         n    == WaiterFor(d)
     IN IF pendingDelegate = <<>>
          THEN asked' = rest /\ UNCHANGED <<pendingDelegate, pc, view, job, sendVars>>
          ELSE \E reply \in Replies(Head(asked[d])) :
                 Resume(pendingDelegate[n], reply, Head(asked[d]).delta,
                        RemoveAt(pendingDelegate, n), rest)
  /\ UNCHANGED <<time, registry, inbox, acts, pushes, misled, setBack>>

\* failNextDelegate.
FailNextDelegate ==
  /\ pendingDelegate # <<>>
  /\ pendingDelegate' = Tail(pendingDelegate)
  /\ pc' = Failed(Head(pendingDelegate))
  /\ misled' = TRUE

\* onErr: of the host, for the request to a delegate or for an update.
OnErr ==
  /\ FailNextDelegate
  /\ \/ \E d \in Delegates : asked[d] # <<>> /\ asked' = [asked EXCEPT ![d] = Tail(@)]
     \/ (\E f \in Flows : pc[f] = "sending") /\ UNCHANGED asked
  /\ UNCHANGED <<time, registry, view, inbox, job, sendVars, acts, pushes, setBack>>

\* A waiter that stays in line.
TimeoutInLine(f) ==
  /\ pc[f] \in Asking
  /\ pc' = Failed(f) /\ misled' = TRUE
  /\ UNCHANGED <<pendingDelegate, time, registry, view, inbox, job, asked, sendVars, acts,
                 pushes, setBack>>

\* awaitDelegateResponse gives up.
TimeoutAsk(f) ==
  /\ pc[f] \in Asking
  /\ \E n \in DOMAIN pendingDelegate :
       pendingDelegate[n] = f /\ pendingDelegate' = RemoveAt(pendingDelegate, n)
  /\ pc' = Failed(f) /\ misled' = TRUE
  /\ UNCHANGED <<time, registry, view, inbox, job, asked, sendVars, acts, pushes, setBack>>

-----------------------------------------------------------------------------
(* Updates, and what the node tells *)

\* What the properties ask of a job that ended.
Ended(f, acked) ==
  [job[f] EXCEPT !.want = NoDelta, !.got = IF f \in Edits THEN @ ELSE NoDelta,
                 !.acked = acked /\ f \in Edits \cup {"upgrade"}]

\* updateWithRetry returns: an admission is shown, an edit already is.
Returns(f) ==
  /\ pc[f] = "sending"
  /\ job' = [job EXCEPT ![f] = Ended(f, TRUE)]
  /\ view' = IF f \in Edits THEN view ELSE ApplyRegistryDelta(view, job[f].got)
  /\ pc' = OnRegistry([pc EXCEPT ![f] = IF f = "upgrade" THEN "idle" ELSE "done"], view')
  /\ UNCHANGED <<time, inbox, askVars, sent, acts, pushes, setBack>>

\* The update was applied.
Acknowledge(f) ==
  /\ Returns(f)
  /\ registry' = ApplyDelta(registry, job[f].got)
  /\ UNCHANGED crossed

\* The page has sent another update: to the registry, or, once its user is admitted
\* (as after an update of another page), a placement or a message.
SharesLine(f) == sent # {job[f].got} \/ Admitted(registry[Me])

\* It was not: the response was to another update, whose promise f's was taken for.
\* f's own is lost or refused, or may be applied yet.
AcknowledgeForOther(f) ==
  /\ Returns(f) /\ SharesLine(f)
  /\ ApplyDelta(registry, job[f].got) # registry
  /\ crossed' = crossed \cup {f}
  /\ UNCHANGED registry

\* updateWithRetry throws; what was sent may be applied yet.
GiveUp(f) ==
  /\ pc[f] = "sending"
  /\ pc' = Failed(f) /\ job' = [job EXCEPT ![f] = Ended(f, FALSE)]
  /\ UNCHANGED <<time, registry, view, inbox, askVars, sendVars, acts, pushes, setBack>>

\* The registry contract applies an update, first or again.
Apply(d) ==
  /\ registry' = ApplyDelta(registry, d) /\ registry' # registry
  /\ UNCHANGED <<time, view, inbox, pc, job, askVars, sendVars, acts, pushes, setBack>>

\* Another page of the identity was admitted by work or renamed, from what it knew; the
\* node hears of it now.
Elsewhere ==
  /\ Act
  /\ \E d \in (UNION {Admissions("pow", ts, {0}) : ts \in 1 .. time'})
              \cup (IF ~Admitted(registry[Me]) THEN {}
                    ELSE UNION {Renamings(v) : v \in 1 .. registry[Me].nickname.version + 1}) :
       sent' = sent \cup {d} /\ registry' = ApplyDelta(registry, d)
  /\ UNCHANGED <<view, inbox, pc, job, askVars, crossed, pushes, setBack>>

Merged(v) ==
  /\ pc["start"] # "idle"
  /\ view' = v /\ pc' = OnRegistry(pc, v)
  /\ UNCHANGED <<time, registry, inbox, job, askVars, sendVars, acts, pushes, setBack>>

\* refreshAll merges the state that the node has; an older one would add less.
Refresh == Merged(MergeIntoView(view, registry))

\* The page is told of a delta.
ToldOf(d) == ApplyDelta(registry, d) = registry /\ Merged(ApplyRegistryDelta(view, d))

\* A full state is on its way: of a notification, or because the page syncs again.
Push ==
  /\ pc["start"] # "idle" /\ pushes < MaxPushes /\ pushes' = pushes + 1
  /\ inbox' = Append(inbox, registry)
  /\ UNCHANGED <<time, registry, view, pc, job, askVars, sendVars, acts, setBack>>

\* It replaces the view.
ReceiveState ==
  /\ inbox # <<>>
  /\ inbox' = Tail(inbox)
  /\ view' = DecodeRegistryState(Head(inbox)) /\ pc' = OnRegistry(pc, view')
  /\ setBack' = (\/ setBack
                 \/ Unlocked(view) /\ ~Unlocked(view')
                 \/ view'[Me].nicknameVersion < view[Me].nicknameVersion)
  /\ UNCHANGED <<time, registry, job, askVars, sendVars, acts, pushes>>

Users == Connect \/ ClickGhostkey \/ ClickUpgrade \/ \E e \in Edits : SetNickname(e)

Timeouts == \E f \in Flows : TimeoutAsk(f)

Sendings == \E f \in Flows : GiveUp(f) \/ Acknowledge(f) \/ AcknowledgeForOther(f)

PageNext ==
  \/ Users \/ FindNonce \/ Timeouts \/ Sendings
  \/ OnErr \/ \E d \in Delegates : OnDelegateResponse(d)
  \/ \E d \in sent : Apply(d) \/ ToldOf(d)
  \/ Elsewhere \/ Refresh \/ Push \/ ReceiveState

\* The timers of the page go off, its worker finds a nonce, updateWithRetry ends (see
\* Placing), and the node answers the refreshes.
PageFairness ==
  /\ WF_pageVars(Timeouts) /\ WF_pageVars(FindNonce) /\ WF_pageVars(Sendings)
  /\ WF_pageVars(ReceiveState) /\ WF_pageVars(Refresh)

PageSpec == PageInit /\ [][PageNext]_pageVars /\ PageFairness

-----------------------------------------------------------------------------
(* Properties *)

Views == [Authors -> ShownRecords]

Steps == Asking \cup {"idle", "unneeded", "ready", "waiting", "searching", "stopped",
                     "sending", "done", "failed"}

JobRecords == [want : Deltas, got : Deltas, seen : Nat, after : SUBSET Edits,
               acked : BOOLEAN]

Requests == [step : Asking, delta : Deltas]

\* The types; the waiters in line are the flows that are asking.
PageTypeOK ==
  /\ time \in 1 .. MaxTime /\ registry \in Registries /\ view \in Views
  /\ inbox \in Seq(Registries) /\ Len(inbox) <= MaxPushes
  /\ pc \in [Flows -> Steps]
  /\ job \in [Flows -> JobRecords] /\ sent \subseteq Deltas
  /\ crossed \subseteq Flows
  /\ asked \in [Delegates -> Seq(Requests)]
  /\ pendingDelegate \in Seq(Flows) /\ IsInjective(pendingDelegate)
  /\ ToSet(pendingDelegate) = {f \in Flows : pc[f] \in Asking}

\* An answer finds the flow that asked for it, however the two delegates' answers
\* overtake each other; only a waiter that left the line unanswered opens it to
\* another's.  (awaitDelegateResponse: the key "scopes the waiter to that
\* delegate's responses".)
SendsWhatItAsked ==
  \A f \in Flows : pc[f] = "sending" => misled \/ job[f].got = job[f].want

\* What a page shows of its user is in the registry of its node, but for the edits it
\* has sent: no admission is shown, and nothing unlocked by one, before there is one,
\* unless the response to another update acknowledged it.
\* ("Optimistic: ... a fresh admission must unlock the UI immediately".)
ShowsWhatIsKept ==
  misled \/ ~(crossed \subseteq Edits) \/ ~Unlocked(view) \/
    /\ Admitted(registry[Me]) /\ view[Me].admittedTs >= registry[Me].core.ts
    /\ \/ view[Me].nicknameVersion <= registry[Me].nickname.version
       \/ \E e \in Edits : job[e].got.nicknames[Me].version = view[Me].nicknameVersion

\* An upgrade that is acknowledged, and not by the response to another update, gives
\* the tier of a ghost key, and keeps it, unless there is an admission by work from
\* before the one that the page knew.  ("re-admits with a timestamp one below the
\* existing one to win that merge".)
UpgradeWins ==
  LET up == job["upgrade"]
      Older(d) == LET c == d.admissions[Me].core IN c.tier = "pow" /\ c.ts < up.seen
  IN up.acked => \/ registry[Me].core.tier = "ghostkey" \/ misled
                 \/ "upgrade" \in crossed \/ up.seen = 0 \/ \E d \in sent : Older(d)

\* Of two edits of a page the one that was made when the other was shown stays, even
\* if it is signed, sent or applied before the other, unless an older state replaced
\* the view, or the response to another update acknowledged it, or the admission that
\* the user was renamed after.  ("Nickname edits ride the registry's monotonic version
\* counter".)
LastEditWins ==
  \A e, f \in Edits :
    /\ e \in job[f].after /\ job[f].acked
    /\ ~misled /\ ~setBack /\ crossed \subseteq Edits \ {f}
    => registry[Me].nickname # job[e].got.nicknames[Me]

\* An onboarding ends: with an admission that the page shows for good, or with the
\* failure of the challenge or of the admission by work, of which the user is told;
\* unless an admission was acknowledged by the response to another update.
OnboardingEnds ==
  <>[](\/ Unlocked(view) \/ pc["start"] \in {"idle", "failed"} \/ pc["work"] = "failed"
       \/ crossed \cap {"work", "ghost"} # {})

\* In the end the page shows the admission and the version of the nickname that the
\* node has, but for an edit that failed, which it goes on showing, and for what was
\* acknowledged by the response to another update.
ViewCatchesUp ==
  <>[](\/ pc["start"] = "idle" \/ \E e \in Edits : pc[e] = "failed" \/ crossed # {}
       \/ /\ view[Me].admittedTs = registry[Me].core.ts
          /\ view[Me].nicknameVersion = registry[Me].nickname.version)
=============================================================================
