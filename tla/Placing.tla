------------------------------- MODULE Placing -------------------------------
(***************************************************************************)
(* What a page sends: placePixel of web/src/main.ts with its cooldown, and *)
(* placePixel, sendChat, updateWithRetry and updateOrPut of RealBackend,   *)
(* over the line of delegate waiters of web/src/freenet-api.ts and the SDK *)
(* beneath.  A job is a placement or a message; the entry that the         *)
(* delegate signs for it goes by the job's number.  Time passes between    *)
(* the user's clicks, and any timer may go off at any time.                *)
(***************************************************************************)
EXTENDS Naturals, Sequences, SequencesExt, FiniteSetsExt

CONSTANTS Tiles, Chat,     \* the contracts that jobs go to
          Cooldown, QuickAttempts,   \* tierCooldownSecs; attempts that are always made
          MaxJobs, MaxAttempts, MaxTime, MaxConns,   \* bounds
          Wanted(_)   \* bound: the contracts that the user may turn to with the n-th job

Jobs == 1 .. MaxJobs
NoJob == 0   \* nothing signed, nobody waiting
Items == Tiles \cup {Chat}
Kinds == {"update", "put"}
Sending == {"update", "get", "put", "pausing"}

ASSUME NamesAssumption == Chat \notin Tiles
ASSUME BoundsAssumption ==
  /\ {Cooldown, MaxJobs, MaxTime} \subseteq Nat
  /\ {QuickAttempts, MaxAttempts, MaxConns} \subseteq Nat \ {0}

VARIABLES now, cooldownUntil,
          pc,        \* what a job is waiting for
          job,       \* of a job: its contract, time, signed entry, attempts
          pendingDelegate,   \* the waiters, oldest first
          asked,     \* the requests that the delegate has not answered
          calls,     \* the SDK's promises of updates and puts, oldest first
          wire,      \* the updates and puts that the node has not served
          putFirst,  \* contracts whose update failed before
          node,      \* the entries that a contract has
          conn,      \* connections made
          misled,    \* history: a waiter went without an answer of its delegate
          crossed    \* history: a job met promises or requests of another

askVars == <<pendingDelegate, asked>>
sendVars == <<calls, wire, putFirst>>
vars == <<now, cooldownUntil, pc, job, askVars, sendVars, node, conn, misled, crossed>>

\* attempt counts those that failed; first: the first alternative of updateOrPut.
NewJob(i, t) == [item |-> i, ts |-> t, signed |-> NoJob, attempt |-> 0, first |-> TRUE]

Init ==
  /\ now = 0 /\ cooldownUntil = 0 /\ conn = 1
  /\ pc = [w \in Jobs |-> "idle"]
  /\ job = [j \in Jobs |-> NewJob(Chat, 0)]
  /\ pendingDelegate = <<>> /\ asked = <<>>
  /\ calls = [k \in Kinds |-> <<>>] /\ wire = {} /\ putFirst = {}
  /\ node = [i \in Items |-> {}] /\ misled = FALSE /\ crossed = FALSE

-----------------------------------------------------------------------------
(* Asking for a signature *)

\* awaitDelegateResponse, then the request.
Ask(j) ==
  /\ pc' = [pc EXCEPT ![j] = "asking"]
  /\ pendingDelegate' = Append(pendingDelegate, j)
  /\ asked' = Append(asked, j)

\* The next job of the page, some time after the one before.
Later(j) ==
  /\ pc[j] = "idle" /\ \A k \in Jobs : k < j => pc[k] # "idle"
  /\ now' \in now .. MaxTime

\* A page that starts the cooldown when the placement is through.
PlaceUnguarded(j, i) ==
  /\ i \in Wanted(j) /\ Later(j) /\ now' >= cooldownUntil
  /\ UNCHANGED cooldownUntil
  /\ job' = [job EXCEPT ![j] = NewJob(i, now')]
  /\ Ask(j)
  /\ UNCHANGED <<sendVars, node, conn, misled, crossed>>

\* placePixel of the page: the cooldown starts before anything is sent.
Place(j, i) ==
  /\ i \in Wanted(j) /\ Later(j) /\ now' >= cooldownUntil
  /\ cooldownUntil' = now' + Cooldown
  /\ job' = [job EXCEPT ![j] = NewJob(i, now')]
  /\ Ask(j)
  /\ UNCHANGED <<sendVars, node, conn, misled, crossed>>

\* sendChat.
Say(j) ==
  /\ Chat \in Wanted(j) /\ Later(j)
  /\ job' = [job EXCEPT ![j] = NewJob(Chat, now')]
  /\ Ask(j)
  /\ UNCHANGED <<cooldownUntil, sendVars, node, conn, misled, crossed>>

-----------------------------------------------------------------------------
(* updateOrPut and updateWithRetry *)

\* A request for j's contract; its promise waits in line, after those in line.
Send(j, kind, entries, line) ==
  /\ calls' = [line EXCEPT ![kind] = Append(@, j)]
  /\ wire' = wire \cup {[kind |-> kind, item |-> job[j].item, entries |-> entries,
                         by |-> j, attempt |-> job[j].attempt]}

\* An alternative starts with its update, or with its fetch.
Enter(j, phase, r, line) ==
  /\ pc' = [pc EXCEPT ![j] = phase] /\ job' = [job EXCEPT ![j] = r]
  /\ IF phase = "update" THEN Send(j, "update", {r.signed}, line)
                         ELSE calls' = line /\ UNCHANGED wire

StartAttempt(j, r) ==
  Enter(j, IF r.item \in putFirst THEN "get" ELSE "update", [r EXCEPT !.first = TRUE], calls)

\* The SDK keeps a promise in line that its job no longer waits for.
Abandoned(j) == [k \in Kinds |-> [n \in DOMAIN calls[k] |->
                  IF calls[k][n] = j THEN NoJob ELSE calls[k][n]]]

\* The error of a placement ends the page's cooldown.
EndCooldown(w) == cooldownUntil' = IF job[w].item \in Tiles THEN 0 ELSE cooldownUntil

\* Three attempts, and more within the lag window: to the model, whether it is over
\* is open until MaxAttempts are made.
AttemptFails(j) ==
  /\ calls' = Abandoned(j) /\ UNCHANGED wire
  /\ \/ /\ job[j].attempt + 1 >= QuickAttempts
        /\ pc' = [pc EXCEPT ![j] = "failed"] /\ EndCooldown(j)
        /\ UNCHANGED job
     \/ /\ job[j].attempt + 1 < MaxAttempts
        /\ pc' = [pc EXCEPT ![j] = "pausing"]
        /\ job' = [job EXCEPT ![j].attempt = @ + 1]
        /\ UNCHANGED cooldownUntil

\* One alternative is tried, and its error is not looked at.
ErrorSwallowed(j) ==
  /\ calls' = Abandoned(j) /\ pc' = [pc EXCEPT ![j] = "done"]
  /\ UNCHANGED <<wire, job, cooldownUntil>>

\* The update after a put that failed, the put after an update.
AlternativeFails(j) ==
  IF job[j].first
    THEN /\ Enter(j, IF pc[j] = "update" THEN "get" ELSE "update",
                  [job[j] EXCEPT !.first = FALSE], Abandoned(j))
         /\ UNCHANGED cooldownUntil
    ELSE AttemptFails(j)

\* The update goes without a timeout.
TimeoutPut(j) ==
  /\ pc[j] \in {"get", "put"}
  /\ AlternativeFails(j)
  /\ UNCHANGED <<now, askVars, putFirst, node, conn, misled, crossed>>

\* withTimeout, on a call that has no answer or that throws.
TimeoutCall(j) ==
  /\ pc[j] \in {"update", "get", "put"}
  /\ AlternativeFails(j)
  /\ UNCHANGED <<now, askVars, putFirst, node, conn, misled, crossed>>

\* The pause after a failed attempt ends.
Retry(j) ==
  /\ pc[j] = "pausing"
  /\ StartAttempt(j, job[j])
  /\ UNCHANGED <<now, cooldownUntil, askVars, putFirst, node, conn, misled, crossed>>

\* The state fetched is merged with the delta and put.
Fetched(j) ==
  /\ pc[j] = "get"
  /\ pc' = [pc EXCEPT ![j] = "put"]
  /\ Send(j, "put", node[job[j].item] \cup {job[j].signed}, calls)
  /\ UNCHANGED <<now, cooldownUntil, job, askVars, putFirst, node, conn, misled, crossed>>

-----------------------------------------------------------------------------
(* Answers of the delegate *)

\* The latest to ask.
NewestWaiter == Len(pendingDelegate)

\* The waiter that an answer is given to: here all wait for one delegate.
WaiterFor == 1

\* expectVariant: an answer for job s is of the kind that w asked for.
Fits(w, s) == (job[w].item = Chat) = (job[s].item = Chat)

\* The entry is shown with the job's contract, and the first attempt starts.
Signed(j, s) ==
  /\ StartAttempt(j, [job[j] EXCEPT !.signed = s])
  /\ crossed' = (\/ crossed
                  \/ wire # {} \/ \E kind \in Kinds : calls[kind] # <<>>
                  \/ \E k \in Jobs : pc[k] \in Sending)
  /\ UNCHANGED cooldownUntil

\* The delegate answers with an error, or with a signature of the other kind.
GiveUp(w) ==
  /\ pc' = [pc EXCEPT ![w] = "failed"] /\ EndCooldown(w)
  /\ UNCHANGED <<job, calls, wire, crossed>>

\* onDelegateResponse; an answer that finds no waiter is dropped.
OnDelegateResponse ==
  /\ asked # <<>>
  /\ asked' = Tail(asked)
  /\ IF pendingDelegate = <<>>
       THEN UNCHANGED <<pendingDelegate, pc, job, cooldownUntil, calls, wire, crossed>>
       ELSE LET w == pendingDelegate[WaiterFor]
            IN /\ pendingDelegate' = RemoveAt(pendingDelegate, WaiterFor)
               /\ \/ Fits(w, Head(asked)) /\ Signed(w, Head(asked))
                  \/ GiveUp(w)
  /\ UNCHANGED <<now, putFirst, node, conn, misled>>

\* failNextDelegate, for a contract that was not found and for every error of the
\* host, whatever it is about; an error that finds no waiter is as good as none.
FailNextDelegate ==
  /\ pendingDelegate # <<>>
  /\ pendingDelegate' = Tail(pendingDelegate)
  /\ pc' = [pc EXCEPT ![Head(pendingDelegate)] = "failed"]
  /\ EndCooldown(Head(pendingDelegate))
  /\ misled' = TRUE

\* The host answers a request with an error: no such delegate, or it failed.
AskRefused ==
  /\ asked # <<>>
  /\ asked' = Tail(asked)
  /\ FailNextDelegate
  /\ UNCHANGED <<now, job, sendVars, node, conn, crossed>>

\* awaitDelegateResponse gives up; a waiter of an earlier connection is in line no more.
TimeoutAsk(w) ==
  /\ pc[w] = "asking"
  /\ \/ \E n \in DOMAIN pendingDelegate :
          pendingDelegate[n] = w /\ pendingDelegate' = RemoveAt(pendingDelegate, n)
     \/ w \notin ToSet(pendingDelegate) /\ UNCHANGED pendingDelegate
  /\ pc' = [pc EXCEPT ![w] = "failed"] /\ EndCooldown(w)
  /\ misled' = TRUE
  /\ UNCHANGED <<now, job, asked, sendVars, node, conn, crossed>>

-----------------------------------------------------------------------------
(* The node and the network *)

\* Whatever is signed for another contract is refused.
Valid(r) == \A e \in r.entries : job[e].item = r.item

\* An answer resolves the oldest promise of its kind; whether the SDK gives one up
\* that is waited for no more is open.
Acknowledge(kind) ==
  \E n \in 0 .. Len(calls[kind]) :
    LET line == SubSeq(calls[kind], n + 1, Len(calls[kind]))
    IN /\ \A m \in 1 .. n : calls[kind][m] = NoJob
       /\ IF line = <<>>
          THEN calls' = [calls EXCEPT ![kind] = <<>>] /\ UNCHANGED <<pc, putFirst>>
          ELSE LET j == Head(line)
               IN /\ calls' = [calls EXCEPT ![kind] = Tail(line)]
                  /\ pc' = IF j = NoJob THEN pc ELSE [pc EXCEPT ![j] = "done"]
                  /\ putFirst' = IF j = NoJob \/ kind = "update" THEN putFirst
                                 ELSE putFirst \cup {job[j].item}

\* The contract merges what it is sent, a put as well.
Serve(r) ==
  /\ r \in wire /\ Valid(r)
  /\ wire' = wire \ {r}
  /\ node' = [node EXCEPT ![r.item] = @ \cup r.entries]
  /\ Acknowledge(r.kind)
  /\ UNCHANGED <<now, cooldownUntil, job, askVars, conn, misled, crossed>>

\* Off the update mesh, or not admitted yet, or not valid: an error, which resolves
\* no promise of the SDK.
Refuse(r) ==
  /\ r \in wire
  /\ wire' = wire \ {r}
  /\ FailNextDelegate
  /\ UNCHANGED <<now, job, asked, calls, putFirst, node, conn, crossed>>

\* The connection is lost and made again: of what was sent some is served, and
\* nothing is answered.  One waiter is told.
Reconnect ==
  /\ conn < MaxConns
  /\ conn' = conn + 1
  /\ \E served \in SUBSET {r \in wire : Valid(r)} :
       node' = [i \in Items |->
         node[i] \cup UNION {r.entries : r \in {q \in served : q.item = i}}]
  /\ wire' = {} /\ calls' = [k \in Kinds |-> <<>>]
  /\ asked' = <<>> /\ pendingDelegate' = <<>>
  /\ IF pendingDelegate = <<>> THEN UNCHANGED <<pc, cooldownUntil>>
     ELSE LET w == Head(pendingDelegate)
          IN pc' = [pc EXCEPT ![w] = "failed"] /\ EndCooldown(w)
  /\ UNCHANGED <<now, job, putFirst, misled, crossed>>

Users ==
  \/ \E j \in Jobs : Say(j) \/ \E i \in Tiles : Place(j, i)

Timeouts ==
  \E j \in Jobs : TimeoutCall(j) \/ Retry(j) \/ TimeoutAsk(j)

Answers ==
  \/ OnDelegateResponse \/ AskRefused
  \/ \E j \in Jobs : Fetched(j)
  \/ \E r \in wire : Serve(r) \/ Refuse(r)
  \/ Reconnect

Next == Users \/ Timeouts \/ Answers

SafeSpec == Init /\ [][Next]_vars

\* The timers of the page go off; nobody has to answer.
Spec == SafeSpec /\ WF_vars(Timeouts)

-----------------------------------------------------------------------------
(* Properties *)

JobRecords ==
  [item : Items, ts : 0 .. MaxTime, signed : Jobs \cup {NoJob},
   attempt : 0 .. MaxAttempts - 1, first : BOOLEAN]

Requests == [kind : Kinds, item : Items, entries : SUBSET Jobs,
             by : Jobs, attempt : 0 .. MaxAttempts - 1]

\* The types; no job makes more attempts than the lag window has room for, and what
\* is sent is signed.
TypeOK ==
  /\ now \in 0 .. MaxTime /\ cooldownUntil \in 0 .. MaxTime + Cooldown
  /\ pc \in [Jobs -> {"idle", "asking", "done", "failed"} \cup Sending]
  /\ job \in [Jobs -> JobRecords]
  /\ \A j \in Jobs : pc[j] \in Sending => job[j].signed \in Jobs
  /\ pendingDelegate \in Seq(Jobs) /\ asked \in Seq(Jobs)
  /\ calls \in [Kinds -> Seq(Jobs \cup {NoJob})]
  /\ wire \subseteq Requests
  /\ putFirst \subseteq Items
  /\ node \in [Items -> SUBSET Jobs] /\ conn \in 1 .. MaxConns
  /\ {misled, crossed} \subseteq BOOLEAN

\* What the page takes for sent is in its contract and stays there, whichever
\* alternatives and attempts it took, while timeouts, refusals and late answers
\* leave dead promises in the SDK's lines.  It takes two jobs at once, or one while
\* an earlier one still has promises or requests without an answer, to be told of
\* another's success (the "arrival-order FIFO with no correlation" of backend.ts).
AcknowledgedIsKept ==
  \A j \in Jobs : pc[j] = "done" => crossed \/ job[j].signed \in node[job[j].item]

\* A job shows and sends the signature that it asked for.  It takes a waiter that
\* left the line before its answer, by a timeout or by an error that was not its
\* own, to be handed another's.  (awaitDelegateResponse: "so the response cannot
\* race the registration".)
SignsWhatWasAsked ==
  \A j \in Jobs : job[j].signed \in {NoJob, j} \/ misled

\* Two placements that are both in the contracts are a cooldown apart, on whichever
\* tiles, unless the page reported a failure: one that was applied although it was
\* reported ends the cooldown as well.  ("this app enforces the true global
\* cooldown", the FAQ of main.ts.)
CooldownKept ==
  \A j, k \in Jobs :
    /\ j # k /\ \E i, h \in Tiles : j \in node[i] /\ k \in node[h]
    /\ job[j].ts \in job[k].ts .. job[k].ts + Cooldown - 1
    => \E l \in Jobs : pc[l] = "failed"

\* Whatever the delegate and the node leave unanswered, every job ends, one way or
\* the other: no loop of retries hangs on one lost response (withTimeout).
EveryJobEnds == <>[](\A j \in Jobs : pc[j] \in {"idle", "done", "failed"})
=============================================================================
