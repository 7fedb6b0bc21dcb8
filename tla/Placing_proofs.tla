---------------------------- MODULE Placing_proofs ----------------------------
(***************************************************************************)
(* What holds of a page for any number of jobs, tiles, attempts and        *)
(* connections.  A job sends nothing but the signature that it asked for,  *)
(* as long as no waiter has left the line before its answer came (Inv).    *)
(* What is taken for sent is in its contract as long as no two jobs met,   *)
(* and placements keep the cooldown until one fails (Further): both rest   *)
(* on the waiters' line and the SDK's lines never holding a job that has   *)
(* gone on.  And every job does go on: no step takes one back, and Stage   *)
(* bounds how many there are (JobsGoOnward).                               *)
(***************************************************************************)
EXTENDS Placing, SequenceTheorems, TLAPS

\* The line without one of its waiters.
LEMMA RemovedWaiter ==
  ASSUME NEW S, NEW s \in Seq(S), NEW n \in DOMAIN s
  PROVE  RemoveAt(s, n) \in Seq(S) /\ (n = 1 => RemoveAt(s, n) = Tail(s))
<1>1. SubSeq(s, 1, n - 1) \in Seq(S) /\ SubSeq(s, n + 1, Len(s)) \in Seq(S)
  <2>1. n \in 1 .. Len(s) /\ Len(s) \in Nat /\ \A i \in 1 .. Len(s) : s[i] \in S
    OBVIOUS
  <2>2. /\ 1 \in Int /\ n - 1 \in Int /\ n + 1 \in Int /\ Len(s) \in Int
        /\ \A i \in 1 .. n - 1 : s[i] \in S
        /\ \A i \in n + 1 .. Len(s) : s[i] \in S
    BY <2>1
  <2> QED BY <2>2, SubSeqProperties
<1>2. RemoveAt(s, n) \in Seq(S)
  BY <1>1 DEF RemoveAt
<1>3. ASSUME n = 1 PROVE RemoveAt(s, n) = Tail(s)
  <2>1. SubSeq(s, 1, 0) = <<>> /\ SubSeq(s, 2, Len(s)) = Tail(s)
    <3>1. s # <<>>
      OBVIOUS
    <3>2. 1 \in Int /\ 0 \in Int /\ 0 < 1
      OBVIOUS
    <3>3. SubSeq(s, 1, 0) = <<>>
      BY <3>2, SubSeqEmpty
    <3> QED BY <3>1, <3>3, TailIsSubSeq
  <2>2. <<>> \o Tail(s) = Tail(s)
    OBVIOUS
  <2> QED BY <1>3, <2>1, <2>2 DEF RemoveAt
<1> QED BY <1>2, <1>3

\* The line without one of its waiters: nobody else goes.
LEMMA RemovedEntries ==
  ASSUME NEW S, NEW s \in Seq(S), NEW n \in DOMAIN s, IsInjective(s)
  PROVE  /\ IsInjective(RemoveAt(s, n))
         /\ \A m \in DOMAIN RemoveAt(s, n) :
              \E i \in DOMAIN s : i # n /\ s[i] = RemoveAt(s, n)[m]
<1>1. n \in 1 .. Len(s) /\ Len(s) \in Nat /\ DOMAIN s = 1 .. Len(s)
  OBVIOUS
<1> DEFINE a == SubSeq(s, 1, n - 1)
           b == SubSeq(s, n + 1, Len(s))
<1>2. a \in Seq(S) /\ Len(a) = n - 1 /\ \A m \in 1 .. n - 1 : a[m] = s[m]
  <2>1. 1 \in Int /\ n - 1 \in Int /\ \A i \in 1 .. n - 1 : s[i] \in S
    BY <1>1
  <2>2. /\ a \in Seq(S) /\ Len(a) = IF 1 <= n - 1 THEN n - 1 - 1 + 1 ELSE 0
        /\ \A m \in 1 .. n - 1 - 1 + 1 : a[m] = s[1 + m - 1]
    BY <2>1, SubSeqProperties
  <2> HIDE DEF a
  <2> QED BY <1>1, <2>2
<1>3. /\ b \in Seq(S) /\ Len(b) = Len(s) - n
      /\ \A m \in 1 .. Len(s) - n : b[m] = s[n + m]
  <2>1. n + 1 \in Int /\ Len(s) \in Int /\ \A i \in n + 1 .. Len(s) : s[i] \in S
    BY <1>1
  <2>2. /\ b \in Seq(S)
        /\ Len(b) = IF n + 1 <= Len(s) THEN Len(s) - (n + 1) + 1 ELSE 0
        /\ \A m \in 1 .. Len(s) - (n + 1) + 1 : b[m] = s[(n + 1) + m - 1]
    BY <2>1, SubSeqProperties
  <2> HIDE DEF b
  <2>3. ASSUME NEW m \in 1 .. Len(s) - n PROVE b[m] = s[n + m]
    <3>1. m \in 1 .. Len(s) - (n + 1) + 1 /\ (n + 1) + m - 1 = n + m
      BY <1>1
    <3> QED BY <2>2, <3>1
  <2> QED BY <1>1, <2>2, <2>3
<1>4. RemoveAt(s, n) = a \o b
  BY DEF RemoveAt
<1> HIDE DEF a, b
<1> DEFINE t == a \o b
<1>5. /\ DOMAIN t = 1 .. Len(s) - 1
      /\ \A m \in 1 .. Len(s) - 1 : t[m] = s[IF m < n THEN m ELSE m + 1]
  <2>1. /\ t \in Seq(S) /\ Len(t) = Len(a) + Len(b)
        /\ \A m \in 1 .. Len(a) + Len(b) :
             t[m] = IF m <= Len(a) THEN a[m] ELSE b[m - Len(a)]
    BY <1>2, <1>3, ConcatProperties
  <2> HIDE DEF t
  <2>2. DOMAIN t = 1 .. Len(s) - 1 /\ Len(a) + Len(b) = Len(s) - 1
    BY <1>1, <1>2, <1>3, <2>1
  <2>3. ASSUME NEW m \in 1 .. Len(s) - 1, m < n PROVE t[m] = s[m]
    BY <1>1, <1>2, <2>1, <2>2, <2>3
  <2>4. ASSUME NEW m \in 1 .. Len(s) - 1, ~(m < n) PROVE t[m] = s[m + 1]
    <3>1. m - (n - 1) \in 1 .. Len(s) - n /\ n + (m - (n - 1)) = m + 1 /\ ~(m <= n - 1)
      BY <1>1, <2>4
    <3>2. t[m] = b[m - (n - 1)]
      BY <1>2, <2>1, <2>2, <3>1
    <3>3. b[m - (n - 1)] = s[n + (m - (n - 1))]
      BY <1>3, <3>1
    <3> QED BY <3>1, <3>2, <3>3
  <2> QED BY <2>2, <2>3, <2>4
<1> HIDE DEF t
<1> DEFINE at(m) == IF m < n THEN m ELSE m + 1
<1>6. /\ \A m \in 1 .. Len(s) - 1 : at(m) \in DOMAIN s /\ at(m) # n
      /\ \A l, m \in 1 .. Len(s) - 1 : at(l) = at(m) => l = m
  BY <1>1
<1>7. /\ DOMAIN t = 1 .. Len(s) - 1 /\ \A m \in 1 .. Len(s) - 1 : t[m] = s[at(m)]
  BY <1>5
<1> HIDE DEF at
<1>8. IsInjective(t) /\ \A m \in DOMAIN t : \E i \in DOMAIN s : i # n /\ s[i] = t[m]
  BY <1>6, <1>7 DEF IsInjective
<1> QED BY <1>4, <1>8 DEF t

LEMMA TailEntries ==
  ASSUME NEW S, NEW s \in Seq(S), s # <<>>, IsInjective(s)
  PROVE  /\ IsInjective(Tail(s))
         /\ \A m \in DOMAIN Tail(s) : \E i \in DOMAIN s : i # 1 /\ s[i] = Tail(s)[m]
<1>1. 1 \in DOMAIN s
  OBVIOUS
<1>2. RemoveAt(s, 1) = Tail(s)
  BY <1>1, RemovedWaiter
<1>3. /\ IsInjective(RemoveAt(s, 1))
      /\ \A m \in DOMAIN RemoveAt(s, 1) :
           \E i \in DOMAIN s : i # 1 /\ s[i] = RemoveAt(s, 1)[m]
  BY <1>1, RemovedEntries
<1> QED BY <1>2, <1>3

USE NamesAssumption, BoundsAssumption DEF Jobs, NoJob, Items, Kinds, Sending

Lines == [Kinds -> Seq(Jobs \cup {NoJob})]

Phases == {"idle", "asking", "done", "failed"} \cup Sending

\* What TypeOK says of the jobs and of what they send.
JobsOK ==
  /\ pc \in [Jobs -> Phases] /\ job \in [Jobs -> JobRecords]
  /\ \A j \in Jobs : pc[j] \in Sending => job[j].signed \in Jobs

SentOK ==
  /\ calls \in Lines
  /\ wire \subseteq Requests

WaitersOK == pendingDelegate \in Seq(Jobs) /\ asked \in Seq(Jobs)

RestOK ==
  /\ now \in 0 .. MaxTime /\ putFirst \subseteq Items
  /\ node \in [Items -> SUBSET Jobs] /\ conn \in 1 .. MaxConns
  /\ {misled, crossed} \subseteq BOOLEAN

CooldownOK == cooldownUntil \in 0 .. MaxTime + Cooldown

LEMMA Types ==
  TypeOK <=> /\ JobsOK /\ SentOK /\ WaitersOK /\ CooldownOK /\ RestOK
BY DEF TypeOK, JobsOK, SentOK, WaitersOK, CooldownOK, RestOK, Lines, Phases

LEMMA TypesNext ==
  TypeOK' <=> /\ JobsOK' /\ SentOK' /\ WaitersOK' /\ CooldownOK' /\ RestOK'
BY DEF TypeOK, JobsOK, SentOK, WaitersOK, CooldownOK, RestOK, Lines, Phases

LEMMA EndedCooldown ==
  ASSUME CooldownOK, NEW w \in Jobs, EndCooldown(w)
  PROVE  CooldownOK'
BY DEF CooldownOK, EndCooldown

LEMMA NewJobType ==
  ASSUME NEW i \in Items, NEW t \in 0 .. MaxTime
  PROVE  NewJob(i, t) \in JobRecords
BY DEF NewJob, JobRecords

\* A job that asks, with whatever record.
LEMMA AskTypes ==
  ASSUME JobsOK, WaitersOK, NEW j \in Jobs, NEW r \in JobRecords,
         job' = [job EXCEPT ![j] = r], Ask(j)
  PROVE  JobsOK' /\ WaitersOK'
BY DEF JobsOK, WaitersOK, Ask, Phases

\* A job that comes to an end.
LEMMA EndTypes ==
  ASSUME JobsOK, NEW j \in Jobs, NEW end \in {"done", "failed"},
         pc' = [pc EXCEPT ![j] = end], UNCHANGED job
  PROVE  JobsOK'
BY DEF JobsOK, Phases

LEMMA AbandonedType ==
  ASSUME calls \in Lines, NEW j \in Jobs
  PROVE  Abandoned(j) \in Lines
<1>1. ASSUME NEW k \in Kinds
      PROVE  [n \in DOMAIN calls[k] |-> IF calls[k][n] = j THEN NoJob ELSE calls[k][n]]
               \in Seq(Jobs \cup {NoJob})
  <2>1. calls[k] \in Seq(Jobs \cup {NoJob})
    BY DEF Lines
  <2>2. /\ Len(calls[k]) \in Nat /\ DOMAIN calls[k] = 1 .. Len(calls[k])
        /\ \A n \in DOMAIN calls[k] : calls[k][n] \in Jobs \cup {NoJob}
    BY <2>1
  <2> QED BY <2>2
<1> QED BY <1>1 DEF Abandoned, Lines

\* A request of a job, after those in line.
LEMMA SendTypes ==
  ASSUME JobsOK, SentOK, NEW j \in Jobs, NEW kind \in Kinds, NEW entries \in SUBSET Jobs,
         NEW line \in Lines, Send(j, kind, entries, line)
  PROVE  SentOK'
<1>1. job[j].item \in Items /\ job[j].attempt \in 0 .. MaxAttempts - 1
  BY DEF JobsOK, JobRecords
<1>2. Append(line[kind], j) \in Seq(Jobs \cup {NoJob})
  BY DEF Lines
<1>3. calls' \in Lines
  BY <1>2 DEF Send, Lines
<1>4. [kind |-> kind, item |-> job[j].item, entries |-> entries,
       by |-> j, attempt |-> job[j].attempt] \in Requests
  BY <1>1 DEF Requests
<1> QED BY <1>3, <1>4 DEF Send, SentOK

LEMMA EnterTypes ==
  ASSUME JobsOK, SentOK, NEW j \in Jobs, NEW phase \in {"update", "get"},
         NEW r \in JobRecords, r.signed \in Jobs, NEW line \in Lines,
         Enter(j, phase, r, line)
  PROVE  JobsOK' /\ SentOK'
<1>1. JobsOK'
  BY DEF Enter, JobsOK, Phases
<1>2. CASE phase = "update"
  <2>1. Send(j, "update", {r.signed}, line)
    BY <1>2 DEF Enter
  <2> QED BY <1>1, <2>1, SendTypes
<1>3. CASE phase # "update"
  BY <1>1, <1>3 DEF Enter, SentOK
<1> QED BY <1>2, <1>3

LEMMA StartTypes ==
  ASSUME JobsOK, SentOK, NEW j \in Jobs, NEW r \in JobRecords, r.signed \in Jobs,
         StartAttempt(j, r)
  PROVE  JobsOK' /\ SentOK'
<1> DEFINE s == [r EXCEPT !.first = TRUE]
<1>1. s \in JobRecords /\ s.signed = r.signed
  BY DEF JobRecords
<1>2. /\ calls \in Lines
      /\ \E phase \in {"update", "get"} : Enter(j, phase, s, calls)
  BY DEF StartAttempt, SentOK
<1> HIDE DEF s
<1> QED BY <1>1, <1>2, EnterTypes

LEMMA FailTypes ==
  ASSUME JobsOK, SentOK, CooldownOK, NEW j \in Jobs, pc[j] \in Sending, AlternativeFails(j)
  PROVE  JobsOK' /\ SentOK' /\ CooldownOK'
<1>1. /\ Abandoned(j) \in Lines /\ job[j] \in JobRecords /\ job[j].signed \in Jobs
      /\ job[j].attempt \in 0 .. MaxAttempts - 1
  BY AbandonedType DEF SentOK, JobsOK, JobRecords
<1>2. CASE job[j].first
  <2> DEFINE s == [job[j] EXCEPT !.first = FALSE]
  <2>1. s \in JobRecords /\ s.signed = job[j].signed
    BY <1>1 DEF JobRecords
  <2>2. /\ \E phase \in {"update", "get"} : Enter(j, phase, s, Abandoned(j))
        /\ UNCHANGED cooldownUntil
    BY <1>2 DEF AlternativeFails
  <2> HIDE DEF s
  <2> QED BY <1>1, <2>1, <2>2, EnterTypes DEF CooldownOK
<1>3. CASE ~job[j].first
  <2>1. calls' = Abandoned(j) /\ UNCHANGED wire
    BY <1>3 DEF AlternativeFails, AttemptFails
  <2>2. SentOK'
    BY <1>1, <2>1 DEF SentOK
  <2>3. CASE /\ pc' = [pc EXCEPT ![j] = "failed"] /\ EndCooldown(j)
             /\ UNCHANGED job
    BY <2>2, <2>3, EndTypes, EndedCooldown
  <2>4. CASE /\ job[j].attempt + 1 < MaxAttempts
             /\ pc' = [pc EXCEPT ![j] = "pausing"]
             /\ job' = [job EXCEPT ![j].attempt = @ + 1]
             /\ UNCHANGED cooldownUntil
    <3> DEFINE s == [job[j] EXCEPT !.attempt = @ + 1]
    <3>1. s \in JobRecords /\ s.signed = job[j].signed
      BY <1>1, <2>4 DEF JobRecords
    <3>2. job' = [job EXCEPT ![j] = s]
      BY <2>4
    <3> HIDE DEF s
    <3> QED BY <1>1, <2>2, <2>4, <3>1, <3>2 DEF JobsOK, Phases, CooldownOK
  <2> QED BY <1>3, <2>3, <2>4 DEF AlternativeFails, AttemptFails
<1> QED BY <1>2, <1>3

LEMMA FailKeepsSigned ==
  ASSUME JobsOK, NEW j \in Jobs, AlternativeFails(j)
  PROVE  \A k \in Jobs : job'[k].signed = job[k].signed
<1>1. job[j] \in JobRecords
  BY DEF JobsOK
<1>2. /\ [job[j] EXCEPT !.first = FALSE].signed = job[j].signed
      /\ [job[j] EXCEPT !.attempt = @ + 1].signed = job[j].signed
  BY <1>1 DEF JobRecords
<1>3. \/ job' = [job EXCEPT ![j] = [job[j] EXCEPT !.first = FALSE]]
      \/ job' = [job EXCEPT ![j] = [job[j] EXCEPT !.attempt = @ + 1]]
      \/ UNCHANGED job
  BY DEF AlternativeFails, AttemptFails, Enter
<1> QED BY <1>2, <1>3 DEF JobsOK

-----------------------------------------------------------------------------
\* The first waiter goes, with an error.
LEMMA FailNextTypes ==
  ASSUME JobsOK, WaitersOK, CooldownOK, UNCHANGED job, asked' \in Seq(Jobs),
         FailNextDelegate
  PROVE  JobsOK' /\ WaitersOK' /\ CooldownOK'
<1>1. Head(pendingDelegate) \in Jobs /\ Tail(pendingDelegate) \in Seq(Jobs)
  BY DEF WaitersOK, FailNextDelegate
<1>2. JobsOK' /\ CooldownOK'
  BY <1>1, EndTypes, EndedCooldown DEF FailNextDelegate
<1> QED BY <1>1, <1>2 DEF WaitersOK, FailNextDelegate

\* An answer goes to the first waiter.
LEMMA AnswerTypes ==
  ASSUME JobsOK, SentOK, WaitersOK, CooldownOK, OnDelegateResponse
  PROVE  /\ JobsOK' /\ SentOK' /\ WaitersOK' /\ CooldownOK'
         /\ \/ UNCHANGED <<pendingDelegate, job>>
               /\ pendingDelegate = <<>> /\ asked' = Tail(asked) /\ asked # <<>>
            \/ /\ asked # <<>> /\ pendingDelegate # <<>>
               /\ asked' = Tail(asked) /\ pendingDelegate' = Tail(pendingDelegate)
               /\ \A k \in Jobs :
                    \/ job'[k].signed = job[k].signed
                    \/ k = Head(pendingDelegate) /\ job'[k].signed = Head(asked)
<1> DEFINE w == Head(pendingDelegate)
           sig == Head(asked)
<1>1. asked # <<>> /\ asked' = Tail(asked) /\ Tail(asked) \in Seq(Jobs) /\ sig \in Jobs
  <2>1. asked # <<>> /\ asked' = Tail(asked)
    BY DEF OnDelegateResponse
  <2>2. asked \in Seq(Jobs)
    BY DEF WaitersOK
  <2> QED BY <2>1, <2>2
<1>2. CASE pendingDelegate = <<>>
  <2>1. UNCHANGED <<pendingDelegate, pc, job, cooldownUntil, calls, wire, crossed>>
    BY <1>2 DEF OnDelegateResponse
  <2> QED BY <1>1, <1>2, <2>1 DEF JobsOK, SentOK, WaitersOK, CooldownOK
<1>3. CASE pendingDelegate # <<>>
  <2>1. /\ w \in Jobs /\ Tail(pendingDelegate) \in Seq(Jobs)
        /\ RemoveAt(pendingDelegate, 1) = Tail(pendingDelegate)
    BY <1>3, RemovedWaiter DEF WaitersOK
  <2>2. /\ pendingDelegate' = Tail(pendingDelegate)
        /\ Signed(w, sig) \/ GiveUp(w)
    BY <1>3, <2>1 DEF OnDelegateResponse, WaiterFor
  <2>3. WaitersOK'
    BY <1>1, <2>1, <2>2 DEF WaitersOK
  <2> HIDE DEF w, sig
  <2>4. CASE Signed(w, sig)
    <3> DEFINE r == [job[w] EXCEPT !.signed = sig]
    <3>1. r \in JobRecords /\ r.signed = sig
      BY <1>1, <2>1 DEF JobsOK, JobRecords
    <3>2. StartAttempt(w, r) /\ UNCHANGED cooldownUntil
      BY <2>4 DEF Signed
    <3> HIDE DEF r
    <3>3. JobsOK' /\ SentOK' /\ CooldownOK'
      BY <1>1, <2>1, <3>1, <3>2, StartTypes DEF CooldownOK
    <3>4. job' = [job EXCEPT ![w] = [r EXCEPT !.first = TRUE]]
      BY <3>2 DEF StartAttempt, Enter
    <3>5. \A k \in Jobs :
             job'[k].signed = job[k].signed \/ (k = w /\ job'[k].signed = sig)
      <4>1. [r EXCEPT !.first = TRUE].signed = sig
        BY <3>1 DEF JobRecords
      <4> QED BY <3>4, <4>1 DEF JobsOK
    <3> QED BY <1>1, <1>3, <2>2, <2>3, <3>3, <3>5 DEF w, sig
  <2>5. CASE GiveUp(w)
    <3>1. JobsOK' /\ CooldownOK'
      BY <2>1, <2>5, EndTypes, EndedCooldown DEF GiveUp
    <3>2. SentOK' /\ UNCHANGED job
      BY <2>5 DEF GiveUp, SentOK
    <3> QED BY <1>1, <1>3, <2>2, <2>3, <3>1, <3>2
  <2> QED BY <2>2, <2>4, <2>5
<1> QED BY <1>2, <1>3

\* Unless a waiter went without its answer, the waiters are those whose requests the
\* delegate still has, in the same order.
LineInv ==
  \/ misled
  \/ pendingDelegate = asked /\ \A j \in Jobs : job[j].signed \in {NoJob, j}

Inv == TypeOK /\ LineInv

-----------------------------------------------------------------------------
LEMMA UsersKeep ==
  ASSUME Inv, Users
  PROVE  Inv'
<1>1. PICK j \in Jobs, i \in Items :
        /\ Later(j) /\ Ask(j)
        /\ job' = [job EXCEPT ![j] = NewJob(i, now')]
        /\ cooldownUntil' \in {cooldownUntil, now' + Cooldown}
        /\ UNCHANGED <<sendVars, node, conn, misled, crossed>>
  BY DEF Users, Say, Place
<1>2. now' \in 0 .. MaxTime
  BY <1>1, Types DEF Inv, Later, RestOK
<1>3. NewJob(i, now') \in JobRecords /\ NewJob(i, now').signed = NoJob
  BY <1>2, NewJobType DEF NewJob
<1>4. JobsOK' /\ WaitersOK'
  BY <1>1, <1>3, AskTypes, Types DEF Inv
<1>5. TypeOK'
  <2>1. SentOK' /\ CooldownOK' /\ RestOK'
    BY <1>1, <1>2, Types DEF Inv, sendVars, SentOK, CooldownOK, RestOK
  <2> QED BY <1>4, <2>1, TypesNext
<1>6. LineInv'
  BY <1>1, <1>3, Types DEF Inv, LineInv, Ask, JobsOK
<1> QED BY <1>5, <1>6 DEF Inv

LEMMA TimeoutsKeep ==
  ASSUME Inv, Timeouts
  PROVE  Inv'
<1>1. PICK j \in Jobs : TimeoutCall(j) \/ Retry(j) \/ TimeoutAsk(j)
  BY DEF Timeouts
<1>2. job[j] \in JobRecords
  BY Types DEF Inv, JobsOK
<1>3. CASE TimeoutCall(j)
  <2>1. JobsOK' /\ SentOK' /\ CooldownOK'
    BY <1>3, Types, FailTypes DEF Inv, TimeoutCall
  <2>2. WaitersOK' /\ RestOK'
    BY <1>3, Types DEF Inv, TimeoutCall, WaitersOK, RestOK, askVars
  <2>3. \A k \in Jobs : job'[k].signed = job[k].signed
    BY <1>3, FailKeepsSigned, Types DEF Inv, TimeoutCall
  <2>4. LineInv'
    BY <1>3, <2>3 DEF Inv, LineInv, TimeoutCall, askVars
  <2> QED BY <2>1, <2>2, <2>4, TypesNext DEF Inv
<1>4. CASE Retry(j)
  <2>1. job[j].signed \in Jobs
    BY <1>4, Types DEF Inv, Retry, JobsOK
  <2>2. JobsOK' /\ SentOK'
    BY <1>2, <1>4, <2>1, Types, StartTypes DEF Inv, Retry
  <2>3. WaitersOK' /\ CooldownOK' /\ RestOK'
    BY <1>4, Types DEF Inv, Retry, WaitersOK, CooldownOK, RestOK, askVars
  <2>4. job' = [job EXCEPT ![j] = [job[j] EXCEPT !.first = TRUE]]
    BY <1>4 DEF Retry, StartAttempt, Enter
  <2>5. \A k \in Jobs : job'[k].signed = job[k].signed
    BY <1>2, <2>4, Types DEF Inv, JobsOK, JobRecords
  <2>6. LineInv'
    BY <1>4, <2>5 DEF Inv, LineInv, Retry, askVars
  <2> QED BY <2>2, <2>3, <2>6, TypesNext DEF Inv
<1>5. CASE TimeoutAsk(j)
  <2>1. pendingDelegate' \in Seq(Jobs)
    <3>1. pendingDelegate \in Seq(Jobs)
      BY Types DEF Inv, WaitersOK
    <3>2. \A n \in DOMAIN pendingDelegate : RemoveAt(pendingDelegate, n) \in Seq(Jobs)
      BY <3>1, RemovedWaiter
    <3> QED BY <1>5, <3>1, <3>2 DEF TimeoutAsk
  <2>2. JobsOK' /\ CooldownOK'
    BY <1>5, Types, EndTypes, EndedCooldown DEF Inv, TimeoutAsk
  <2>3. SentOK' /\ WaitersOK' /\ RestOK'
    BY <1>5, <2>1, Types DEF Inv, TimeoutAsk, sendVars, SentOK, WaitersOK, RestOK
  <2> QED BY <1>5, <2>2, <2>3, TypesNext DEF Inv, LineInv, TimeoutAsk
<1> QED BY <1>1, <1>3, <1>4, <1>5
LEMMA AnswersKeep ==
  ASSUME Inv, Answers
  PROVE  Inv'
<1> USE Types DEF Inv
<1>1. CASE OnDelegateResponse
  <2>1. JobsOK' /\ SentOK' /\ WaitersOK' /\ CooldownOK'
    BY <1>1, AnswerTypes
  <2>2. RestOK'
    <3>1. crossed' \in BOOLEAN /\ UNCHANGED <<now, putFirst, node, conn, misled>>
      BY <1>1 DEF OnDelegateResponse, Signed, GiveUp, RestOK
    <3> QED BY <3>1 DEF RestOK
  <2>3. LineInv'
    BY <1>1, AnswerTypes DEF LineInv, OnDelegateResponse
  <2> QED BY <2>1, <2>2, <2>3, TypesNext
<1>2. CASE AskRefused
  <2>1. JobsOK' /\ WaitersOK' /\ CooldownOK'
    <3>1. asked' \in Seq(Jobs)
      BY <1>2 DEF AskRefused, WaitersOK
    <3> QED BY <1>2, <3>1, FailNextTypes DEF AskRefused
  <2>2. SentOK' /\ RestOK'
    BY <1>2 DEF AskRefused, FailNextDelegate, sendVars, SentOK, RestOK
  <2> QED BY <1>2, <2>1, <2>2, TypesNext DEF LineInv, AskRefused, FailNextDelegate
<1>3. ASSUME NEW j \in Jobs, Fetched(j)
      PROVE  Inv'
  <2>1. JobsOK' /\ WaitersOK' /\ CooldownOK' /\ RestOK'
    BY <1>3 DEF Fetched, JobsOK, Phases, WaitersOK, CooldownOK, RestOK, askVars
  <2>2. node[job[j].item] \cup {job[j].signed} \in SUBSET Jobs
    BY <1>3 DEF Fetched, JobsOK, RestOK, JobRecords
  <2>3. SentOK'
    BY <1>3, <2>2, SendTypes DEF Fetched, SentOK
  <2> QED BY <1>3, <2>1, <2>3, TypesNext DEF LineInv, Fetched, askVars
<1>4. ASSUME NEW r \in wire, Serve(r)
      PROVE  Inv'
  <2>1. r.kind \in Kinds /\ r.item \in Items /\ r.entries \in SUBSET Jobs
    BY DEF SentOK, Requests
  <2>2. node' \in [Items -> SUBSET Jobs]
    BY <1>4, <2>1 DEF Serve, RestOK
  <2>3. PICK n \in 0 .. Len(calls[r.kind]) :
          LET line == SubSeq(calls[r.kind], n + 1, Len(calls[r.kind]))
          IN IF line = <<>>
             THEN calls' = [calls EXCEPT ![r.kind] = <<>>] /\ UNCHANGED <<pc, putFirst>>
             ELSE LET j == Head(line)
                  IN /\ calls' = [calls EXCEPT ![r.kind] = Tail(line)]
                     /\ pc' = IF j = NoJob THEN pc ELSE [pc EXCEPT ![j] = "done"]
                     /\ putFirst' = IF j = NoJob \/ r.kind = "update" THEN putFirst
                                    ELSE putFirst \cup {job[j].item}
    BY <1>4 DEF Serve, Acknowledge
  <2> DEFINE line == SubSeq(calls[r.kind], n + 1, Len(calls[r.kind]))
             j == Head(line)
  <2>4. line \in Seq(Jobs \cup {NoJob})
    <3>1. calls[r.kind] \in Seq(Jobs \cup {NoJob})
      BY <2>1 DEF SentOK, Lines
    <3>2. /\ n + 1 \in Int /\ Len(calls[r.kind]) \in Int
          /\ \A i \in n + 1 .. Len(calls[r.kind]) : calls[r.kind][i] \in Jobs \cup {NoJob}
      BY <3>1
    <3> QED BY <3>2, SubSeqProperties
  <2> HIDE DEF line
  <2>5. JobsOK' /\ calls' \in Lines /\ putFirst' \subseteq Items
    <3>1. CASE line = <<>>
      <4>1. calls' = [calls EXCEPT ![r.kind] = <<>>] /\ UNCHANGED <<pc, putFirst, job>>
        BY <1>4, <2>3, <3>1 DEF line, Serve
      <4>2. <<>> \in Seq(Jobs \cup {NoJob})
        OBVIOUS
      <4> QED BY <2>1, <4>1, <4>2 DEF JobsOK, SentOK, RestOK, Lines
    <3>2. CASE line # <<>>
      <4>1. j \in Jobs \cup {NoJob} /\ Tail(line) \in Seq(Jobs \cup {NoJob})
        BY <2>4, <3>2
      <4>2. /\ calls' = [calls EXCEPT ![r.kind] = Tail(line)] /\ UNCHANGED job
            /\ pc' = IF j = NoJob THEN pc ELSE [pc EXCEPT ![j] = "done"]
            /\ putFirst' \in {putFirst, putFirst \cup {job[j].item}}
            /\ j = NoJob => UNCHANGED putFirst
        BY <1>4, <2>3, <3>2 DEF line, Serve
      <4> HIDE DEF j
      <4>3. calls' \in Lines
        BY <2>1, <4>1, <4>2 DEF SentOK, Lines
      <4>4. CASE j = NoJob
        BY <4>2, <4>3, <4>4 DEF JobsOK, RestOK
      <4>5. CASE j \in Jobs
        <5>1. pc' = [pc EXCEPT ![j] = "done"]
          BY <4>2, <4>5
        <5>2. JobsOK'
          BY <4>2, <4>5, <5>1, EndTypes
        <5>3. job[j].item \in Items
          BY <4>5 DEF JobsOK, JobRecords
        <5> QED BY <4>2, <4>3, <5>2, <5>3 DEF RestOK
      <4> QED BY <4>1, <4>4, <4>5
    <3> QED BY <3>1, <3>2
  <2>6. SentOK' /\ RestOK' /\ WaitersOK' /\ CooldownOK'
    BY <1>4, <2>2, <2>5 DEF Serve, SentOK, RestOK, WaitersOK, CooldownOK, askVars
  <2> QED BY <1>4, <2>5, <2>6, TypesNext DEF LineInv, Serve, askVars
<1>5. ASSUME NEW r \in wire, Refuse(r)
      PROVE  Inv'
  <2>1. JobsOK' /\ WaitersOK' /\ CooldownOK'
    BY <1>5, FailNextTypes DEF Refuse, WaitersOK
  <2>2. SentOK' /\ RestOK'
    BY <1>5 DEF Refuse, FailNextDelegate, SentOK, RestOK
  <2> QED BY <1>5, <2>1, <2>2, TypesNext DEF LineInv, Refuse, FailNextDelegate
<1>6. CASE Reconnect
  <2>1. node' \in [Items -> SUBSET Jobs]
    <3>1. PICK some \in SUBSET {r \in wire : Valid(r)} :
            node' = [i \in Items |->
              node[i] \cup UNION {r.entries : r \in {q \in some : q.item = i}}]
      BY <1>6 DEF Reconnect
    <3>2. \A r \in some : r.entries \in SUBSET Jobs
      BY DEF SentOK, Requests
    <3> QED BY <3>1, <3>2 DEF RestOK
  <2>2. RestOK'
    BY <1>6, <2>1 DEF Reconnect, RestOK
  <2>3. SentOK' /\ WaitersOK'
    <3>1. <<>> \in Seq(Jobs) /\ <<>> \in Seq(Jobs \cup {NoJob})
      OBVIOUS
    <3> QED BY <1>6, <3>1 DEF Reconnect, SentOK, WaitersOK, Lines
  <2>4. JobsOK' /\ CooldownOK'
    <3>1. CASE pendingDelegate = <<>>
      BY <1>6, <3>1 DEF Reconnect, JobsOK, CooldownOK
    <3>2. CASE pendingDelegate # <<>>
      <4>1. Head(pendingDelegate) \in Jobs
        BY <3>2 DEF WaitersOK
      <4> QED BY <1>6, <3>2, <4>1, EndTypes, EndedCooldown DEF Reconnect
    <3> QED BY <3>1, <3>2
  <2>5. LineInv'
    BY <1>6 DEF Reconnect, LineInv
  <2> QED BY <2>2, <2>3, <2>4, <2>5, TypesNext
<1> QED BY <1>1, <1>2, <1>3, <1>4, <1>5, <1>6 DEF Answers

LEMMA Invariant == Spec => []Inv
<1>1. Init => Inv
  <2> SUFFICES ASSUME Init PROVE Inv
    OBVIOUS
  <2>1. NewJob(Chat, 0) \in JobRecords /\ NewJob(Chat, 0).signed = NoJob
    BY NewJobType DEF NewJob
  <2>2. JobsOK
    BY <2>1 DEF Init, JobsOK, Phases
  <2>3. <<>> \in Seq(Jobs) /\ <<>> \in Seq(Jobs \cup {NoJob})
    OBVIOUS
  <2>4. SentOK /\ WaitersOK
    BY <2>3 DEF Init, SentOK, WaitersOK, Lines
  <2>5. CooldownOK /\ RestOK
    <3>1. 0 \in 0 .. MaxTime /\ 0 \in 0 .. MaxTime + Cooldown /\ 1 \in 1 .. MaxConns
      OBVIOUS
    <3> QED BY <3>1 DEF Init, CooldownOK, RestOK
  <2>6. LineInv
    BY <2>1 DEF Init, LineInv
  <2> QED BY <2>2, <2>4, <2>5, <2>6, Types DEF Inv
<1>2. Inv /\ [Next]_vars => Inv'
  <2> SUFFICES ASSUME Inv, UNCHANGED vars PROVE Inv'
    BY UsersKeep, TimeoutsKeep, AnswersKeep DEF Next
  <2>1. TypeOK' /\ LineInv'
    BY DEF Inv, vars, askVars, sendVars, TypeOK, LineInv
  <2> QED BY <2>1 DEF Inv
<1> QED BY <1>1, <1>2, PTL DEF Spec, SafeSpec

\* For any bounds: every line holds jobs, what is sent is signed, and no job makes
\* more attempts than it has room for.
THEOREM TypeCorrect == Spec => []TypeOK
<1>1. Inv => TypeOK
  BY DEF Inv
<1> QED BY <1>1, Invariant, PTL

\* Whatever answers, errors, timeouts and reconnections come in between, a job sends
\* the signature that was made for it, unless a waiter left the line before its
\* answer (awaitDelegateResponse: "so the response cannot race the registration").
THEOREM SignaturesAreOwn == Spec => []SignsWhatWasAsked
<1>1. Inv => SignsWhatWasAsked
  BY DEF Inv, LineInv, SignsWhatWasAsked
<1> QED BY <1>1, Invariant, PTL

-----------------------------------------------------------------------------
(* The lines, for what is acknowledged and for the cooldown *)

\* Nobody waits twice, and who waits is asking.
Queued ==
  /\ IsInjective(pendingDelegate)
  /\ \A n \in DOMAIN pendingDelegate : pc[pendingDelegate[n]] = "asking"

\* A job has at most one promise in lines c, of the kind that it waits for by p.
Tidy(c, p) ==
  \A k \in Kinds : \A n \in DOMAIN c[k] : c[k][n] # NoJob =>
    p[c[k][n]] = k /\ \A m \in DOMAIN c[k] : c[k][m] = c[k][n] => m = n

HasNone(c, j) == \A k \in Kinds : \A n \in DOMAIN c[k] : c[k][n] # j

\* Who waits for no call has no promise in line, and may turn to anything else.
LEMMA NotInLine ==
  ASSUME Tidy(calls, pc), NEW j \in Jobs, pc[j] \notin Kinds
  PROVE  HasNone(calls, j)
BY DEF Tidy, HasNone

LEMMA TidyWithout ==
  ASSUME JobsOK, NEW c \in Lines, Tidy(c, pc), NEW j \in Jobs, HasNone(c, j), NEW x
  PROVE  Tidy(c, [pc EXCEPT ![j] = x])
<1> SUFFICES ASSUME NEW k \in Kinds, NEW n \in DOMAIN c[k], c[k][n] # NoJob
             PROVE  /\ [pc EXCEPT ![j] = x][c[k][n]] = k
                    /\ \A m \in DOMAIN c[k] : c[k][m] = c[k][n] => m = n
  BY DEF Tidy
<1>1. c[k][n] \in Jobs /\ c[k][n] # j
  BY DEF Lines, HasNone
<1> QED BY <1>1 DEF Tidy, JobsOK

LEMMA AbandonedTidy ==
  ASSUME JobsOK, SentOK, Tidy(calls, pc), NEW j \in Jobs
  PROVE  Tidy(Abandoned(j), pc) /\ HasNone(Abandoned(j), j)
<1>1. \A k \in Kinds :
        /\ DOMAIN Abandoned(j)[k] = DOMAIN calls[k]
        /\ \A n \in DOMAIN calls[k] :
             Abandoned(j)[k][n] = IF calls[k][n] = j THEN NoJob ELSE calls[k][n]
  BY DEF Abandoned
<1>2. j # NoJob
  OBVIOUS
<1> QED BY <1>1, <1>2 DEF Tidy, HasNone

\* A promise joins the line.
LEMMA SendTidy ==
  ASSUME JobsOK, NEW c \in Lines, Tidy(c, pc), NEW j \in Jobs, HasNone(c, j),
         NEW kind \in Kinds
  PROVE  Tidy([c EXCEPT ![kind] = Append(@, j)], [pc EXCEPT ![j] = kind])
<1> DEFINE d == [c EXCEPT ![kind] = Append(@, j)]
           p == [pc EXCEPT ![j] = kind]
<1>1. Tidy(c, p)
  BY TidyWithout
<1>2. \A k \in Kinds : k # kind => d[k] = c[k]
  BY DEF Lines
<1>3. /\ DOMAIN d[kind] = DOMAIN c[kind] \cup {Len(c[kind]) + 1}
      /\ \A n \in DOMAIN c[kind] : d[kind][n] = c[kind][n]
      /\ d[kind][Len(c[kind]) + 1] = j
  <2>1. c[kind] \in Seq(Jobs \cup {NoJob}) /\ d[kind] = Append(c[kind], j)
    BY DEF Lines
  <2> HIDE DEF d
  <2> QED BY <2>1
<1>4. p[j] = kind
  BY DEF JobsOK
<1> HIDE DEF d, p
<1>5. Tidy(d, p)
  BY <1>1, <1>2, <1>3, <1>4 DEF Tidy, HasNone
<1> QED BY <1>5 DEF d, p

LEMMA EnterTidy ==
  ASSUME JobsOK, NEW line \in Lines, Tidy(line, pc), NEW j \in Jobs, HasNone(line, j),
         NEW phase \in {"update", "get"}, NEW r, Enter(j, phase, r, line)
  PROVE  Tidy(calls', pc') /\ pc' = [pc EXCEPT ![j] = phase]
<1>1. CASE phase = "update"
  <2>1. calls' = [line EXCEPT !["update"] = Append(@, j)]
    BY <1>1 DEF Enter, Send
  <2> QED BY <1>1, <2>1, SendTidy DEF Enter
<1>2. CASE phase # "update"
  BY <1>2, TidyWithout DEF Enter
<1> QED BY <1>1, <1>2

\* The line stays, or a waiter leaves it.
LEMMA QueueStays ==
  ASSUME JobsOK, WaitersOK, Queued, NEW j \in Jobs, NEW x,
         pc' = [pc EXCEPT ![j] = x], UNCHANGED pendingDelegate,
         \A n \in DOMAIN pendingDelegate : pendingDelegate[n] # j
  PROVE  Queued'
<1>1. \A n \in DOMAIN pendingDelegate : pendingDelegate[n] \in Jobs
  BY DEF WaitersOK
<1> QED BY <1>1 DEF Queued, JobsOK

LEMMA QueueLeft ==
  ASSUME JobsOK, WaitersOK, Queued, NEW n \in DOMAIN pendingDelegate, NEW x,
         pc' = [pc EXCEPT ![pendingDelegate[n]] = x],
         pendingDelegate' = RemoveAt(pendingDelegate, n)
  PROVE  Queued'
<1>1. /\ IsInjective(pendingDelegate')
      /\ \A m \in DOMAIN pendingDelegate' : \E i \in DOMAIN pendingDelegate :
           i # n /\ pendingDelegate[i] = pendingDelegate'[m]
  BY RemovedEntries DEF WaitersOK, Queued
<1>2. \A i \in DOMAIN pendingDelegate : i # n =>
        /\ pendingDelegate[i] \in Jobs /\ pendingDelegate[i] # pendingDelegate[n]
        /\ pc'[pendingDelegate[i]] = "asking"
  BY DEF WaitersOK, Queued, IsInjective, JobsOK
<1> QED BY <1>1, <1>2 DEF Queued

LEMMA HeadLeft ==
  ASSUME JobsOK, WaitersOK, Queued, pendingDelegate # <<>>, NEW x,
         pc' = [pc EXCEPT ![Head(pendingDelegate)] = x],
         pendingDelegate' = Tail(pendingDelegate)
  PROVE  Queued'
<1>1. /\ 1 \in DOMAIN pendingDelegate /\ pendingDelegate[1] = Head(pendingDelegate)
      /\ RemoveAt(pendingDelegate, 1) = Tail(pendingDelegate)
  BY RemovedWaiter DEF WaitersOK
<1> QED BY <1>1, QueueLeft

\* Who waits at the head is asking.
LEMMA HeadAsks ==
  ASSUME WaitersOK, Queued, pendingDelegate # <<>>
  PROVE  Head(pendingDelegate) \in Jobs /\ pc[Head(pendingDelegate)] = "asking"
<1>1. 1 \in DOMAIN pendingDelegate /\ pendingDelegate[1] = Head(pendingDelegate)
  BY DEF WaitersOK
<1> QED BY <1>1 DEF WaitersOK, Queued

-----------------------------------------------------------------------------
\* How far a job is, by what it waits for and its record: within an attempt, the pause
\* before it, its first alternative and its second, each with the put after a fetch.
LastStage == 5 * MaxAttempts + 2

Stage(x, r) ==
  CASE x = "idle" -> 0
    [] x = "asking" -> 1
    [] x = "pausing" -> 5 * r.attempt + 2
    [] x \in {"update", "get"} -> 5 * r.attempt + (IF r.first THEN 3 ELSE 5)
    [] x = "put" -> 5 * r.attempt + (IF r.first THEN 4 ELSE 6)
    [] x \in {"done", "failed"} -> LastStage

\* A step leaves a job as it is, or takes it on.
Onward(j) ==
  UNCHANGED <<pc[j], job[j]>> \/ Stage(pc[j], job[j]) < Stage(pc'[j], job'[j])

\* No job is beyond its end.
LEMMA StageBounds ==
  ASSUME NEW x \in Phases, NEW r \in JobRecords
  PROVE  /\ Stage(x, r) \in 0 .. LastStage
         /\ x \notin {"done", "failed"} => Stage(x, r) < LastStage
<1>1. MaxAttempts \in Nat \ {0} /\ r.attempt \in 0 .. MaxAttempts - 1
  BY DEF JobRecords
<1>2. 5 * r.attempt \in Nat /\ 5 * r.attempt <= 5 * MaxAttempts - 5 /\ LastStage \in Nat
  BY <1>1 DEF LastStage
<1> DEFINE a == 5 * r.attempt
<1>3. a \in Nat /\ a + 6 < LastStage
  BY <1>1, <1>2 DEF LastStage
<1> HIDE DEF a
<1> QED BY <1>2, <1>3 DEF Stage, Phases, a

\* Whatever ends a job takes it on.
LEMMA EndsLast ==
  ASSUME JobsOK, NEW j \in Jobs, pc[j] \notin {"done", "failed"},
         NEW x \in {"done", "failed"}
  PROVE  Stage(pc[j], job[j]) < Stage(x, job[j])
<1>1. Stage(pc[j], job[j]) < LastStage
  BY StageBounds DEF JobsOK
<1>2. Stage(x, job[j]) = LastStage
  BY DEF Stage
<1> QED BY <1>1, <1>2

\* What no step takes from a job: that it is for its contract and time, once it is;
\* its signature; its failure; and how far it is.
Steady(j) ==
  /\ pc[j] # "idle" =>
       pc'[j] # "idle" /\ job'[j].item = job[j].item /\ job'[j].ts = job[j].ts
  /\ pc[j] \notin {"idle", "asking"} => job'[j].signed = job[j].signed
  /\ pc[j] = "failed" => pc'[j] = "failed"
  /\ Onward(j)

LinesInv == Queued /\ Tidy(calls, pc)

\* A job that fails, or that gets on with the same record.
LEMMA EndSteady ==
  ASSUME JobsOK, NEW j \in Jobs, NEW x \in Phases, x # "idle", pc[j] # "failed" \/ x = "failed",
         pc' = [pc EXCEPT ![j] = x], UNCHANGED job,
         Stage(pc[j], job[j]) < Stage(x, job[j])
  PROVE  \A k \in Jobs : Steady(k)
BY DEF Steady, Onward, JobsOK

LEMMA MoveSteady ==
  ASSUME JobsOK, NEW j \in Jobs, NEW x \in Phases, x # "idle", pc[j] # "failed",
         pc' = [pc EXCEPT ![j] = x], NEW r, job' = [job EXCEPT ![j] = r],
         r.item = job[j].item, r.ts = job[j].ts, pc[j] = "asking" \/ r.signed = job[j].signed,
         Stage(pc[j], job[j]) < Stage(x, r)
  PROVE  \A k \in Jobs : Steady(k)
BY DEF Steady, Onward, JobsOK

\* One alternative fails, and the next one, a pause or the failure follows.
LEMMA FailSteady ==
  ASSUME JobsOK, SentOK, LinesInv, WaitersOK, NEW j \in Jobs,
         pc[j] \in {"update", "get", "put"}, AlternativeFails(j), UNCHANGED pendingDelegate
  PROVE  LinesInv' /\ \A k \in Jobs : Steady(k)
<1>1. /\ Abandoned(j) \in Lines /\ Tidy(Abandoned(j), pc) /\ HasNone(Abandoned(j), j)
      /\ job[j] \in JobRecords
  BY AbandonedType, AbandonedTidy DEF SentOK, LinesInv, JobsOK
<1>2. \A n \in DOMAIN pendingDelegate : pendingDelegate[n] # j
  BY DEF LinesInv, Queued
<1>3. CASE job[j].first
  <2> DEFINE r == [job[j] EXCEPT !.first = FALSE]
  <2>1. /\ r.item = job[j].item /\ r.ts = job[j].ts /\ r.signed = job[j].signed
        /\ r.attempt = job[j].attempt /\ ~r.first /\ r.attempt \in Nat
    BY <1>1 DEF JobRecords
  <2>2. PICK phase \in {"update", "get"} : Enter(j, phase, r, Abandoned(j))
    BY <1>3 DEF AlternativeFails
  <2>3. job' = [job EXCEPT ![j] = r]
    BY <2>2 DEF Enter
  <2> HIDE DEF r
  <2>4. Tidy(calls', pc') /\ pc' = [pc EXCEPT ![j] = phase]
    BY <1>1, <2>2, EnterTidy
  <2>5. Queued'
    BY <1>2, <2>4, QueueStays DEF LinesInv
  <2>6. Stage(pc[j], job[j]) < Stage(phase, r)
    BY <1>3, <2>1 DEF Stage
  <2>7. \A k \in Jobs : Steady(k)
    BY <2>1, <2>3, <2>4, <2>6, MoveSteady DEF Phases
  <2> QED BY <2>4, <2>5, <2>7 DEF LinesInv
<1>4. CASE ~job[j].first
  <2>1. calls' = Abandoned(j) /\ AttemptFails(j)
    BY <1>4 DEF AlternativeFails, AttemptFails
  <2>2. PICK x \in {"failed", "pausing"} : pc' = [pc EXCEPT ![j] = x]
    BY <2>1 DEF AttemptFails
  <2>3. LinesInv'
    BY <1>1, <1>2, <2>1, <2>2, QueueStays, TidyWithout DEF LinesInv
  <2>4. CASE pc' = [pc EXCEPT ![j] = "failed"] /\ UNCHANGED job
    <3>1. Stage(pc[j], job[j]) < Stage("failed", job[j])
      BY EndsLast
    <3> QED BY <2>3, <2>4, <3>1, EndSteady DEF Phases
  <2>5. CASE pc' = [pc EXCEPT ![j] = "pausing"] /\ job' = [job EXCEPT ![j].attempt = @ + 1]
    <3> DEFINE r == [job[j] EXCEPT !.attempt = @ + 1]
    <3>1. /\ r.item = job[j].item /\ r.ts = job[j].ts /\ r.signed = job[j].signed
          /\ r.attempt = job[j].attempt + 1 /\ job[j].attempt \in Nat
      BY <1>1 DEF JobRecords
    <3>2. job' = [job EXCEPT ![j] = r]
      BY <2>5
    <3> HIDE DEF r
    <3>3. Stage(pc[j], job[j]) < Stage("pausing", r)
      BY <1>4, <3>1 DEF Stage
    <3> QED BY <2>3, <2>5, <3>1, <3>2, <3>3, MoveSteady DEF Phases
  <2> QED BY <2>1, <2>4, <2>5 DEF AttemptFails
<1> QED BY <1>3, <1>4

\* An attempt starts: a job that asked, or paused, may send.
LEMMA StartSteady ==
  ASSUME JobsOK, SentOK, LinesInv, NEW j \in Jobs, pc[j] \in {"asking", "pausing"},
         NEW r \in JobRecords, StartAttempt(j, r), r.item = job[j].item, r.ts = job[j].ts,
         pc[j] = "asking" \/ r.signed = job[j].signed, r.attempt = job[j].attempt
  PROVE  /\ Tidy(calls', pc') /\ \A k \in Jobs : Steady(k)
         /\ \E x : pc' = [pc EXCEPT ![j] = x]
<1> DEFINE s == [r EXCEPT !.first = TRUE]
<1>1. /\ s.item = r.item /\ s.ts = r.ts /\ s.signed = r.signed
      /\ s.attempt = r.attempt /\ r.attempt \in Nat /\ s.first
  BY DEF JobRecords
<1>2. PICK phase \in {"update", "get"} : Enter(j, phase, s, calls)
  BY DEF StartAttempt
<1>3. job' = [job EXCEPT ![j] = s]
  BY <1>2 DEF Enter
<1> HIDE DEF s
<1>4. calls \in Lines /\ Tidy(calls, pc) /\ HasNone(calls, j)
  BY NotInLine DEF SentOK, LinesInv
<1>5. Tidy(calls', pc') /\ pc' = [pc EXCEPT ![j] = phase]
  BY <1>2, <1>4, EnterTidy
<1>6. Stage(pc[j], job[j]) < Stage(phase, s)
  BY <1>1 DEF Stage
<1>7. \A k \in Jobs : Steady(k)
  BY <1>1, <1>3, <1>5, <1>6, MoveSteady DEF Phases
<1> QED BY <1>5, <1>7

LEMMA UsersSteady ==
  ASSUME Inv, LinesInv, Users
  PROVE  LinesInv' /\ \A k \in Jobs : Steady(k)
<1> USE Types DEF Inv
<1>1. PICK j \in Jobs, i \in Items :
        /\ Later(j) /\ Ask(j)
        /\ job' = [job EXCEPT ![j] = NewJob(i, now')]
        /\ UNCHANGED sendVars
  BY DEF Users, Say, Place
<1>2. pc[j] = "idle" /\ pc' = [pc EXCEPT ![j] = "asking"]
  BY <1>1 DEF Later, Ask
<1>3. Tidy(calls', pc')
  BY <1>1, <1>2, NotInLine, TidyWithout DEF LinesInv, sendVars, SentOK
<1>4. Queued'
  <2>1. /\ pendingDelegate \in Seq(Jobs) /\ pendingDelegate' = Append(pendingDelegate, j)
        /\ \A n \in DOMAIN pendingDelegate : pendingDelegate[n] # j
    BY <1>1, <1>2 DEF Ask, WaitersOK, LinesInv, Queued
  <2>2. /\ DOMAIN pendingDelegate' = DOMAIN pendingDelegate \cup {Len(pendingDelegate) + 1}
        /\ \A n \in DOMAIN pendingDelegate : pendingDelegate'[n] = pendingDelegate[n]
        /\ pendingDelegate'[Len(pendingDelegate) + 1] = j
    BY <2>1
  <2>3. \A n \in DOMAIN pendingDelegate : pc'[pendingDelegate[n]] = "asking"
    BY <1>2, <2>1 DEF LinesInv, Queued, JobsOK
  <2>4. pc'[j] = "asking"
    BY <1>2 DEF JobsOK
  <2> DEFINE last == Len(pendingDelegate) + 1
             next == pendingDelegate'
  <2>5. /\ DOMAIN next = DOMAIN pendingDelegate \cup {last} /\ next[last] = j
        /\ \A n \in DOMAIN pendingDelegate : next[n] = pendingDelegate[n] /\ next[n] # j
    BY <2>1, <2>2
  <2> HIDE DEF last, next
  <2>6. IsInjective(next)
    <3>1. IsInjective(pendingDelegate)
      BY DEF LinesInv, Queued
    <3> QED BY <2>5, <3>1 DEF IsInjective
  <2>7. \A n \in DOMAIN next : pc'[next[n]] = "asking"
    BY <2>3, <2>4, <2>5
  <2> QED BY <2>6, <2>7 DEF Queued, next
<1>5. Stage("idle", job[j]) < Stage("asking", NewJob(i, now'))
  BY DEF Stage
<1>6. \A k \in Jobs : Steady(k)
  BY <1>1, <1>2, <1>5 DEF Steady, Onward, JobsOK
<1> QED BY <1>3, <1>4, <1>6 DEF LinesInv

LEMMA TimeoutsSteady ==
  ASSUME Inv, LinesInv, Timeouts
  PROVE  LinesInv' /\ \A k \in Jobs : Steady(k)
<1> USE Types DEF Inv
<1>1. PICK j \in Jobs : TimeoutCall(j) \/ Retry(j) \/ TimeoutAsk(j)
  BY DEF Timeouts
<1>2. CASE TimeoutCall(j)
  BY <1>2, FailSteady DEF TimeoutCall, askVars
<1>3. CASE Retry(j)
  <2>1. job[j] \in JobRecords /\ pc[j] = "pausing" /\ UNCHANGED pendingDelegate
    BY <1>3 DEF Retry, JobsOK, askVars
  <2>2. PICK x : pc' = [pc EXCEPT ![j] = x] /\ Tidy(calls', pc') /\ \A k \in Jobs : Steady(k)
    BY <1>3, <2>1, StartSteady DEF Retry
  <2>3. Queued'
    BY <2>1, <2>2, QueueStays DEF LinesInv, Queued
  <2> QED BY <2>2, <2>3 DEF LinesInv
<1>4. CASE TimeoutAsk(j)
  <2>1. pc[j] = "asking" /\ pc' = [pc EXCEPT ![j] = "failed"] /\ UNCHANGED <<job, sendVars>>
    BY <1>4 DEF TimeoutAsk
  <2>2. Tidy(calls', pc')
    BY <2>1, NotInLine, TidyWithout DEF LinesInv, sendVars, SentOK
  <2>3. Queued'
    <3>1. CASE \E n \in DOMAIN pendingDelegate :
                 pendingDelegate[n] = j /\ pendingDelegate' = RemoveAt(pendingDelegate, n)
      BY <2>1, <3>1, QueueLeft DEF LinesInv
    <3>2. CASE j \notin ToSet(pendingDelegate) /\ UNCHANGED pendingDelegate
      BY <2>1, <3>2, QueueStays DEF LinesInv, ToSet
    <3> QED BY <1>4, <3>1, <3>2 DEF TimeoutAsk
  <2>4. \A k \in Jobs : Steady(k)
    BY <2>1, EndSteady, EndsLast DEF Phases
  <2> QED BY <2>2, <2>3, <2>4 DEF LinesInv
<1> QED BY <1>1, <1>2, <1>3, <1>4
\* Promises leave the front of a line; the last to leave is nowhere else.
LEMMA DropTidy ==
  ASSUME NEW c \in Lines, NEW p, Tidy(c, p), NEW kind \in Kinds, NEW d \in 0 .. Len(c[kind]),
         NEW t \in Seq(Jobs \cup {NoJob}), Len(t) = Len(c[kind]) - d,
         \A m \in 1 .. Len(t) : t[m] = c[kind][m + d]
  PROVE  /\ [c EXCEPT ![kind] = t] \in Lines /\ Tidy([c EXCEPT ![kind] = t], p)
         /\ d # 0 /\ c[kind][d] # NoJob => HasNone([c EXCEPT ![kind] = t], c[kind][d])
<1> DEFINE e == [c EXCEPT ![kind] = t]
<1>1. e \in Lines /\ e[kind] = t /\ \A k \in Kinds : k # kind => e[k] = c[k]
  BY DEF Lines
<1>2. /\ DOMAIN t = 1 .. Len(t) /\ DOMAIN c[kind] = 1 .. Len(c[kind]) /\ Len(c[kind]) \in Nat
      /\ \A m \in DOMAIN t : m + d \in DOMAIN c[kind] /\ m + d # d
      /\ \A l, m \in DOMAIN t : l + d = m + d => l = m
  <2>1. c[kind] \in Seq(Jobs \cup {NoJob})
    BY DEF Lines
  <2>2. /\ DOMAIN t = 1 .. Len(t) /\ DOMAIN c[kind] = 1 .. Len(c[kind])
        /\ Len(c[kind]) \in Nat /\ Len(t) \in Nat
    BY <2>1
  <2>3. d \in Nat /\ d <= Len(c[kind])
    BY <2>2
  <2>4. ASSUME NEW m \in DOMAIN t
        PROVE  m + d \in 1 .. Len(c[kind]) /\ m + d # d /\ m \in Nat
    BY <2>2, <2>3
  <2>5. ASSUME NEW l \in DOMAIN t, NEW m \in DOMAIN t, l + d = m + d PROVE l = m
    BY <2>3, <2>4, <2>5
  <2> QED BY <2>2, <2>4, <2>5
<1> HIDE DEF e
<1>3. Tidy(e, p)
  <2> SUFFICES ASSUME NEW k \in Kinds, NEW n \in DOMAIN e[k], e[k][n] # NoJob
               PROVE  p[e[k][n]] = k /\ \A m \in DOMAIN e[k] : e[k][m] = e[k][n] => m = n
    BY DEF Tidy
  <2>1. CASE k # kind
    BY <1>1, <2>1 DEF Tidy
  <2>2. CASE k = kind
    <3>1. /\ n \in DOMAIN t /\ t[n] = c[kind][n + d] /\ n + d \in DOMAIN c[kind]
          /\ t[n] # NoJob
      BY <1>1, <1>2, <2>2
    <3>2. p[t[n]] = kind
      BY <3>1 DEF Tidy
    <3>3. ASSUME NEW m \in DOMAIN t, t[m] = t[n] PROVE m = n
      <4>1. c[kind][m + d] = c[kind][n + d] /\ m + d \in DOMAIN c[kind]
        BY <1>2, <3>1, <3>3
      <4>2. m + d = n + d
        BY <3>1, <4>1 DEF Tidy
      <4> QED BY <1>2, <3>1, <3>3, <4>2
    <3> QED BY <1>1, <2>2, <3>2, <3>3
  <2> QED BY <2>1, <2>2
<1>4. ASSUME d # 0, c[kind][d] # NoJob PROVE HasNone(e, c[kind][d])
  <2>1. d \in DOMAIN c[kind] /\ p[c[kind][d]] = kind
    BY <1>2, <1>4 DEF Tidy
  <2>2. ASSUME NEW k \in Kinds, NEW n \in DOMAIN e[k], e[k][n] = c[kind][d] PROVE FALSE
    <3>1. p[e[k][n]] = k
      BY <1>3, <1>4, <2>2 DEF Tidy
    <3>2. k = kind
      BY <2>1, <2>2, <3>1
    <3>3. n \in DOMAIN t /\ c[kind][n + d] = c[kind][d]
      BY <1>1, <1>2, <2>2, <3>2
    <3>4. n + d \in DOMAIN c[kind]
      BY <1>2, <3>3
    <3>5. n + d = d
      BY <1>4, <2>1, <3>3, <3>4 DEF Tidy
    <3> QED BY <1>2, <3>3, <3>5
  <2> QED BY <2>2 DEF HasNone
<1> QED BY <1>1, <1>3, <1>4 DEF e

\* Whatever promise an answer resolves, it is that of a job that waits for it, and
\* the lines stay in order.
LEMMA AcknowledgeTidy ==
  ASSUME JobsOK, SentOK, Tidy(calls, pc), NEW kind \in Kinds, Acknowledge(kind)
  PROVE  /\ Tidy(calls', pc')
         /\ \/ UNCHANGED pc
            \/ \E j \in Jobs : pc[j] = kind /\ pc' = [pc EXCEPT ![j] = "done"]
<1>1. /\ calls \in Lines /\ calls[kind] \in Seq(Jobs \cup {NoJob}) /\ Len(calls[kind]) \in Nat
      /\ DOMAIN calls[kind] = 1 .. Len(calls[kind])
  BY DEF SentOK, Lines
<1>2. PICK n \in 0 .. Len(calls[kind]) :
        LET line == SubSeq(calls[kind], n + 1, Len(calls[kind]))
        IN IF line = <<>>
           THEN calls' = [calls EXCEPT ![kind] = <<>>] /\ UNCHANGED pc
           ELSE /\ calls' = [calls EXCEPT ![kind] = Tail(line)]
                /\ pc' = IF Head(line) = NoJob THEN pc ELSE [pc EXCEPT ![Head(line)] = "done"]
  BY DEF Acknowledge
<1> DEFINE line == SubSeq(calls[kind], n + 1, Len(calls[kind]))
<1>3. /\ line \in Seq(Jobs \cup {NoJob}) /\ Len(line) = Len(calls[kind]) - n
      /\ \A m \in 1 .. Len(line) : line[m] = calls[kind][m + n]
  <2>1. /\ n + 1 \in Int /\ Len(calls[kind]) \in Int
        /\ \A i \in n + 1 .. Len(calls[kind]) : calls[kind][i] \in Jobs \cup {NoJob}
    BY <1>1
  <2>2. /\ line \in Seq(Jobs \cup {NoJob})
        /\ Len(line) = IF n + 1 <= Len(calls[kind]) THEN Len(calls[kind]) - (n + 1) + 1 ELSE 0
        /\ \A m \in 1 .. Len(calls[kind]) - (n + 1) + 1 : line[m] = calls[kind][(n + 1) + m - 1]
    BY <2>1, SubSeqProperties
  <2> HIDE DEF line
  <2>3. Len(line) = Len(calls[kind]) - n
    BY <1>1, <2>2
  <2>4. ASSUME NEW m \in 1 .. Len(line) PROVE line[m] = calls[kind][m + n]
    <3>1. m \in 1 .. Len(calls[kind]) - (n + 1) + 1 /\ (n + 1) + m - 1 = m + n
      BY <1>1, <2>3
    <3> QED BY <2>2, <3>1
  <2> QED BY <2>2, <2>3, <2>4
<1>4. /\ line = <<>> => calls' = [calls EXCEPT ![kind] = <<>>] /\ UNCHANGED pc
      /\ line # <<>> => /\ calls' = [calls EXCEPT ![kind] = Tail(line)]
                        /\ pc' = IF Head(line) = NoJob THEN pc
                                 ELSE [pc EXCEPT ![Head(line)] = "done"]
  BY <1>2
<1> HIDE DEF line
<1>5. CASE line = <<>>
  <2>1. Len(line) = 0 /\ <<>> \in Seq(Jobs \cup {NoJob})
    BY <1>5
  <2>2. Tidy([calls EXCEPT ![kind] = line], pc)
    BY <1>1, <1>3, DropTidy
  <2> QED BY <1>4, <1>5, <2>2
<1>6. CASE line # <<>>
  <2> DEFINE t == Tail(line)
             j == Head(line)
             d == n + 1
             e == [calls EXCEPT ![kind] = t]
  <2>1. /\ t \in Seq(Jobs \cup {NoJob}) /\ Len(t) = Len(line) - 1 /\ j = line[1]
        /\ \A m \in 1 .. Len(t) : t[m] = line[m + 1]
        /\ j \in Jobs \cup {NoJob} /\ Len(line) \in Nat \ {0}
    BY <1>3, <1>6
  <2>2. calls' = e /\ pc' = IF j = NoJob THEN pc ELSE [pc EXCEPT ![j] = "done"]
    BY <1>4, <1>6
  <2> HIDE DEF t, j
  <2>3. d \in 0 .. Len(calls[kind]) /\ Len(t) = Len(calls[kind]) - d /\ d # 0
    BY <1>1, <1>3, <2>1
  <2>4. ASSUME NEW m \in 1 .. Len(t) PROVE t[m] = calls[kind][m + d]
    <3>1. m + 1 \in 1 .. Len(line) /\ (m + 1) + n = m + d
      BY <1>1, <2>1
    <3> QED BY <1>3, <2>1, <3>1
  <2>5. calls[kind][d] = j
    <3>1. 1 \in 1 .. Len(line) /\ 1 + n = d
      BY <2>1
    <3> QED BY <1>3, <2>1, <3>1
  <2> HIDE DEF d
  <2>6. e \in Lines /\ Tidy(e, pc) /\ (j # NoJob => HasNone(e, j))
    <3>1. /\ e \in Lines /\ Tidy(e, pc)
          /\ d # 0 /\ calls[kind][d] # NoJob => HasNone(e, calls[kind][d])
      <4> HIDE DEF NoJob, Jobs, Kinds
      <4> QED BY <1>1, <2>1, <2>3, <2>4, DropTidy
    <3> QED BY <2>3, <2>5, <3>1
  <2> HIDE DEF e
  <2>7. CASE j = NoJob
    BY <2>2, <2>6, <2>7
  <2>8. CASE j # NoJob
    <3>1. d \in DOMAIN calls[kind] /\ j \in Jobs
      BY <1>1, <2>1, <2>3, <2>8
    <3>2. pc[j] = kind
      BY <2>5, <2>8, <3>1 DEF Tidy
    <3>3. Tidy(e, [pc EXCEPT ![j] = "done"])
      BY <2>6, <2>8, <3>1, TidyWithout
    <3> QED BY <2>2, <2>8, <3>1, <3>2, <3>3
  <2> QED BY <2>7, <2>8
<1> QED BY <1>5, <1>6
\* The first waiter goes with an error, and nothing else changes for the jobs.
LEMMA HeadFails ==
  ASSUME JobsOK, SentOK, WaitersOK, LinesInv, pendingDelegate # <<>>,
         pc' = [pc EXCEPT ![Head(pendingDelegate)] = "failed"],
         pendingDelegate' = Tail(pendingDelegate), UNCHANGED <<job, calls>>
  PROVE  LinesInv' /\ \A k \in Jobs : Steady(k)
<1>1. Head(pendingDelegate) \in Jobs /\ pc[Head(pendingDelegate)] = "asking"
  BY HeadAsks DEF LinesInv
<1>2. Queued'
  BY HeadLeft DEF LinesInv
<1>3. Tidy(calls', pc')
  BY <1>1, NotInLine, TidyWithout DEF LinesInv, SentOK
<1>4. \A k \in Jobs : Steady(k)
  BY <1>1, EndSteady, EndsLast DEF Phases
<1> QED BY <1>2, <1>3, <1>4 DEF LinesInv

LEMMA AnsweredSteady ==
  ASSUME Inv, LinesInv, OnDelegateResponse
  PROVE  LinesInv' /\ \A k \in Jobs : Steady(k)
<1> USE Types DEF Inv
<1>1. CASE pendingDelegate = <<>>
  BY <1>1 DEF OnDelegateResponse, LinesInv, Queued, Steady, Onward
<1>2. CASE pendingDelegate # <<>>
  <2> DEFINE w == Head(pendingDelegate)
             sig == Head(asked)
  <2>1. /\ w \in Jobs /\ pc[w] = "asking" /\ sig \in Jobs
        /\ RemoveAt(pendingDelegate, 1) = Tail(pendingDelegate)
    <3>1. w \in Jobs /\ pc[w] = "asking"
      BY <1>2, HeadAsks DEF LinesInv
    <3>2. sig \in Jobs
      BY DEF WaitersOK, OnDelegateResponse
    <3>3. pendingDelegate \in Seq(Jobs) /\ 1 \in DOMAIN pendingDelegate
      BY <1>2 DEF WaitersOK
    <3> QED BY <3>1, <3>2, <3>3, RemovedWaiter
  <2>2. pendingDelegate' = Tail(pendingDelegate) /\ (Signed(w, sig) \/ GiveUp(w))
    BY <1>2, <2>1 DEF OnDelegateResponse, WaiterFor
  <2>3. CASE Signed(w, sig)
    <3> DEFINE r == [job[w] EXCEPT !.signed = sig]
    <3>1. /\ r \in JobRecords /\ r.item = job[w].item /\ r.ts = job[w].ts
          /\ r.attempt = job[w].attempt
      <4>1. job[w] \in JobRecords
        BY <2>1 DEF JobsOK
      <4> QED BY <2>1, <4>1 DEF JobRecords
    <3>2. StartAttempt(w, r)
      BY <2>3 DEF Signed
    <3> HIDE DEF r
    <3>3. PICK x : pc' = [pc EXCEPT ![w] = x] /\ Tidy(calls', pc') /\ \A k \in Jobs : Steady(k)
      BY <2>1, <3>1, <3>2, StartSteady
    <3>4. Queued'
      BY <1>2, <2>2, <3>3, HeadLeft DEF LinesInv
    <3> QED BY <3>3, <3>4 DEF LinesInv
  <2>4. CASE GiveUp(w)
    BY <1>2, <2>2, <2>4, HeadFails DEF GiveUp
  <2> QED BY <2>2, <2>3, <2>4
<1> QED BY <1>1, <1>2

LEMMA ServedSteady ==
  ASSUME Inv, LinesInv, NEW r \in wire, Serve(r)
  PROVE  LinesInv' /\ \A k \in Jobs : Steady(k)
<1> USE Types DEF Inv
<1>1. r.kind \in Kinds
  BY DEF SentOK, Requests
<1>2. /\ Tidy(calls', pc')
      /\ \/ UNCHANGED pc
         \/ \E j \in Jobs : pc[j] = r.kind /\ pc' = [pc EXCEPT ![j] = "done"]
  BY <1>1, AcknowledgeTidy DEF Serve, LinesInv
<1>3. UNCHANGED <<job, pendingDelegate>>
  BY DEF Serve, askVars
<1>4. CASE UNCHANGED pc
  BY <1>2, <1>3, <1>4 DEF LinesInv, Queued, Steady, Onward
<1>5. ASSUME NEW j \in Jobs, pc[j] = r.kind, pc' = [pc EXCEPT ![j] = "done"]
      PROVE  LinesInv' /\ \A k \in Jobs : Steady(k)
  <2>1. Queued'
    BY <1>1, <1>3, <1>5, QueueStays DEF LinesInv, Queued
  <2>2. \A k \in Jobs : Steady(k)
    BY <1>1, <1>3, <1>5, EndSteady, EndsLast DEF Phases
  <2> QED BY <1>2, <2>1, <2>2 DEF LinesInv
<1> QED BY <1>2, <1>4, <1>5

LEMMA AnswersSteady ==
  ASSUME Inv, LinesInv, Answers
  PROVE  LinesInv' /\ \A k \in Jobs : Steady(k)
<1> USE Types DEF Inv
<1>1. CASE OnDelegateResponse
  BY <1>1, AnsweredSteady
<1>2. CASE AskRefused \/ \E r \in wire : Refuse(r)
  BY <1>2, HeadFails DEF AskRefused, Refuse, FailNextDelegate, sendVars
<1>3. ASSUME NEW j \in Jobs, Fetched(j)
      PROVE  LinesInv' /\ \A k \in Jobs : Steady(k)
  <2>1. /\ pc[j] = "get" /\ pc' = [pc EXCEPT ![j] = "put"]
        /\ UNCHANGED <<job, pendingDelegate>>
        /\ calls' = [calls EXCEPT !["put"] = Append(@, j)]
    BY <1>3 DEF Fetched, Send, askVars
  <2>2. Tidy(calls', pc')
    BY <2>1, NotInLine, SendTidy DEF LinesInv, SentOK
  <2>3. Queued'
    BY <2>1, QueueStays DEF LinesInv, Queued
  <2>4. Stage("get", job[j]) < Stage("put", job[j])
    <3>1. 5 * job[j].attempt \in Nat
      BY DEF JobsOK, JobRecords
    <3> QED BY <3>1 DEF Stage
  <2>5. \A k \in Jobs : Steady(k)
    BY <2>1, <2>4, EndSteady DEF Phases
  <2> QED BY <2>2, <2>3, <2>5 DEF LinesInv
<1>4. ASSUME NEW r \in wire, Serve(r)
      PROVE  LinesInv' /\ \A k \in Jobs : Steady(k)
  BY <1>4, ServedSteady
<1>5. CASE Reconnect
  <2>1. calls' = [k \in Kinds |-> <<>>] /\ pendingDelegate' = <<>> /\ UNCHANGED job
    BY <1>5 DEF Reconnect
  <2>2. LinesInv'
    BY <2>1 DEF LinesInv, Queued, Tidy, IsInjective
  <2>3. CASE UNCHANGED pc
    BY <2>1, <2>2, <2>3 DEF Steady, Onward
  <2>4. CASE pendingDelegate # <<>> /\ pc' = [pc EXCEPT ![Head(pendingDelegate)] = "failed"]
    BY <2>1, <2>2, <2>4, HeadAsks, EndSteady, EndsLast DEF LinesInv, Phases
  <2> QED BY <1>5, <2>3, <2>4 DEF Reconnect
<1> QED BY <1>1, <1>2, <1>3, <1>4, <1>5 DEF Answers

LEMMA Steadiness ==
  ASSUME Inv, LinesInv, [Next]_vars
  PROVE  LinesInv' /\ \A k \in Jobs : Steady(k)
<1>1. CASE UNCHANGED vars
  BY <1>1 DEF vars, askVars, sendVars, LinesInv, Queued, Steady, Onward
<1> QED BY <1>1, UsersSteady, TimeoutsSteady, AnswersSteady DEF Next
-----------------------------------------------------------------------------
(* What is acknowledged, and the cooldown *)

\* Who is asked about, signed for, sent or kept has started; what a contract keeps
\* is its own.
Begun ==
  /\ \A n \in DOMAIN asked : pc[asked[n]] # "idle"
  /\ \A j \in Jobs : job[j].signed # NoJob => pc[job[j].signed] # "idle"
  /\ \A r \in wire : \A e \in r.entries : pc[e] # "idle"
  /\ \A i \in Items : \A e \in node[i] : pc[e] # "idle" /\ job[e].item = i

Placed(j) == pc[j] # "idle" /\ job[j].item \in Tiles

\* Until a job fails, placements are a cooldown apart, and the next one will be.
Spaced ==
  \/ \E l \in Jobs : pc[l] = "failed"
  \/ /\ \A j, k \in Jobs : j # k /\ Placed(j) /\ Placed(k) =>
          job[j].ts + Cooldown <= job[k].ts \/ job[k].ts + Cooldown <= job[j].ts
     /\ \A j \in Jobs : Placed(j) => job[j].ts + Cooldown <= cooldownUntil

\* Unless jobs met, one at most is sending, whatever request the node answers is of
\* that job's contract and holds its entry, and what is done is kept.
Kept ==
  \/ crossed
  \/ /\ \A j, k \in Jobs : pc[j] \in Sending /\ pc[k] \in Sending => j = k
     /\ \A r \in wire, j \in Jobs : pc[j] \in Sending =>
          r.item = job[j].item /\ job[j].signed \in r.entries
     /\ \A j \in Jobs : pc[j] = "done" => job[j].signed \in node[job[j].item]

\* Where a step finds what it asks for, signs, sends and keeps.
Traced ==
  /\ \A n \in DOMAIN asked' :
       pc'[asked'[n]] # "idle" \/ \E m \in DOMAIN asked : asked'[n] = asked[m]
  /\ \A j \in Jobs :
       job'[j].signed \in {NoJob, job[j].signed} \/ \E m \in DOMAIN asked : job'[j].signed = asked[m]
  /\ \A r \in wire' \ wire : \A e \in r.entries :
       (\E i \in Items : e \in node[i]) \/ (\E j \in Jobs : e \in Jobs /\ e = job'[j].signed)
  /\ \A i \in Items : \A e \in node'[i] :
       e \in node[i] \/ \E r \in wire : Valid(r) /\ r.item = i /\ e \in r.entries

\* No job starts, and the cooldown ends with a failure only.
Still ==
  /\ \A k \in Jobs : pc[k] = "idle" => pc'[k] = "idle"
  /\ UNCHANGED cooldownUntil \/ \E l \in Jobs : pc'[l] = "failed"

\* Nobody starts to send or is done, and who sends sends its own.
Alone ==
  /\ UNCHANGED crossed
  /\ \A k \in Jobs : /\ pc'[k] \in Sending => pc[k] \in Sending
                     /\ pc'[k] = "done" => pc[k] = "done"
  /\ \A r \in wire' \ wire : \E j \in Jobs :
       pc[j] \in Sending /\ r.item = job[j].item /\ job[j].signed \in r.entries
  /\ \A i \in Items : node[i] \subseteq node'[i]

LEMMA SentBegin ==
  ASSUME Inv, Inv', \A k \in Jobs : Steady(k), Begun, Traced
  PROVE  Begun'
<1> USE Types, TypesNext DEF Inv
<1>1. \A e \in Jobs : pc[e] # "idle" => pc'[e] # "idle" /\ job'[e].item = job[e].item
  BY DEF Steady
<1>2. /\ \A n \in DOMAIN asked : asked[n] \in Jobs
      /\ \A j \in Jobs : job[j].signed \in Jobs \cup {NoJob}
      /\ \A j \in Jobs : job'[j].signed \in Jobs \cup {NoJob}
      /\ \A r \in wire : r.entries \subseteq Jobs
      /\ \A i \in Items : node[i] \subseteq Jobs
  <2>1. \A n \in DOMAIN asked : asked[n] \in Jobs
    BY DEF WaitersOK
  <2>2. \A j \in Jobs : job[j].signed \in Jobs \cup {NoJob}
    BY DEF JobsOK, JobRecords
  <2>3. \A j \in Jobs : job'[j].signed \in Jobs \cup {NoJob}
    BY DEF JobsOK, JobRecords
  <2>4. \A r \in wire : r.entries \subseteq Jobs
    BY DEF SentOK, Requests
  <2>5. \A i \in Items : node[i] \subseteq Jobs
    BY DEF RestOK
  <2> QED BY <2>1, <2>2, <2>3, <2>4, <2>5
<1>3. \A n \in DOMAIN asked' : pc'[asked'[n]] # "idle"
  BY <1>1, <1>2 DEF Begun, Traced
<1>4. \A j \in Jobs : job'[j].signed # NoJob => pc'[job'[j].signed] # "idle"
  BY <1>1, <1>2 DEF Begun, Traced
<1>5. \A r \in wire' : \A e \in r.entries : pc'[e] # "idle"
  BY <1>1, <1>2, <1>4 DEF Begun, Traced
<1>6. \A i \in Items : \A e \in node'[i] : pc'[e] # "idle" /\ job'[e].item = i
  BY <1>1, <1>2 DEF Begun, Traced, Valid
<1> QED BY <1>3, <1>4, <1>5, <1>6 DEF Begun

LEMMA StillSpaced ==
  ASSUME \A k \in Jobs : Steady(k), Spaced, Still
  PROVE  Spaced'
<1>1. CASE \E l \in Jobs : pc[l] = "failed"
  BY <1>1 DEF Steady, Spaced
<1>2. CASE \E l \in Jobs : pc'[l] = "failed"
  BY <1>2 DEF Spaced
<1>3. CASE UNCHANGED cooldownUntil /\ ~\E l \in Jobs : pc[l] = "failed"
  <2>1. \A j \in Jobs : Placed(j)' => Placed(j) /\ job'[j].ts = job[j].ts
    BY DEF Placed, Steady, Still
  <2> QED BY <1>3, <2>1 DEF Spaced
<1> QED BY <1>1, <1>2, <1>3 DEF Still

LEMMA AloneKept ==
  ASSUME Inv, \A k \in Jobs : Steady(k), Kept, Alone
  PROVE  Kept'
<1>1. CASE crossed
  BY <1>1 DEF Kept, Alone
<1>2. CASE ~crossed
  <2>1. \A j \in Jobs : pc[j] \in Sending \cup {"done"} =>
          job'[j].item = job[j].item /\ job'[j].signed = job[j].signed
    BY DEF Steady
  <2>2. \A j, k \in Jobs : pc'[j] \in Sending /\ pc'[k] \in Sending => j = k
    BY <1>2 DEF Kept, Alone
  <2>3. ASSUME NEW r \in wire', NEW j \in Jobs, pc'[j] \in Sending
        PROVE  r.item = job'[j].item /\ job'[j].signed \in r.entries
    <3>1. pc[j] \in Sending
      BY <2>3 DEF Alone
    <3>2. r.item = job[j].item /\ job[j].signed \in r.entries
      BY <1>2, <3>1 DEF Kept, Alone
    <3> QED BY <2>1, <3>1, <3>2
  <2>4. ASSUME NEW j \in Jobs, pc'[j] = "done"
        PROVE  job'[j].signed \in node'[job'[j].item]
    <3>1. pc[j] = "done" /\ job[j].item \in Items
      BY <2>4, Types DEF Alone, Inv, JobsOK, JobRecords
    <3> QED BY <1>2, <2>1, <3>1 DEF Kept, Alone
  <2> QED BY <2>2, <2>3, <2>4 DEF Kept
<1> QED BY <1>1, <1>2
LEMMA FailTraces ==
  ASSUME JobsOK, SentOK, NEW j \in Jobs, pc[j] \in {"update", "get", "put"},
         AlternativeFails(j)
  PROVE  /\ \E x \in Sending \cup {"failed"} :
              /\ pc' = [pc EXCEPT ![j] = x]
              /\ UNCHANGED cooldownUntil \/ x = "failed"
         /\ \A r \in wire' \ wire : r.item = job[j].item /\ r.entries = {job[j].signed}
<1>1. job[j] \in JobRecords
  BY DEF JobsOK
<1>2. CASE job[j].first
  <2> DEFINE r == [job[j] EXCEPT !.first = FALSE]
  <2>1. r.signed = job[j].signed
    BY <1>1 DEF JobRecords
  <2>2. PICK phase \in {"update", "get"} : Enter(j, phase, r, Abandoned(j))
    BY <1>2 DEF AlternativeFails
  <2> HIDE DEF r
  <2>3. /\ pc' = [pc EXCEPT ![j] = phase]
        /\ \A q \in wire' \ wire : q.item = job[j].item /\ q.entries = {job[j].signed}
    BY <2>1, <2>2 DEF Enter, Send
  <2>4. UNCHANGED cooldownUntil
    BY <1>2 DEF AlternativeFails
  <2> QED BY <2>3, <2>4
<1>3. CASE ~job[j].first
  BY <1>3 DEF AlternativeFails, AttemptFails
<1> QED BY <1>2, <1>3

LEMMA StartTraces ==
  ASSUME JobsOK, NEW j \in Jobs, NEW r \in JobRecords, StartAttempt(j, r)
  PROVE  /\ \E x \in {"update", "get"} : pc' = [pc EXCEPT ![j] = x]
         /\ \A q \in wire' \ wire :
              q.item = job[j].item /\ q.entries = {r.signed} /\ q \in wire'
         /\ \A k \in Jobs : job'[k].signed = IF k = j THEN r.signed ELSE job[k].signed
<1> DEFINE s == [r EXCEPT !.first = TRUE]
<1>1. s.signed = r.signed
  BY DEF JobRecords
<1>2. PICK phase \in {"update", "get"} : Enter(j, phase, s, calls)
  BY DEF StartAttempt
<1> HIDE DEF s
<1>3. /\ pc' = [pc EXCEPT ![j] = phase] /\ job' = [job EXCEPT ![j] = s]
      /\ \A q \in wire' \ wire : q.item = job[j].item /\ q.entries = {r.signed}
  BY <1>1, <1>2 DEF Enter, Send
<1> QED BY <1>1, <1>3 DEF JobsOK

LEMMA TimeoutsQuiet ==
  ASSUME Inv, LinesInv, Timeouts
  PROVE  Traced /\ Still /\ Alone
<1> USE Types DEF Inv
<1>1. PICK j \in Jobs : TimeoutCall(j) \/ Retry(j) \/ TimeoutAsk(j)
  BY DEF Timeouts
<1>2. CASE TimeoutCall(j)
  <2>1. /\ pc[j] \in {"update", "get", "put"} /\ AlternativeFails(j)
        /\ UNCHANGED <<asked, node, crossed>>
    BY <1>2 DEF TimeoutCall, askVars
  <2>2. job[j].signed \in Jobs /\ \A k \in Jobs : job'[k].signed = job[k].signed
    BY <2>1, FailKeepsSigned DEF JobsOK
  <2>3. PICK x \in Sending \cup {"failed"} :
          /\ pc' = [pc EXCEPT ![j] = x]
          /\ UNCHANGED cooldownUntil \/ x = "failed"
    BY <2>1, FailTraces
  <2>4. \A r \in wire' \ wire : r.item = job[j].item /\ r.entries = {job[j].signed}
    BY <2>1, FailTraces
  <2>5. Traced
    BY <2>1, <2>2, <2>4 DEF Traced
  <2>6. Still /\ Alone
    BY <2>1, <2>3, <2>4 DEF Still, Alone, JobsOK
  <2> QED BY <2>5, <2>6
<1>3. CASE Retry(j)
  <2>1. /\ pc[j] = "pausing" /\ StartAttempt(j, job[j]) /\ job[j] \in JobRecords
        /\ UNCHANGED <<asked, node, crossed, cooldownUntil>>
    BY <1>3 DEF Retry, askVars, JobsOK
  <2>2. PICK x \in {"update", "get"} : pc' = [pc EXCEPT ![j] = x]
    BY <2>1, StartTraces
  <2>3. /\ \A r \in wire' \ wire : r.item = job[j].item /\ r.entries = {job[j].signed}
        /\ \A k \in Jobs : job'[k].signed = job[k].signed
    BY <2>1, StartTraces
  <2>4. job[j].signed \in Jobs
    BY <2>1 DEF JobsOK
  <2>5. Traced
    BY <2>1, <2>3, <2>4 DEF Traced
  <2>6. Still /\ Alone
    BY <2>1, <2>2, <2>3 DEF Still, Alone, JobsOK
  <2> QED BY <2>5, <2>6
<1>4. CASE TimeoutAsk(j)
  <2>1. /\ pc[j] = "asking" /\ pc' = [pc EXCEPT ![j] = "failed"]
        /\ UNCHANGED <<job, asked, wire, node, crossed>>
    BY <1>4 DEF TimeoutAsk, sendVars
  <2> QED BY <2>1 DEF Traced, Still, Alone, JobsOK
<1> QED BY <1>1, <1>2, <1>3, <1>4

LEMMA OthersQuiet ==
  ASSUME Inv, LinesInv,
         \/ AskRefused \/ Reconnect
         \/ \E j \in Jobs : Fetched(j)
         \/ \E r \in wire : Refuse(r)
  PROVE  Traced /\ Still /\ Alone
<1> USE Types DEF Inv
<1>1. ASSUME asked # <<>> PROVE \A n \in DOMAIN Tail(asked) : \E m \in DOMAIN asked :
                                  Tail(asked)[n] = asked[m]
  <2>1. asked \in Seq(Jobs)
    BY DEF WaitersOK
  <2>2. \A n \in DOMAIN Tail(asked) : n + 1 \in DOMAIN asked /\ Tail(asked)[n] = asked[n + 1]
    BY <1>1, <2>1
  <2> QED BY <2>2
<1>2. ASSUME pendingDelegate # <<>>, pc' = [pc EXCEPT ![Head(pendingDelegate)] = "failed"]
      PROVE  /\ Still
             /\ \A k \in Jobs : /\ pc'[k] \in Sending => pc[k] \in Sending
                                /\ pc'[k] = "done" => pc[k] = "done"
  <2>1. Head(pendingDelegate) \in Jobs /\ pc[Head(pendingDelegate)] = "asking"
    BY <1>2, HeadAsks DEF LinesInv
  <2> QED BY <1>2, <2>1 DEF Still, JobsOK
<1>3. CASE AskRefused
  <2>1. /\ asked # <<>> /\ asked' = Tail(asked) /\ UNCHANGED <<job, wire, node, crossed>>
        /\ pendingDelegate # <<>> /\ pc' = [pc EXCEPT ![Head(pendingDelegate)] = "failed"]
    BY <1>3 DEF AskRefused, FailNextDelegate, sendVars
  <2>2. Traced
    BY <1>1, <2>1 DEF Traced
  <2> QED BY <1>2, <2>1, <2>2 DEF Alone
<1>4. ASSUME NEW r \in wire, Refuse(r)
      PROVE  Traced /\ Still /\ Alone
  <2>1. /\ UNCHANGED <<job, asked, node, crossed>> /\ wire' \subseteq wire
        /\ pendingDelegate # <<>> /\ pc' = [pc EXCEPT ![Head(pendingDelegate)] = "failed"]
    BY <1>4 DEF Refuse, FailNextDelegate
  <2>2. Traced
    BY <2>1 DEF Traced
  <2> QED BY <1>2, <2>1, <2>2 DEF Alone
<1>5. ASSUME NEW j \in Jobs, Fetched(j)
      PROVE  Traced /\ Still /\ Alone
  <2>1. /\ pc[j] = "get" /\ pc' = [pc EXCEPT ![j] = "put"]
        /\ UNCHANGED <<job, asked, node, crossed, cooldownUntil>>
        /\ \A r \in wire' \ wire :
             r.item = job[j].item /\ r.entries = node[job[j].item] \cup {job[j].signed}
    BY <1>5 DEF Fetched, Send, askVars
  <2>2. job[j].signed \in Jobs /\ job[j].item \in Items
    BY <2>1 DEF JobsOK, JobRecords
  <2>3. Traced
    BY <2>1, <2>2 DEF Traced
  <2>4. Still /\ Alone
    BY <2>1, <2>2 DEF Still, Alone, JobsOK
  <2> QED BY <2>3, <2>4
<1>6. CASE Reconnect
  <2>1. /\ asked' = <<>> /\ wire' = {} /\ UNCHANGED <<job, crossed>>
        /\ \/ UNCHANGED <<pc, cooldownUntil>>
           \/ pendingDelegate # <<>> /\ pc' = [pc EXCEPT ![Head(pendingDelegate)] = "failed"]
    BY <1>6 DEF Reconnect
  <2>2. PICK served \in SUBSET {r \in wire : Valid(r)} :
          node' = [i \in Items |->
            node[i] \cup UNION {r.entries : r \in {q \in served : q.item = i}}]
    BY <1>6 DEF Reconnect
  <2>3. \A i \in Items :
          /\ node[i] \subseteq node'[i]
          /\ \A e \in node'[i] :
               e \in node[i] \/ \E r \in wire : Valid(r) /\ r.item = i /\ e \in r.entries
    BY <2>2
  <2>4. Traced
    BY <2>1, <2>3 DEF Traced
  <2>5. CASE UNCHANGED <<pc, cooldownUntil>>
    BY <2>1, <2>3, <2>4, <2>5 DEF Still, Alone
  <2>6. CASE pendingDelegate # <<>> /\ pc' = [pc EXCEPT ![Head(pendingDelegate)] = "failed"]
    BY <1>2, <2>1, <2>3, <2>4, <2>6 DEF Alone
  <2> QED BY <2>1, <2>5, <2>6
<1> QED BY <1>3, <1>4, <1>5, <1>6
LEMMA AnsweredKeeps ==
  ASSUME Inv, LinesInv, Kept, OnDelegateResponse
  PROVE  Traced /\ Still /\ Kept'
<1> USE Types DEF Inv
<1> DEFINE w == Head(pendingDelegate)
           sig == Head(asked)
<1>1. /\ asked # <<>> /\ asked' = Tail(asked) /\ sig \in Jobs /\ UNCHANGED node
      /\ \A n \in DOMAIN asked' : \E m \in DOMAIN asked : asked'[n] = asked[m]
      /\ \E m \in DOMAIN asked : sig = asked[m]
  <2>1. asked # <<>> /\ asked' = Tail(asked) /\ asked \in Seq(Jobs) /\ UNCHANGED node
    BY DEF OnDelegateResponse, WaitersOK
  <2>2. /\ \A n \in DOMAIN Tail(asked) : n + 1 \in DOMAIN asked /\ Tail(asked)[n] = asked[n + 1]
        /\ 1 \in DOMAIN asked /\ sig = asked[1] /\ sig \in Jobs
    BY <2>1
  <2> QED BY <2>1, <2>2
<1>2. \A k \in Jobs : Steady(k)
  BY AnsweredSteady
<1>3. CASE pendingDelegate = <<>>
  <2>1. UNCHANGED <<pc, job, cooldownUntil, wire, crossed>>
    BY <1>3 DEF OnDelegateResponse
  <2>2. Traced /\ Still /\ Alone
    BY <1>1, <2>1 DEF Traced, Still, Alone
  <2> QED BY <1>2, <2>2, AloneKept
<1>4. CASE pendingDelegate # <<>>
  <2>1. w \in Jobs /\ pc[w] = "asking" /\ (Signed(w, sig) \/ GiveUp(w))
    <3>1. w \in Jobs /\ pc[w] = "asking" /\ pendingDelegate[1] = w
      BY <1>4, HeadAsks DEF LinesInv, WaitersOK
    <3> QED BY <1>4, <3>1 DEF OnDelegateResponse, WaiterFor
  <2> HIDE DEF w, sig
  <2>2. CASE GiveUp(w)
    <3>1. pc' = [pc EXCEPT ![w] = "failed"] /\ UNCHANGED <<job, wire, crossed>>
      BY <2>2 DEF GiveUp
    <3>2. Traced /\ Still /\ Alone
      BY <1>1, <2>1, <3>1 DEF Traced, Still, Alone, JobsOK
    <3> QED BY <1>2, <3>2, AloneKept
  <2>3. CASE Signed(w, sig)
    <3> DEFINE r == [job[w] EXCEPT !.signed = sig]
    <3>1. r \in JobRecords /\ r.signed = sig
      BY <1>1, <2>1 DEF JobsOK, JobRecords
    <3>2. StartAttempt(w, r) /\ UNCHANGED cooldownUntil
      BY <2>3 DEF Signed
    <3> HIDE DEF r
    <3>3. PICK x \in {"update", "get"} : pc' = [pc EXCEPT ![w] = x]
      BY <2>1, <3>1, <3>2, StartTraces
    <3>4. /\ \A q \in wire' \ wire : q.item = job[w].item /\ q.entries = {sig}
          /\ \A k \in Jobs : job'[k].signed = IF k = w THEN sig ELSE job[k].signed
      BY <2>1, <3>1, <3>2, StartTraces
    <3>5. Traced
      BY <1>1, <2>1, <3>4 DEF Traced
    <3>6. Still
      BY <2>1, <3>2, <3>3 DEF Still, JobsOK
    <3>7. Kept'
      <4>1. CASE crossed'
        BY <4>1 DEF Kept
      <4>2. CASE ~crossed'
        <5>1. ~crossed /\ wire = {} /\ \A k \in Jobs : pc[k] \notin Sending
          BY <2>3, <4>2 DEF Signed
        <5>2. \A k \in Jobs : /\ pc'[k] \in Sending => k = w
                              /\ pc'[k] = "done" => pc[k] = "done" /\ k # w
          BY <2>1, <3>3, <5>1 DEF JobsOK
        <5>3. job'[w].signed = sig /\ job'[w].item = job[w].item
          BY <1>2, <2>1, <3>4 DEF Steady
        <5>4. \A k \in Jobs : pc'[k] = "done" => job'[k].signed \in node'[job'[k].item]
          BY <1>1, <1>2, <5>1, <5>2 DEF Kept, Steady
        <5> QED BY <3>4, <5>1, <5>2, <5>3, <5>4 DEF Kept
      <4> QED BY <4>1, <4>2
    <3> QED BY <3>5, <3>6, <3>7
  <2> QED BY <2>1, <2>2, <2>3
<1> QED BY <1>3, <1>4

LEMMA ServedKeeps ==
  ASSUME Inv, LinesInv, Kept, NEW r \in wire, Serve(r)
  PROVE  Traced /\ Still /\ Kept'
<1> USE Types DEF Inv
<1>1. r.kind \in Kinds /\ r.item \in Items
  BY DEF SentOK, Requests
<1>2. /\ wire' \subseteq wire /\ Valid(r) /\ UNCHANGED <<job, asked, cooldownUntil, crossed>>
      /\ node' = [node EXCEPT ![r.item] = @ \cup r.entries]
  BY DEF Serve, askVars
<1>3. \A i \in Items : node'[i] = IF i = r.item THEN node[i] \cup r.entries ELSE node[i]
  BY <1>1, <1>2 DEF RestOK
<1>4. \/ UNCHANGED pc
      \/ \E j \in Jobs : pc[j] = r.kind /\ pc' = [pc EXCEPT ![j] = "done"]
  BY <1>1, AcknowledgeTidy DEF Serve, LinesInv
<1>5. Traced
  BY <1>2, <1>3 DEF Traced
<1>6. \A k \in Jobs :
        /\ pc[k] = "idle" => pc'[k] = "idle"
        /\ pc'[k] \in Sending => pc[k] \in Sending
        /\ pc'[k] = "done" => pc[k] = "done" \/ pc[k] \in Sending
  BY <1>1, <1>4 DEF JobsOK
<1>7. Still
  BY <1>2, <1>6 DEF Still
<1>8. Kept'
  <2>1. CASE crossed
    BY <1>2, <2>1 DEF Kept
  <2>2. CASE ~crossed
    <3>1. ASSUME NEW j \in Jobs, pc'[j] = "done" PROVE job[j].signed \in node'[job[j].item]
      <4>1. job[j].item \in Items
        BY DEF JobsOK, JobRecords
      <4>2. CASE pc[j] = "done"
        BY <1>3, <2>2, <4>1, <4>2 DEF Kept
      <4>3. CASE pc[j] \in Sending
        BY <1>3, <2>2, <4>1, <4>3 DEF Kept
      <4> QED BY <1>6, <3>1, <4>2, <4>3
    <3> QED BY <1>2, <1>6, <2>2, <3>1 DEF Kept
  <2> QED BY <2>1, <2>2
<1> QED BY <1>5, <1>7, <1>8

LEMMA UsersQuiet ==
  ASSUME Inv, Inv', Begun, Spaced, Users
  PROVE  Traced /\ Alone /\ Spaced'
<1> USE Types, TypesNext DEF Inv
<1>1. PICK j \in Jobs, i \in Items :
        /\ Later(j) /\ Ask(j)
        /\ job' = [job EXCEPT ![j] = NewJob(i, now')]
        /\ \/ i \notin Tiles /\ UNCHANGED cooldownUntil
           \/ now' >= cooldownUntil /\ cooldownUntil' = now' + Cooldown
        /\ UNCHANGED <<sendVars, node, crossed>>
  BY DEF Users, Say, Place
<1>2. /\ pc[j] = "idle" /\ pc' = [pc EXCEPT ![j] = "asking"]
      /\ asked' = Append(asked, j)
  BY <1>1 DEF Later, Ask
<1>3. /\ \A k \in Jobs \ {j} : pc'[k] = pc[k] /\ job'[k] = job[k]
      /\ pc'[j] = "asking" /\ job'[j].item = i /\ job'[j].ts = now' /\ job'[j].signed = NoJob
  BY <1>1, <1>2 DEF JobsOK, NewJob
<1>4. Traced
  <2>1. asked \in Seq(Jobs)
    BY DEF WaitersOK
  <2>2. \A n \in DOMAIN asked' : asked'[n] = j \/ \E m \in DOMAIN asked : asked'[n] = asked[m]
    BY <1>2, <2>1
  <2> QED BY <1>1, <1>3, <2>2 DEF Traced, sendVars
<1>5. Alone
  BY <1>1, <1>2, <1>3 DEF Alone, sendVars
<1>6. Spaced'
  <2>1. CASE \E l \in Jobs : pc[l] = "failed"
    BY <1>2, <1>3, <2>1 DEF Spaced
  <2>2. CASE ~\E l \in Jobs : pc[l] = "failed"
    <3>1. \A k \in Jobs \ {j} : Placed(k)' => Placed(k) /\ job'[k].ts = job[k].ts
      BY <1>3 DEF Placed
    <3>2. /\ now' \in Nat /\ cooldownUntil \in Nat /\ Cooldown \in Nat
          /\ \A k \in Jobs : job[k].ts \in Nat
      BY DEF RestOK, CooldownOK, JobsOK, JobRecords
    <3>3. CASE i \notin Tiles /\ UNCHANGED cooldownUntil
      <4>1. ~Placed(j)'
        BY <1>3, <3>3 DEF Placed
      <4> QED BY <2>2, <3>1, <3>3, <4>1 DEF Spaced
    <3>4. CASE now' >= cooldownUntil /\ cooldownUntil' = now' + Cooldown
      <4>1. \A k \in Jobs \ {j} : Placed(k)' =>
              job'[k].ts + Cooldown <= job'[j].ts /\ job'[k].ts + Cooldown <= cooldownUntil'
        BY <1>3, <2>2, <3>1, <3>2, <3>4 DEF Spaced
      <4>2. \A k, l \in Jobs \ {j} : k # l /\ Placed(k)' /\ Placed(l)' =>
              job'[k].ts + Cooldown <= job'[l].ts \/ job'[l].ts + Cooldown <= job'[k].ts
        BY <2>2, <3>1 DEF Spaced
      <4>3. job'[j].ts + Cooldown <= cooldownUntil'
        <5>1. now' + Cooldown <= now' + Cooldown
          BY <3>2
        <5> QED BY <1>3, <3>4, <5>1
      <4> QED BY <4>1, <4>2, <4>3 DEF Spaced
    <3> QED BY <1>1, <3>3, <3>4
  <2> QED BY <2>1, <2>2
<1> QED BY <1>4, <1>5, <1>6

-----------------------------------------------------------------------------
Further == LinesInv /\ Begun /\ Spaced /\ Kept

LEMMA FurtherInvariant == Spec => []Further
<1>1. Init => Further
  <2> SUFFICES ASSUME Init PROVE Further
    OBVIOUS
  <2>1. LinesInv
    BY DEF Init, LinesInv, Queued, Tidy, IsInjective
  <2>2. \A j \in Jobs : pc[j] = "idle" /\ job[j].signed = NoJob
    BY DEF Init, NewJob
  <2>3. Begun
    BY <2>2 DEF Init, Begun
  <2>4. Spaced /\ Kept
    BY <2>2 DEF Init, Spaced, Placed, Kept
  <2> QED BY <2>1, <2>3, <2>4 DEF Further
<1>2. ASSUME Inv, Inv', Further, [Next]_vars
      PROVE  Further'
  <2>1. LinesInv' /\ \A k \in Jobs : Steady(k)
    BY <1>2, Steadiness DEF Further
  <2>2. CASE UNCHANGED vars
    <3>1. Begun' /\ Spaced' /\ Kept'
      BY <1>2, <2>2 DEF Further, vars, askVars, sendVars, Begun, Spaced, Placed, Kept
    <3> QED BY <2>1, <3>1 DEF Further
  <2>3. CASE Users
    BY <1>2, <2>1, <2>3, UsersQuiet, SentBegin, AloneKept DEF Further
  <2>4. CASE Timeouts
    BY <1>2, <2>1, <2>4, TimeoutsQuiet, SentBegin, StillSpaced, AloneKept DEF Further
  <2>5. CASE Answers
    <3>1. Traced /\ Still /\ (Alone \/ Kept')
      BY <1>2, <2>5, OthersQuiet, AnsweredKeeps, ServedKeeps DEF Further, Answers
    <3> QED BY <1>2, <2>1, <3>1, SentBegin, StillSpaced, AloneKept DEF Further
  <2> QED BY <1>2, <2>2, <2>3, <2>4, <2>5 DEF Next
<1> QED BY <1>1, <1>2, Invariant, PTL DEF Spec, SafeSpec

\* What the page takes for sent is in its contract, whichever alternatives and
\* attempts it took, unless jobs met: the waiters' line and the SDK's lines hold no
\* promise but that of the one job that waits for it.
THEOREM AcknowledgedStays == Spec => []AcknowledgedIsKept
<1>1. Further => AcknowledgedIsKept
  BY DEF Further, Kept, AcknowledgedIsKept
<1> QED BY <1>1, FurtherInvariant, PTL

\* For any tiles, cooldown and number of jobs: two placements that both got in are a
\* cooldown apart, until the page reports a failure (the "true global cooldown").
THEOREM CooldownsAreKept == Spec => []CooldownKept
<1>1. ASSUME Inv, Further PROVE CooldownKept
  <2> SUFFICES ASSUME NEW j \in Jobs, NEW k \in Jobs, j # k,
                      \E i, h \in Tiles : j \in node[i] /\ k \in node[h],
                      job[j].ts \in job[k].ts .. job[k].ts + Cooldown - 1,
                      ~\E l \in Jobs : pc[l] = "failed"
               PROVE  FALSE
    BY DEF CooldownKept
  <2>1. Placed(j) /\ Placed(k)
    BY <1>1 DEF Further, Begun, Placed
  <2>2. job[j].ts + Cooldown <= job[k].ts \/ job[k].ts + Cooldown <= job[j].ts
    BY <1>1, <2>1 DEF Further, Spaced
  <2>3. job[j].ts \in Nat /\ job[k].ts \in Nat /\ Cooldown \in Nat
    BY <1>1, Types DEF Inv, JobsOK, JobRecords
  <2> QED BY <2>2, <2>3
<1> QED BY <1>1, Invariant, FurtherInvariant, PTL

\* Whatever answers come, late, twice or never, and whatever alternatives and attempts it
\* takes, no step takes a job back: each one that touches it brings it closer to its end,
\* of which it is never farther than 5 * MaxAttempts + 2.  (updateWithRetry and
\* updateOrPut loop no more often than that: with timers that go off it is what
\* EveryJobEnds needs.)
NobodyGoesBack == [][\A j \in Jobs : Onward(j)]_vars

StagesAreBounded == \A j \in Jobs : Stage(pc[j], job[j]) \in 0 .. LastStage

THEOREM JobsGoOnward == Spec => NobodyGoesBack /\ []StagesAreBounded
<1>1. Inv /\ Further /\ [Next]_vars => \A j \in Jobs : Onward(j)
  BY Steadiness DEF Further, Steady
<1>2. Inv => StagesAreBounded
  BY StageBounds, Types DEF Inv, StagesAreBounded, JobsOK
<1> QED BY <1>1, <1>2, Invariant, FurtherInvariant, PTL
        DEF Spec, SafeSpec, NobodyGoesBack
=============================================================================
