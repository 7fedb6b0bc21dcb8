----------------------------- MODULE RegistryJs -----------------------------
(***************************************************************************)
(* The registry in the browser: RegistryStateJs of web/src/state.ts, the   *)
(* view from which a page takes tiers and nicknames and which drops proofs *)
(* and signatures, and mergeRegistryState of web/src/merge.ts, which keeps *)
(* them.                                                                   *)
(***************************************************************************)
EXTENDS Registry

\* A record of the view; a nickname is the rank of its signature, in place of its
\* text, and none is null, of version 0.
Unknown == [tier |-> "none", admittedTs |-> 0, nickname |-> 0, nicknameVersion |-> 0]

Known(v) == v # Unknown

ShownRecords == [tier : {"none", "pow", "ghostkey"}, admittedTs : Nat, nickname : Nat,
                 nicknameVersion : Nat]

\* decodeAdmissionRecord: what the view keeps of a record.
Decoded(r) ==
  [tier |-> r.core.tier, admittedTs |-> r.core.ts,
   nickname |-> r.nickname.sig, nicknameVersion |-> r.nickname.version]

\* applyNickname: of equal versions the first stays.
ApplyNicknameJs(v, name, version) ==
  IF Known(v) /\ version > v.nicknameVersion
    THEN [v EXCEPT !.nickname = name, !.nicknameVersion = version] ELSE v

\* A view that takes the first record's core for good.
FirstCore(v, w) ==
  IF ~Known(v) THEN w ELSE ApplyNicknameJs(v, w.nickname, w.nicknameVersion)

\* insertAdmission: of equal times the first stays.
InsertAdmission(v, w) ==
  IF ~Known(v) THEN w
  ELSE ApplyNicknameJs(
         IF w.admittedTs < v.admittedTs
           THEN [v EXCEPT !.tier = w.tier, !.admittedTs = w.admittedTs] ELSE v,
         w.nickname, w.nicknameVersion)

\* decodeRegistryState, and refreshAll's merge of it into a view.
DecodeRegistryState(reg) == [a \in Authors |-> Decoded(reg[a])]

MergeIntoView(view, reg) ==
  [a \in Authors |-> IF Admitted(reg[a]) THEN InsertAdmission(view[a], Decoded(reg[a]))
                     ELSE view[a]]

\* applyRegistryDelta: the admissions first.
ApplyRegistryDelta(view, delta) ==
  [a \in Authors |->
     ApplyNicknameJs(MergeIntoView(view, delta.admissions)[a],
                     delta.nicknames[a].sig, delta.nicknames[a].version)]

-----------------------------------------------------------------------------
(* merge.ts, on whole records *)

\* null loses against any nickname, and of equal ones the first stays.
BetterNicknameJs(n, m) ==
  IF n = NoNickname THEN m
  ELSE IF m = NoNickname THEN n
  ELSE IF m.version > n.version \/ (m.version = n.version /\ m.sig > n.sig) THEN m ELSE n

\* The nickname of whichever record gives the core.
CoreTakesAll(mine, r) ==
  IF ~Admitted(mine) \/ CoreLess(r.core, mine.core) THEN r ELSE mine

\* insertRecord: the record with the smaller core gets the better nickname.
InsertRecordJs(mine, r) ==
  IF ~Admitted(mine) THEN r
  ELSE LET core == IF CoreLess(r.core, mine.core) THEN r ELSE mine
       IN [core EXCEPT !.nickname = BetterNicknameJs(mine.nickname, r.nickname)]

\* mergeRegistryState: nicknames of authors without a record are dropped.
MergeRegistryState(reg, delta) ==
  LET merged == [a \in Authors |->
        IF Admitted(delta.admissions[a]) THEN InsertRecordJs(reg[a], delta.admissions[a])
        ELSE reg[a]]
  IN [a \in Authors |->
        IF Admitted(merged[a])
          THEN [merged[a] EXCEPT !.nickname = BetterNicknameJs(@, delta.nicknames[a])]
          ELSE merged[a]]
=============================================================================
