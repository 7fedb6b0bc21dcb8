------------------------------- MODULE Release -------------------------------
(***************************************************************************)
(* scripts/release.sh for one contract of the application.  A build's code *)
(* determines its instance id, so a changed contract starts out as a new,  *)
(* empty instance, and the release tells the web application which         *)
(* instances it displaces.  `set -e' ends a release at any step that       *)
(* fails; whatever it did before stays done.                               *)
(***************************************************************************)
EXTENDS Naturals, Sequences, SequencesExt

CONSTANTS Codes,         \* the builds, that is the instance ids, in order
          MaxReleases,   \* bound on the releases started
          Faults         \* which of "abort", "stale", "rollback" may happen

VARIABLES manifest,   \* release.env: the instance of the last full release
          legacy,     \* legacy/*.ids: the displaced instances, as appended
          pointer,    \* the application that the facade points to
          run,        \* the release in progress
          started,    \* how many releases were started
          served,     \* history: the instances that were pointed to
          full        \* history: the instances of full releases

relVars == <<manifest, legacy, pointer, run, started, served, full>>

ASSUME CodesAssumption == Codes \subseteq Nat \ {0} /\ MaxReleases \in Nat

NoCode == 0

\* An application knows its contract instance and the displaced ones.
App(code, ids) == [inst |-> code, legacy |-> ids]

NoApp == App(NoCode, <<>>)

Idle == [pc |-> "idle", code |-> NoCode, old |-> NoCode, app |-> NoApp]

-----------------------------------------------------------------------------
RelInit ==
  /\ manifest = NoCode /\ legacy = <<>> /\ pointer = NoApp
  /\ run = Idle /\ started = 0 /\ served = {} /\ full = {}

\* The previous manifest is read and the new instance id derived.
Start(code) ==
  /\ run.pc = "idle" /\ started < MaxReleases
  /\ "rollback" \in Faults \/ code >= manifest
  /\ run' = [pc |-> "recording", code |-> code, old |-> manifest, app |-> NoApp]
  /\ started' = started + 1
  /\ UNCHANGED <<manifest, legacy, pointer, served, full>>

\* A record that only starts the file.
RecordFirst ==
  /\ run.pc = "recording"
  /\ legacy' = IF run.old = NoCode \/ legacy # <<>> THEN legacy
               ELSE Append(legacy, run.old)
  /\ run' = [run EXCEPT !.pc = "building"]
  /\ UNCHANGED <<manifest, pointer, started, served, full>>

\* record_legacy appends the displaced instance, if it is one and is new there.
Record ==
  /\ run.pc = "recording"
  /\ legacy' = IF run.old \in {NoCode, run.code} \/ run.old \in ToSet(legacy)
               THEN legacy ELSE Append(legacy, run.old)
  /\ run' = [run EXCEPT !.pc = "building"]
  /\ UNCHANGED <<manifest, pointer, started, served, full>>

\* ids_json writes the file's lines in reverse into the web build, which is
\* then published with the contracts.
BuildAndPublish ==
  /\ run.pc = "building"
  /\ run' = [run EXCEPT !.pc = "flipping", !.app = App(run.code, Reverse(legacy))]
  /\ UNCHANGED <<manifest, legacy, pointer, started, served, full>>

\* The pointer moves, or the network takes the update and serves the old one.
Flip ==
  /\ run.pc = "flipping"
  /\ \/ /\ pointer' = run.app
        /\ served' = served \cup {run.code}
     \/ "stale" \in Faults /\ UNCHANGED <<pointer, served, full>>
  /\ run' = [run EXCEPT !.pc = "verifying"]
  /\ UNCHANGED <<manifest, legacy, started, full>>

\* A release that writes its manifest without a look at what is served.
FinishUnverified ==
  /\ run.pc = "verifying"
  /\ manifest' = run.code /\ full' = full \cup {run.code}
  /\ run' = Idle
  /\ UNCHANGED <<legacy, pointer, started, served>>

\* The stable URL must serve this release before the manifest is written.
Finish ==
  /\ run.pc = "verifying"
  /\ IF pointer = run.app
       THEN manifest' = run.code /\ full' = full \cup {run.code}
       ELSE UNCHANGED <<manifest, full>>
  /\ run' = Idle
  /\ UNCHANGED <<legacy, pointer, started, served>>

\* A step fails: no node, no disk, an interrupt.
Abort ==
  /\ "abort" \in Faults /\ run.pc # "idle"
  /\ run' = Idle
  /\ UNCHANGED <<manifest, legacy, pointer, started, served, full>>

RelNext ==
  \/ \E code \in Codes : Start(code)
  \/ Record \/ BuildAndPublish \/ Flip \/ Finish \/ Abort

-----------------------------------------------------------------------------
AppRecords == [inst : Codes \cup {NoCode}, legacy : Seq(Codes)]

\* The types; no id is in the legacy file twice, and a release is of a build.
RelTypeOK ==
  /\ manifest \in Codes \cup {NoCode}
  /\ legacy \in Seq(Codes) /\ IsInjective(legacy)
  /\ pointer \in AppRecords
  /\ run \in [pc : {"idle", "recording", "building", "flipping", "verifying"},
             code : Codes \cup {NoCode}, old : Codes \cup {NoCode}, app : AppRecords]
  /\ run.pc # "idle" => run.code \in Codes
  /\ started \in 0 .. MaxReleases
  /\ served \subseteq Codes /\ full \subseteq Codes

\* The manifest names a release that the stable URL has served.  (release.sh:
\* "a silently stale pointer must fail the release before the manifest is
\* written".)
ManifestWasServed == manifest # NoCode => manifest \in served

\* What an application knows of the instances.
Known(app) == {app.inst} \cup ToSet(app.legacy)

\* Wherever a release fails and however often one is run again, the application
\* that is served knows the instance of every full release.
FullReleasesKnown == full \subseteq Known(pointer)
=============================================================================
