------------------------------ MODULE Reconcile ------------------------------
(***************************************************************************)
(* The reconciliation worker of one managed application: Apply and         *)
(* everything it calls in supervisor/reconcile/reconcile.go, with the      *)
(* persisted state of supervisor/state, the deaths and restarts of the     *)
(* process around it, and applyBundle with the placement of all its files  *)
(* as one step and their restore as another (ConfigBundle has the files).  *)
(*                                                                         *)
(* Outside the repository and so abstract here: the cloud, which numbers   *)
(* desired states and sends them again when a hello shows another          *)
(* generation, and the managed software, which the supervisor sees only    *)
(* through hooks.  Hook behaviour follows the fixture in                   *)
(* sdk/fixtures/blackbox/hooks.                                            *)
(***************************************************************************)
EXTENDS Naturals

CONSTANTS
  Versions,          \* software versions
  InitialVersion,    \* the version installed before the supervisor first runs
  NoVersion,         \* Go's "" for a version, and an absent package part
  Contents,          \* the [package, revision] pairs the cloud may ask for
  Mixed,             \* configuration files left half placed
  MaxGeneration,     \* bound on the cloud's desired-state changes
  HasVersionHook,    \* does the manifest define package.version?
  HasRollbackHook,   \* does the manifest define package.rollback?
  Faults,            \* operations that may fail by themselves
  Deaths,            \* how the process may end: "kill" and "term"
  MaxDeaths          \* bound on the number of deaths

FaultKinds == {"load", "save", "fetch", "version", "health", "upgrade",
               "rollback", "bundle", "place", "apply", "restore"}

ASSUME ConstantsAssumption ==
  /\ InitialVersion \in Versions
  /\ NoVersion \notin Versions
  /\ Mixed \notin Nat
  /\ Contents \subseteq [package : Versions \cup {NoVersion}, revision : Nat]
  /\ MaxGeneration \in Nat
  /\ MaxDeaths \in Nat
  /\ HasVersionHook \in BOOLEAN
  /\ HasRollbackHook \in BOOLEAN
  /\ Faults \subseteq FaultKinds
  /\ Deaths \subseteq {"kill", "term"}

VARIABLES
  \* The cloud (external) and the link's one-place document queue.
  desired,   \* the current desired-state document
  inbox,     \* docCh of link.Run: the newest document not yet taken
  view,      \* the last observed-state report that reached the cloud
  \* The supervisor process.
  up,        \* "running", "stopping" (context canceled) or "down"
  deaths,    \* deaths so far
  pc,        \* where the worker is inside Apply
  doc,       \* the document being applied
  local,     \* Apply's in-memory copy of the state file
  seen,      \* applyPackage's variable "current"
  \* What outlives the process.
  disk,      \* the state file
  cached,    \* versions whose verified artifact is in the artifacts directory
  app,       \* the managed software
  previous,  \* the copy the upgrade hook keeps for the rollback hook
  live,      \* the configuration in the managed files: a revision or Mixed
  before,    \* the backup of the running placement
  astray     \* history: a death during a placement, or a restore that failed, may
             \* have left files other than recorded, and nothing was placed since

cloudVars == <<desired, inbox, view>>
softVars  == <<app, previous>>
confVars  == <<live, before, astray>>
procVars  == <<up, deaths>>
vars == <<desired, inbox, view, up, deaths, pc, doc, local, seen,
          disk, cached, app, previous, live, before, astray>>
-------------------------------------------------------------------------------
NoDoc  == [generation |-> 0, package |-> NoVersion, revision |-> 0]
NoOp   == [generation |-> 0, version |-> NoVersion]
NoApp  == [version |-> NoVersion, state |-> "none"]
NoView == [generation |-> 0, version |-> NoVersion, revision |-> 0, status |-> "none"]

EmptyLocal == [version |-> NoVersion, revision |-> 0, generation |-> 0,
               status |-> "none", inFlight |-> NoOp]

Terminal == {"installed", "failed", "rolled-back"}
Phases   == {"downloading", "upgrading", "staging", "applying"}

Doc    == [generation : Nat, package : Versions \cup {NoVersion}, revision : Nat]
Op     == [generation : Nat, version : Versions \cup {NoVersion}]
Local  == [version : Versions \cup {NoVersion}, revision : Nat, generation : Nat,
           status : Terminal \cup {"none"}, inFlight : Op]
Report == [generation : Nat, version : Versions \cup {NoVersion}, revision : Nat,
           status : Terminal \cup Phases \cup {"none"}]

\* "good": passed a health check since it last changed, "unproven": changed
\* completely but not checked since, "torn": a hook died or failed half way.
Software == [version : Versions \cup {NoVersion},
             state : {"good", "unproven", "torn", "none"}]

Upgrading   == {"upgrade", "upgrading", "verify", "rollback", "rolling", "restored"}
Configuring == {"place", "gate", "restore"}
Locations   == {"idle", "compare", "fetch", "bundle", "stage", "failed", "report"}
                 \cup Upgrading \cup Configuring

TypeOK ==
  /\ desired \in Doc /\ inbox \in Doc /\ doc \in Doc
  /\ view \in Report
  /\ up \in {"running", "stopping", "down"}
  /\ deaths \in 0..MaxDeaths
  /\ pc \in Locations
  /\ local \in Local /\ disk \in Local
  /\ seen \in Versions \cup {NoVersion}
  /\ cached \subseteq Versions
  /\ app \in Software /\ previous \in Software
  /\ live \in Nat \cup {Mixed} /\ before \in Nat \cup {Mixed} /\ astray \in BOOLEAN

Init ==
  /\ desired = NoDoc /\ inbox = NoDoc /\ view = NoView
  /\ up = "running" /\ deaths = 0
  /\ pc = "idle" /\ doc = NoDoc /\ local = EmptyLocal /\ seen = NoVersion
  /\ disk = EmptyLocal /\ cached = {}
  /\ app = [version |-> InitialVersion, state |-> "good"] /\ previous = NoApp
  /\ live = 0 /\ before = 0 /\ astray = FALSE
-------------------------------------------------------------------------------
(* Helpers: what each call made by the worker can return or change.          *)

MayFail(kind) == kind \in Faults \/ up = "stopping"

\* Mutant: the recorded version is preferred to the version hook.
RecordedVersionFirst == {local.version}

\* currentVersion: the version hook's answer, or the recorded version when the
\* manifest has no version hook or the hook fails.
CurrentVersion ==
  (IF HasVersionHook /\ up = "running" THEN {app.version} ELSE {})
    \cup (IF ~HasVersionHook \/ MayFail("version") THEN {local.version} ELSE {})

\* The health hook.  Torn software may answer either way.
Healthy ==
  (IF up = "running" THEN {TRUE} ELSE {})
    \cup (IF MayFail("health") \/ app.state = "torn" THEN {FALSE} ELSE {})

Proven(a) == IF a.state = "unproven" THEN [a EXCEPT !.state = "good"] ELSE a

\* Mutant: the state file has no in-flight marker.
SaveWithoutMarker(l) == disk' = [l EXCEPT !.inFlight = NoOp]

\* state.Save: an atomic replacement, and its error is only logged.
Save(l) == disk' = l \/ ("save" \in Faults /\ UNCHANGED disk)

\* client.send: dropped while disconnected.
Send(status, version, revision) ==
  \/ view' = [generation |-> doc.generation, version |-> version,
              revision |-> revision, status |-> status]
  \/ UNCHANGED view

\* Mutants of Outcome: the last phase is recorded as the status, the generation
\* is not recorded, the document's revision is recorded whatever came of it.
OutcomeIsPhase(status, version) ==
  [local EXCEPT !.version = version, !.generation = doc.generation,
                !.status = view.status, !.inFlight = NoOp]

OutcomeKeepsGeneration(status, version) ==
  [local EXCEPT !.version = version, !.status = status, !.inFlight = NoOp]

OutcomeTakesRevision(status, version) ==
  [local EXCEPT !.version = version, !.generation = doc.generation,
                !.revision = doc.revision, !.status = status, !.inFlight = NoOp]

\* The state file after a failed or rolled-back operation (finish), and after
\* complete convergence (the end of Apply).
Outcome(status, version) ==
  [local EXCEPT !.version = version, !.generation = doc.generation,
                !.status = status, !.inFlight = NoOp]

\* The state file while the managed software is being changed.
ThisOperation == [generation |-> doc.generation, version |-> doc.package]

\* Mutant: marking starts a new state file.
MarkedAfresh(l) == [EmptyLocal EXCEPT !.inFlight = ThisOperation]

Marked(l) == [l EXCEPT !.inFlight = ThisOperation]

Finish(status, version) ==
  /\ local' = Outcome(status, version)
  /\ Save(local')
  /\ pc' = "report"

Go(place) == pc' = place
-------------------------------------------------------------------------------
(* The environment: the cloud and the service manager.                       *)

\* The cloud changes the desired state and pushes it; the push is lost unless
\* the supervisor is there to take it.  Of two waiting documents only the
\* newer is kept.
SetDesired(c) ==
  /\ desired.generation < MaxGeneration
  /\ desired' = [generation |-> desired.generation + 1,
                 package |-> c.package, revision |-> c.revision]
  /\ inbox' \in {inbox} \cup (IF up = "running" THEN {desired'} ELSE {})
  /\ UNCHANGED <<view, procVars, pc, doc, local, seen, disk, cached, softVars, confVars>>

\* A session opens and its hello carries the state file's generation; the cloud
\* answers another generation with the current document.  This may happen
\* while the worker is still applying that very document.
Resend ==
  /\ up = "running"
  /\ disk.generation # desired.generation
  /\ inbox' = desired
  /\ UNCHANGED <<desired, view, procVars, pc, doc, local, seen, disk, cached,
                 softVars, confVars>>

\* What the managed files may hold if the process ends now.
FilesAtDeath ==
  IF pc \in {"place", "restore"} THEN {Mixed, before, doc.revision} ELSE {live}

Dies ==
  /\ deaths < MaxDeaths
  /\ deaths' = deaths + 1

\* Everything in memory is gone.
Forget ==
  /\ up' = "down" /\ pc' = "idle"
  /\ inbox' = NoDoc /\ doc' = NoDoc /\ local' = EmptyLocal /\ seen' = NoVersion
  /\ live' \in FilesAtDeath
  /\ astray' = (astray \/ pc \in Configuring)
  /\ UNCHANGED <<desired, view, disk, cached, softVars, before>>

Kill ==
  /\ "kill" \in Deaths /\ up # "down"
  /\ Dies
  /\ Forget

\* SIGTERM cancels the context of every loop; hooks and fetches fail from here.
Term ==
  /\ "term" \in Deaths /\ up = "running"
  /\ Dies
  /\ up' = "stopping"
  /\ UNCHANGED <<cloudVars, pc, doc, local, seen, disk, cached, softVars, confVars>>

\* main returns as soon as the loops have, without waiting for the worker.
Exit ==
  /\ up = "stopping"
  /\ Forget
  /\ UNCHANGED deaths

Restart ==
  /\ up = "down"
  /\ up' = "running"
  /\ UNCHANGED <<deaths, cloudVars, pc, doc, local, seen, disk, cached, softVars, confVars>>
-------------------------------------------------------------------------------
(* Apply and applyPackage.                                                   *)

\* A document with neither part is dropped without a trace.
IgnoreEmpty ==
  /\ up # "down" /\ pc = "idle"
  /\ inbox # NoDoc /\ inbox.package = NoVersion /\ inbox.revision = 0
  /\ inbox' = NoDoc
  /\ UNCHANGED <<desired, view, procVars, pc, doc, local, seen, disk, cached,
                 softVars, confVars>>

\* Apply loads the state file and clears the marker of an interrupted operation.
Take ==
  /\ up # "down" /\ pc = "idle"
  /\ inbox.package # NoVersion \/ inbox.revision # 0
  /\ inbox' = NoDoc /\ doc' = inbox
  /\ \E l \in {disk} \cup (IF "load" \in Faults THEN {EmptyLocal} ELSE {}) :
        /\ local' = [l EXCEPT !.inFlight = NoOp]
        /\ IF l.inFlight # NoOp THEN Save(local') ELSE UNCHANGED disk
  /\ Go(IF inbox.package # NoVersion THEN "compare" ELSE "bundle")
  /\ UNCHANGED <<desired, view, procVars, seen, cached, softVars, confVars>>

Compare ==
  /\ up # "down" /\ pc = "compare"
  /\ \E v \in CurrentVersion :
        \/ /\ v = doc.package
           /\ local' = [local EXCEPT !.version = v]
           /\ Go("bundle")
           /\ UNCHANGED <<view, seen>>
        \/ /\ v # doc.package
           /\ seen' = v
           /\ Send("downloading", v, local.revision)
           /\ Go("fetch")
           /\ UNCHANGED local
  /\ UNCHANGED <<desired, inbox, procVars, doc, disk, cached, softVars, confVars>>

\* artifacts.Fetch: a verified copy is reused without the network.
FetchOk ==
  /\ up # "down" /\ pc = "fetch"
  /\ doc.package \in cached \/ up = "running"
  /\ cached' = cached \cup {doc.package}
  /\ local' = Marked(local)
  /\ Save(local')
  /\ Send("upgrading", seen, local.revision)
  /\ Go("upgrade")
  /\ UNCHANGED <<desired, inbox, procVars, doc, seen, softVars, confVars>>

FetchFails ==
  /\ up # "down" /\ pc = "fetch"
  /\ doc.package \notin cached /\ MayFail("fetch")
  /\ Finish("failed", seen)
  /\ UNCHANGED <<cloudVars, procVars, doc, seen, cached, softVars, confVars>>

\* The upgrade hook first keeps a copy of what it replaces.
UpgradeStarts ==
  /\ up = "running" /\ pc = "upgrade"
  /\ previous' = app
  /\ app' \in [version : {app.version, doc.package}, state : {"torn"}]
  /\ Go("upgrading")
  /\ UNCHANGED <<cloudVars, procVars, doc, local, seen, disk, cached, confVars>>

\* The hook does not start, or refuses before it touches anything.
UpgradeRefused ==
  /\ up # "down" /\ pc = "upgrade" /\ MayFail("upgrade")
  /\ Go("rollback")
  /\ UNCHANGED <<cloudVars, procVars, doc, local, seen, disk, cached, softVars, confVars>>

\* It succeeds, exits 0 with the old version still in place, or fails half way.
UpgradeReturns ==
  /\ up # "down" /\ pc = "upgrading"
  /\ \/ /\ up = "running"
        /\ app' = [version |-> doc.package, state |-> "unproven"]
        /\ Go("verify")
     \/ /\ up = "running" /\ "upgrade" \in Faults
        /\ app' = [version |-> previous.version, state |-> "unproven"]
        /\ Go("verify")
     \/ /\ MayFail("upgrade")
        /\ Go("rollback")
        /\ UNCHANGED app
  /\ UNCHANGED <<cloudVars, procVars, doc, local, seen, disk, cached, previous, confVars>>

\* Mutant: the version alone decides.
VerifyVersionOnly ==
  /\ up # "down" /\ pc = "verify"
  /\ \E v \in CurrentVersion, healthy \in Healthy :
        \/ /\ v = doc.package
           /\ local' = [local EXCEPT !.version = v]
           /\ Save(local')
           /\ app' = IF healthy THEN Proven(app) ELSE app
           /\ Go("bundle")
        \/ /\ v # doc.package
           /\ Go("rollback")
           /\ UNCHANGED <<local, disk, app>>
  /\ UNCHANGED <<cloudVars, procVars, doc, seen, cached, previous, confVars>>

\* The version hook decides what is installed now, and health gates it.
Verify ==
  /\ up # "down" /\ pc = "verify"
  /\ \E v \in CurrentVersion, healthy \in Healthy :
        \/ /\ v = doc.package /\ healthy
           /\ local' = [local EXCEPT !.version = v]
           /\ Save(local')
           /\ app' = Proven(app)
           /\ Go("bundle")
        \/ /\ v # doc.package \/ ~healthy
           /\ Go("rollback")
           /\ UNCHANGED <<local, disk, app>>
  /\ UNCHANGED <<cloudVars, procVars, doc, seen, cached, previous, confVars>>

\* The rollback hook is missing, does not start or refuses.
RollbackRefused ==
  /\ up # "down" /\ pc = "rollback"
  /\ ~HasRollbackHook \/ MayFail("rollback") \/ previous = NoApp
  /\ Go("failed")
  /\ UNCHANGED <<cloudVars, procVars, doc, local, seen, disk, cached, softVars, confVars>>

RollbackStarts ==
  /\ up = "running" /\ pc = "rollback"
  /\ HasRollbackHook /\ previous # NoApp
  /\ app' \in [version : {app.version, previous.version}, state : {"torn"}]
  /\ Go("rolling")
  /\ UNCHANGED <<cloudVars, procVars, doc, local, seen, disk, cached, previous, confVars>>

RollbackReturns ==
  /\ up # "down" /\ pc = "rolling"
  /\ \/ /\ up = "running"
        /\ app' = previous
        /\ Go("restored")
     \/ /\ MayFail("rollback")
        /\ Go("failed")
        /\ UNCHANGED app
  /\ UNCHANGED <<cloudVars, procVars, doc, local, seen, disk, cached, previous, confVars>>

RolledBack ==
  /\ up # "down" /\ pc = "restored"
  /\ \E v \in CurrentVersion : Finish("rolled-back", v)
  /\ UNCHANGED <<cloudVars, procVars, doc, seen, cached, softVars, confVars>>

Fail ==
  /\ up # "down" /\ pc = "failed"
  /\ \E v \in CurrentVersion : Finish("failed", v)
  /\ UNCHANGED <<cloudVars, procVars, doc, seen, cached, softVars, confVars>>
-------------------------------------------------------------------------------
(* applyBundle and the end of Apply.                                         *)

\* Mutant: an older revision than the recorded one needs no placement.
OlderIsPlaced == doc.revision <= local.revision

NothingToPlace == doc.revision = 0 \/ local.revision = doc.revision

Succeed ==
  /\ up # "down" /\ pc = "bundle" /\ NothingToPlace
  /\ local' = Outcome("installed", local.version)
  /\ Save(local')
  /\ Go("report")
  /\ UNCHANGED <<cloudVars, procVars, doc, seen, cached, softVars, confVars>>

StartBundle ==
  /\ up # "down" /\ pc = "bundle" /\ ~NothingToPlace
  /\ \E v \in CurrentVersion : Send("staging", v, local.revision)
  /\ Go("stage")
  /\ UNCHANGED <<desired, inbox, procVars, doc, local, seen, disk, cached, softVars, confVars>>

\* Verification, staging, the validate hook and the backup directory.
StageOk ==
  /\ up # "down" /\ pc = "stage"
  /\ before' = live
  /\ Go("place")
  /\ UNCHANGED <<cloudVars, procVars, doc, local, seen, disk, cached, softVars, live, astray>>

StageFails ==
  /\ up # "down" /\ pc = "stage" /\ MayFail("bundle")
  /\ Go("failed")
  /\ UNCHANGED <<cloudVars, procVars, doc, local, seen, disk, cached, softVars, confVars>>

Place ==
  /\ up # "down" /\ pc = "place"
  /\ live' = doc.revision
  /\ \E v \in CurrentVersion : Send("applying", v, local.revision)
  /\ Go("gate")
  /\ UNCHANGED <<desired, inbox, procVars, doc, local, seen, disk, cached, softVars,
                 before, astray>>

PlaceFails ==
  /\ up # "down" /\ pc = "place" /\ "place" \in Faults
  /\ Go("restore")
  /\ UNCHANGED <<cloudVars, procVars, doc, local, seen, disk, cached, softVars, confVars>>

\* The apply hook, then the health gate.
GateOk ==
  /\ up = "running" /\ pc = "gate"
  /\ local' = [local EXCEPT !.revision = doc.revision]
  /\ Save(local')
  /\ app' = Proven(app)
  /\ astray' = FALSE
  /\ Go("bundle")
  /\ UNCHANGED <<cloudVars, procVars, doc, seen, cached, previous, live, before>>

GateFails ==
  /\ up # "down" /\ pc = "gate"
  /\ MayFail("apply") \/ FALSE \in Healthy
  /\ Go("restore")
  /\ UNCHANGED <<cloudVars, procVars, doc, local, seen, disk, cached, softVars, confVars>>

\* Mutant: the list of placed files is empty when restore runs.
RestoreNothing ==
  /\ up # "down" /\ pc = "restore"
  /\ Go("failed")
  /\ UNCHANGED <<cloudVars, procVars, doc, local, seen, disk, cached, softVars, confVars>>

\* What cannot be read, put back or removed is only logged, and a file that could
\* not be read when it was replaced counts as one that was not there.
RestoreFiles ==
  /\ up # "down" /\ pc = "restore"
  /\ \/ live' = before /\ UNCHANGED astray
     \/ "restore" \in Faults /\ live' \in {Mixed, doc.revision} /\ astray' = TRUE
  /\ Go("failed")
  /\ UNCHANGED <<cloudVars, procVars, doc, local, seen, disk, cached, softVars, before>>

\* The terminal report, after the state file: a crash may fall in between.
ReportOutcome ==
  /\ up # "down" /\ pc = "report"
  /\ \E v \in IF local.status = "installed" THEN CurrentVersion ELSE {local.version} :
        Send(local.status, v, local.revision)
  /\ Go("idle")
  /\ doc' = NoDoc /\ local' = EmptyLocal /\ seen' = NoVersion
  /\ UNCHANGED <<desired, inbox, procVars, disk, cached, softVars, confVars>>
-------------------------------------------------------------------------------
Package ==
  \/ Compare \/ FetchOk \/ FetchFails
  \/ UpgradeStarts \/ UpgradeRefused \/ UpgradeReturns \/ Verify
  \/ RollbackRefused \/ RollbackStarts \/ RollbackReturns \/ RolledBack

Configuration ==
  \/ StartBundle \/ StageOk \/ StageFails \/ Place \/ PlaceFails
  \/ GateOk \/ GateFails \/ RestoreFiles

Worker ==
  \/ IgnoreEmpty \/ Take
  \/ Package \/ Configuration
  \/ Succeed \/ Fail \/ ReportOutcome

\* The worker blocks in its select while there is no document.
Waiting ==
  /\ up = "running" /\ pc = "idle" /\ inbox = NoDoc
  /\ UNCHANGED vars

Next ==
  \/ \E c \in Contents : SetDesired(c)
  \/ Resend
  \/ Kill \/ Term \/ Exit \/ Restart
  \/ Worker
  \/ Waiting

Spec == Init /\ [][Next]_vars

\* Every hook has a timeout and every attempt of a fetch ends (so the worker
\* goes on), the session loop redials for ever and says hello each time, and
\* the service manager restarts what has ended.
Fairness ==
  /\ WF_vars(Worker)
  /\ WF_vars(Resend)
  /\ WF_vars(Exit)
  /\ WF_vars(Restart)

FairSpec == Spec /\ Fairness
-------------------------------------------------------------------------------
(* Properties.  A step that concludes a document decides its outcome, saves  *)
(* it and puts the worker in front of its report.                            *)

Concludes(statuses) ==
  /\ pc # "report" /\ pc' = "report"
  /\ local'.status \in statuses

\* "Trust the black box, verify the outcome": a document with a package is
\* recorded as installed, and any document as rolled back, only over software
\* that passed its health check since it last changed.
OutcomeIsProven ==
  [][/\ Concludes({"installed"}) => doc.package = NoVersion \/ app.state = "good"
     /\ Concludes({"rolled-back"}) => app.state = "good"]_vars

\* Apply's comment: software in a failed state is never reconfigured.  No
\* placement starts over software that is half changed or unproven.
FailedIsNeverReconfigured ==
  [][pc # "place" /\ pc' = "place" => app.state = "good"]_vars

\* The single installed report covers both parts: when it is recorded, the
\* package's version and the bundle's files are both what the document asks for
\* (the files unless they went astray, of which the code keeps no record).
InstalledIsComplete ==
  [][Concludes({"installed"}) =>
       /\ doc.package # NoVersion => app.version = doc.package
       /\ doc.revision # 0 /\ ~astray => live = doc.revision]_vars

\* What the single installed report says of the bundle even then: it shows what
\* the missing record costs (bundle.go:26).
InstalledIsInPlace ==
  [][Concludes({"installed"}) /\ doc.revision # 0 => live = doc.revision]_vars

\* Between documents, and whenever the process is down, the revision the state
\* file records is the one in the files.  Only a death during a placement and a
\* restore that fails put the two apart, and the next placement that passes its
\* gate brings them together again.
RevisionIsLive == pc = "idle" /\ ~astray => live = disk.revision

\* The state file takes a new revision only while exactly its files are live.
OnlyCompleteRevisionsRecorded ==
  [][disk'.revision # disk.revision => live = disk'.revision]_vars

\* A document that arrives late, again or after a restart never takes the
\* recorded generation back.
NeverRegresses == [][disk'.generation >= disk.generation]_vars

\* The in-flight marker is on disk, for this very operation, whenever a death
\* could leave the software half changed by an upgrade or a rollback.
MutationIsMarked ==
  pc \in Upgrading => disk.inFlight = ThisOperation

\* The cloud never sees a terminal outcome that a crash could take back: it is
\* in the state file before it is reported.
ReportedIsDurable ==
  view.status \in Terminal => view.generation <= disk.generation

\* What a rollback leaves is the version that ran before the upgrade started.
RollbackReturnsToPrevious ==
  [][Concludes({"rolled-back"}) => local'.version = seen]_vars

\* Terminal outcomes are durable: one generation has one outcome.
OutcomeIsStable ==
  [][disk'.generation = disk.generation => disk'.status = disk.status]_vars

\* Every desired state is settled, one way or the other, once the cloud stops
\* changing its mind.
Settles == <>[](disk.generation = desired.generation)

\* ... and when nothing but crashes goes wrong, the way is "installed".
Converges ==
  <>[](/\ disk.generation = desired.generation
       /\ desired # NoDoc => disk.status = "installed")

\* A crash between the marker and success is distinguishable from idle: a
\* supervisor that starts over half-changed software finds the marker.
TornIsMarked ==
  up = "down" /\ app.state = "torn" => disk.inFlight # NoOp

\* What the code keeps of that: the first kill, wherever in an upgrade or a
\* rollback it falls and whatever failed before it, leaves the marker with the
\* software it half changed (reconcile.go:91-104,146-153).
TornIsVisible ==
  up = "down" /\ app.state = "torn" => disk.inFlight # NoOp \/ deaths > 1

\* An orderly stop that breaks an upgrade off is told by the marker or by the
\* failure it was recorded as.
StopIsVisible ==
  up = "down" /\ app.state = "torn" =>
    disk.inFlight # NoOp \/ disk.status = "failed" \/ deaths > 1
-------------------------------------------------------------------------------
(* Strengthenings that make the properties above inductive.                  *)

\* A package is only handled when there is one, and only software that was
\* there is kept for a rollback.
WellFormed ==
  /\ pc \in {"compare", "fetch"} \cup Upgrading => doc.package \in Versions
  /\ app.version \in Versions
  /\ previous # NoApp => previous.version \in Versions
  /\ pc \in {"upgrading", "verify", "rolling", "restored"} => previous # NoApp

\* Generations in order: recorded, being applied, waiting, desired.
GenerationsOrdered ==
  /\ disk.generation <= desired.generation
  /\ inbox # NoDoc => /\ disk.generation <= inbox.generation
                      /\ inbox.generation <= desired.generation
                      /\ pc # "idle" => doc.generation <= inbox.generation
  /\ pc # "idle" => /\ disk.generation <= doc.generation
                    /\ doc.generation <= desired.generation
  /\ pc \notin {"idle", "report"} => local.generation = disk.generation

\* The marker is in memory and on disk from FetchOk to the end of the upgrade
\* or the rollback.
Marking ==
  pc \in Upgrading => local.inFlight = ThisOperation /\ disk.inFlight = ThisOperation

\* What is recorded when the terminal report is sent.
Recorded ==
  /\ pc = "report" => disk.generation = doc.generation
  /\ view.status \in Terminal => view.generation <= disk.generation

\* While nothing dies the software is half changed or unproven only between an
\* upgrade's start and the end of its gate or its rollback.
SoftwareGood ==
  /\ up = "running"
  /\ previous # NoApp => previous.state = "good"
  /\ pc \notin {"upgrading", "verify", "rolling"} =>
       \/ app.state = "good"
       \/ pc = "rollback" /\ previous # NoApp
  /\ pc = "verify" => app.state = "unproven"

\* A revision is in memory ahead of the state file only when it is live.
RevisionsRecorded ==
  /\ pc # "idle" => \/ local.revision = disk.revision
                    \/ /\ pc \in {"bundle", "report"}
                       /\ local.revision = doc.revision /\ live = doc.revision
  /\ pc = "gate" => live = doc.revision

\* A load that failed forgets which revision was recorded.
Forgotten(l) == "load" \in Faults /\ l.revision = 0

\* While saves succeed: the recorded revision is live or kept to be restored,
\* unless it was forgotten or the files went astray.
InStep ==
  /\ pc # "idle" => local.revision = disk.revision \/ Forgotten(local)
  /\ pc \in Configuring /\ ~astray => before = disk.revision \/ Forgotten(disk)
  /\ pc \notin {"gate", "restore"} /\ ~astray => live = disk.revision \/ Forgotten(disk)
  /\ pc = "gate" => live = doc.revision

\* The package part of a document is done before its bundle is looked at.
PackageFirst ==
  pc \in {"bundle", "stage", "place", "gate"} /\ doc.package # NoVersion
    => app.version = doc.package

\* Without a version hook no version is ever recorded: a package then counts as
\* missing for ever, and its upgrade is rolled back.
NoneRecordedUnasked ==
  ~HasVersionHook => local.version = NoVersion /\ disk.version = NoVersion /\ seen = NoVersion

\* Before the first kill only a running hook has the software half changed, or
\* the rollback that is about to undo it can; after it, the marker is there.
TornOnlyInHooks ==
  /\ up # "stopping"
  /\ up = "down" => deaths > 0
  /\ deaths = 0 =>
       /\ previous.state # "torn"
       /\ app.state = "torn" =>
            pc \in {"upgrading", "rolling"} \/ (pc = "rollback" /\ previous # NoApp)
  /\ TornIsVisible
===============================================================================
