# Verification of the thinRE supervisor

TLA+ specifications of the thinRE supervisor (`src/supervisor`,
`src/cmd/supervisor`), the configurations with which TLC checks them, and proofs
that the TLA+ proof system checks.

The supervisor keeps existing software in a desired state it gets from a cloud:
a package version, a configuration bundle, or both. It sees the software only
through hooks (upgrade, rollback, version, health, validate, apply). What makes
it correct is what happens when hooks fail, when the process is killed between
two steps, when documents arrive late, twice or replaced, and when the state
file does not say what the machine looks like. That is what is modelled here.

Around that stand the way a supervisor starts and enrolls, the Windows service
it may run as, and the command that publishes the manifests it will read.

To check a run: `tlc -config <run>.cfg <module>.tla`; to check the proofs:
`tlapm <module>Proof.tla`.

## 1. Inventory

| Component | State | Operations | Module |
|---|---|---|---|
| Reconciler, package lifecycle (`reconcile/reconcile.go`) | the document being applied, the in-memory copy of the state file | `Apply`, `applyPackage`, `rollback`, `finish`, `currentVersion`, `Observe` | `Reconcile` |
| Reconciler, configuration bundles (`reconcile/bundle.go`) | destinations, staging, the backup directory, the list of placed files | `applyBundle`, `restore`, `atomicWrite` | `ConfigBundle`, abstractly `BundleActivation`; `Reconcile` |
| State file (`state/state.go`) | installed version, revision, last generation and status, in-flight marker | `Load`, `Save` | `AtomicFile`, abstractly `Register`; `SharedState`; its fields in `Reconcile` |
| Link client (`link/client.go`) | `c.conn`, the one-place document queue | `Run`, `submit`, `session`, `send`, the worker, the ticker | `Link`, `LatestWins`, abstractly `Mailbox`; `SharedState` |
| Artifact download (`artifacts/artifacts.go`) | the staging and the artifacts directory | `Fetch`, `fetchOnce` | `Fetch`, abstractly `ArtifactStore` |
| Startup (`cmd/supervisor/main.go`), enrollment (`enroll`), identity (`identity`) | token, identity files, one loop per application | `run`, `enrollMissing`, `enroll.Do`, `identity.Load`, `identity.Save` | `Enrollment`; the files also `AtomicFile` |
| Hooks (`hooks/hooks.go`) | a process, its descendants, two pipes, two timers | `Run` | `Hooks` |
| Windows service (`service_windows.go`) | service status, the end of `run` | `Execute`, the verbs `install`, `uninstall`, `start`, `stop` | `Service` |
| Integration manifest (`integration-spec`) | none | `Parse`, `Validate` | `Manifest` |
| Command-line client (`cmd/cli`) | what it has read and resolved | `publish`, its only command | `Publish` |
| Configuration and layout (`supervisor/config.go`, `layout.go`) | none | `LoadConfig`, `Ensure` | partly: their outcomes, in `Enrollment` |
| Bundle manifest hash (`bundle`) | none | `ManifestHash` | partly: what it identifies, `Verified` in `ConfigBundle` |
| Wire types (`protocol`) | none | | partly: the fields control flow depends on |
| Fixtures, testbed, website | | | not modelled; the fixture's hooks are the hook behaviour `Reconcile` assumes |

### How they interact

```
 author --thinre publish--> cloud --state--> Link session --submit--> one-place queue
                              ^                 ^                          |
                              |  hello          | dial, redial             v
                              |  observed       |                    worker: Apply --> Fetch
                              +---- send <------+---- ticker: Observe      |     \--> applyBundle
                                                          |                |          |
                                                     hooks.Run      state file    hooks.Run
 service manager --Stop, start--> Execute --ctx--> run --> one Link per application
```

Per application there are three goroutines: the session loop, the worker and the
ticker. They share the state file (written by the worker alone), the queue
(written by the session, read by the worker) and `c.conn` (read under a mutex,
used after it is released). Applications share the process, the enrollment
exchange and the context that SIGTERM or a Stop of the service cancels. `main`
returns as soon as every session loop has, without waiting for the workers.

### What is hard

- *Death between two steps.* `Apply` changes the software, the files and the
  state file one after the other. Recovery is to apply the current document
  again, over whatever the dead process left.
- *Orderly stop.* SIGTERM cancels the context of the running hook or fetch,
  which then fails like any other, while the worker goes on to record an outcome
  until the process is gone.
- *Documents.* The cloud sends the current document whenever a hello carries
  another generation, so also while that very document is being applied.
- *Half-failures.* A hook fails half way; a file is placed and the next one is
  not; a file cannot be put back, or the state file not saved, which is only
  logged; the state file cannot be read, which counts as empty.
- *Stale reads.* A report is built from the state file, then hooks run, then it
  is written to a connection that was read before the write.
- *Shared files.* The session and the ticker read the state file while the
  worker replaces it, fails to, or dies doing so.
- *Processes.* A hook's timeout kills the hook and not its descendants; they
  hold the pipes, and `cmd.Run` waits for pipes.
- *Two ends of the service.* A Stop is on its way while `run` ends by itself.
- *The single-use token.* Its exchange and the saving of the identities are not
  one step, and the list of applications may be edited between two starts.
- *Publishing.* One command is four requests, each of which may be done and its
  answer lost, about a file that somebody is editing.

### What makes each component correct

- *Package lifecycle.* Installed is recorded only over software that passed its
  gate; nothing is reconfigured over failed software; the marker is on disk
  while software changes; an outcome is durable before it is reported;
  generations never go back; every last desired state is settled.
- *Bundles.* All files of a revision or none; a failure leaves files and running
  software as found; a recorded revision was complete.
- *State file.* Whoever reads it finds a value that was saved, whole; what is
  reported from it goes back only when the worker could not load it.
- *Link.* The newest document is never lost; in the end the worker is done with
  it and the cloud shows the state file.
- *Download.* Only verified artifacts stored or handed out; retries bounded;
  staging cleaned up; calls return.
- *Enrollment.* One runtime per application, an identity for good, all loops or
  none, running in the end.
- *Hooks.* `Run` returns, and success means that the hook exited with status 0
  and nobody of it is left who could still write.
- *Windows service.* A Stop ends; what is shown of an end is true.
- *Manifest and publishing.* `Validate` says what documentation, comments and
  tests say; only accepted manifests are published, only what is published is
  reported, and giving the command again completes it.

`PROJECT.json` lists the hazards line by line, with the property that covers
each.

## 2. Modules

| Module | Models | Composes / implements |
|---|---|---|
| `BundleActivation` | what one application of a bundle promises: complete, or back to what was | abstract |
| `Reconcile` | one application's worker, its state file, software, deaths and restarts | |
| `Register` | a file that holds the last value whose save succeeded | abstract |
| `AtomicFile` | `Save` as temporary file and rename, with readers, failing reads and writes, kills, power cuts | implements `Register` |
| `ConfigBundle` | `applyBundle` file by file | implements `BundleActivation`; the mapping is in the module |
| `Mailbox` | a place for one document, newer replaces older | abstract |
| `LatestWins` | the channel of capacity one and `submit`'s select loop against the worker's receive | implements `Mailbox` |
| `SharedState` | what the goroutines of one application share | extends `LatestWins` and `AtomicFile`; implements `Mailbox` and `Register` |
| `Link` | session loop, worker and ticker over connections that die and are replaced | uses the queue at the grain of `Mailbox` |
| `ArtifactStore` | what a fetch promises the worker | abstract |
| `Fetch` | attempts, backoff, temporary file, verification, rename | implements `ArtifactStore` |
| `Enrollment` | start of a supervisor with several applications, up to its end and restart | |
| `Hooks` | `hooks.Run`: process, descendants, pipes, timeout, `WaitDelay`, verdict | |
| `Service` | `Execute`, `run` beneath it, the four verbs, the service manager | extends `Hooks` |
| `Manifest` | `Parse` and `Validate`, and what a manifest has to be | operators only |
| `Publish` | `thinre publish`, given again and again beside an author and other users | extends `Manifest` |
| `MCReconcile`, `MCConfigBundle`, `MCEnrollment`, `MCPublish` | the instances TLC checks | |
| `ReconcileProof`, `ConfigBundleProof`, `SharedStateProof`, `LinkProof`, `FetchProof`, `EnrollmentProof`, `PublishProof`, `ServiceProof` | theorems and proofs; those of `LatestWins` and `AtomicFile` are in `SharedStateProof` | |

A definition that begins with the comment *Mutant* is the form a plausible bug
would give the definition below it; no specification uses it. `PROJECT.json`
names the property each one breaks.

### `Reconcile`

One action for each stretch of code between two effects that survive or can be
seen: a hook's start, its return, a save, a placement, a report. `pc` names the
place in the code: `compare`, `fetch`, `upgrade` .. `restored` are
`applyPackage` and `rollback`; `bundle` .. `restore` are `applyBundle`; `failed`
is a call of `finish`; `report` is the moment between the save of an outcome and
its report. `local` is `Apply`'s `local`, `disk` the state file, `seen` the
variable `current`. `Outcome` is what `finish` and the end of `Apply` write.

The software is a version and one of `good` (passed a health check since it last
changed), `unproven`, `torn` (a hook died or failed half way). A hook runs in
two steps, so that a death may find the software torn. The upgrade hook keeps a
copy for the rollback hook, as the fixture's does.

Faults are named (`load`, `save`, `fetch`, `version`, `health`, `upgrade`,
`rollback`, `bundle`, `place`, `apply`, `restore`), and each run says which may
happen. Once the context is canceled (`up = "stopping"`) every hook and download
fails, what is done with plain file operations does not. `Kill` may happen at
every step, and leaves the files of a running placement as they were, complete,
or `Mixed`.

A restore may fail (`restore`): the code logs a file that cannot be put back or
removed and goes on, and takes a previous file that cannot be read for none
(`bundle.go:96-113`). The files are then `Mixed`, or the new ones. `astray` is
history: a placement was cut off by a death, or its restore failed, and no
placement has passed its gate since. The code keeps no such record, which is
what disagreements 8 and 21 of section 6 are about.

### `ConfigBundle`

The delivered bundle is a function from file names to contents, a content is the
revision it comes from; a delivery may lack files or hold a damaged one. Backup
and placement are one step per file, so that deaths and errors fall between any
two files. The action order is the code's: verify, stage, validate, prepare the
backup directory, place, apply, health, commit, or restore and apply again.
`found`, `ran` and `whole` are history: what the destinations held and what the
software ran with when the application began, and the last configuration that
was complete. `BundleActivation` maps `live` to `found` until placement is
complete and from the start of a restore on. A death is a stage of its own in
both modules, which only a restart leaves: a restore that goes wrong cannot pass
for a death. The faults are named as in `Reconcile`; `read`, `restore` and
`reapply`, a previous file that cannot be read or put back and an apply hook
that fails over it, are outside the `bundle` run, and the theorems exclude them
by name.

### `Link`

The three goroutines that report go through the same three steps, because the
code does: the report is built, `c.conn` is read, the message is written. A
connection is `open`, `dead` (nobody has noticed) or `closed`. `session` is the
place in the session loop; `hello` holds the generation that was read for the
hello, which may be old when it is written. The worker is reduced to its load of
the state file, a phase report (before which it may save the marker with what it
loaded), an outcome in the state file and its terminal report. Each load of
worker, session and ticker may fail and then counts as an empty file, each save
may fail and is then forgotten; a document of `EmptyDocs` is dropped before
anything is recorded. `handled` is history: the last document the worker was
done with, whether or not its outcome reached the file.

### `Fetch`

An artifact stands for its own hash: file `a` is right exactly when its contents
are `a`. `outcomes` is the history of a call's attempts. `Die` skips the
deferred clean-up, which is what leaves files in staging.

### `AtomicFile` and `SharedState`

`AtomicFile` splits a save at the rename: `file` and `tmp` are the contents
under the two names, `Torn` is a part of a content. A kill leaves `file` alone;
a power cut may tear it as long as it has not been written back (`flushed`),
because the code never calls `fsync`. `wanted` of `Register` is the value being
saved, so a save that fails or is cut short leaves no trace there.

A read may fail as well: the reader then has `Unread`.

`SharedState` is both in one process, and adds the generation in the worker's
memory (`mem`): `TakeAndLoad` is the worker's receive together with the
`state.Load` that `Apply` begins with, which gives generation 0 when it fails,
`SaveState` a save of the marker (the generation the file had) or of an outcome
(the document's), `Observe` the read of session or ticker, whose report has
generation 0 when it fails. `last` is history, the newest generation each reader
found, and so is `lost`: an `Apply` could not load the file and has not yet
saved an outcome. A document is its generation. `Die` ends all goroutines;
`hand` then says which document the next process is sent first, which is at
least as new as any this one was sent. That is why `Mailbox` has the action
`Lose`.

### `Hooks` and `Service`

A call of `Run` is a record: where the call is (`wait` for the process, `drain`
the pipes, `judge` the result), the process, how many descendants hold the
pipes, whether output is unread, the context, `WaitDelay`. `exec.Cmd` is not in
the repository; it is modelled by what `Run` sets on it: a canceled context
refuses a start and kills a running process (the process alone), `WaitDelay`
starts with the kill or with the end of the process, and when it is over the
pipes are closed and the call is an error. A process that exits while its
timeout passes may be judged either way, as in the code, which asks the context
first.

`Service` puts one such call, the session's `Observe`, between a Stop and the
end: `link.Run` returns only when its session has. The worker's hook is reduced
to whether one runs (`working`), since nobody waits for it; it may outlive the
process (`orphan`). `Execute` is `enter`, `select`, `await`, `returned`; the
select takes a Stop or the end of `run`, whichever is there. The event log is
written as far as it can be (`logged` is the attempt).

### `Manifest` and `Publish`

A path is its form (slash, drive letter, relative) and a text; an optional hook
or section is a set with at most one member; header fields are right or wrong.
`Validate` gives the set of all problems, as the code collects them, file by
file with the two maps of what came before. `WellFormed` is the definition by
documentation, comments and tests, without reference to order or problems.

`Publish` has one action per request. `Fails` is a request that is refused or
times out, and a request whose answer is lost moves the cloud and ends the
command. `host` is the file that the author edits, `data` the bytes the command
has read; `Others` are other users of the cloud, which keeps names of
integrations unique in an organization and versions unique in an integration.

### `Enrollment`

`disk` and `mem` are the identity file and `app.id` of each application,
`issued` lists the runtimes the cloud created. `listed` is the configured list
of integrations, `refs` those that `run` has still to read, `apps` those it has:
`Start` is `LoadConfig`, `Load` one turn of the loop over the integrations with
its manifest, directories and identity, and a broken manifest or an application
that is listed twice ends the process. A mishap is a lost or wrong answer, a
read or write that fails, a death, a SIGTERM or an edit of the list.

## 3. Runs

| Run | Module | Asks | Bounds |
|---|---|---|---|
| `gated` | `MCReconcile` | Without deaths, does installed cover both parts, is it gated, and is failed software left alone, whatever fails, restores included? | 3 documents out of 4 kinds (package, both parts twice, neither) |
| `crash` | `MCReconcile` | Marker, durability, order, complete revisions, record and files in step until they go astray, settling, with kill and SIGTERM anywhere and failing restores | 2 documents, 2 deaths |
| `resume` | `MCReconcile` | If only kills happen and a state file that cannot be loaded, does the first one leave the marker with the software it half changed, and is the last document installed in the end? | 2 documents, 2 kills |
| `bundle` | `MCConfigBundle` | File level: no trace of a failure, software on the right files, complete commits, refinement | 3 files in 2 overlapping revisions, 3 applications, deaths |
| `fetch` | `Fetch` | Bounded retries and leftovers, only verified files handed out, calls return, and the store as a refinement | 3 artifacts (one too large), 2 deaths |
| `enroll` | `MCEnrollment` | One identity each for good, no second runtime, running in the end, while the list is edited | 3 applications, 6 lists, 3 tokens, 2 mishaps |
| `shared` | `SharedState` | Is the queue a latest-wins mailbox that never blocks its submitter, is the state file a register, and do reports from it go back only after a failed load? | 4 documents, 2 readers, any number of kills, failing reads and failing saves |
| `link` | `Link` | Is the newest document never lost, in the end done with, and the file shown, though loads and saves fail? | 3 changes, the second one empty, 2 connections, 2 failing loads or saves |
| `service` | `Service` | Does every hook return and every Stop end, is a clean end one that was asked for, and is the reason of a fatal one logged? | 2 starts, 2 polls, 1 descendant at a time |
| `publish` | `MCPublish` | Is only accepted published and only published reported, does trying again complete; does `Validate` agree with documentation, comments and tests? | 4 drafts, 2 organizations, 1 version; several thousand manifests |
| `bad_crash_proven` | `MCReconcile` | section 6, number 1 | smallest instance that shows it |
| `bad_windows_destination` | `MCPublish` | section 6, number 15 | as `publish` |

### Why the bounds are enough

*Documents.* Two generations let a newer document overtake, replace and be
re-sent with an older one; the third in `gated` adds a return to an earlier
revision (`A`, `B`, `A`), the case the recorded revision must be right for. The
properties relate at most the recorded, the applied and the waiting document. In
`shared` a document is only a number, and four let the queue, the worker, the
file and the readers each hold another one. In `link` the second of three is the
empty one, with one before and one after it; two mishaps are a failed save and
the load after it. *Deaths.* The second death hits the recovery from the first.
*Faults.* `gated` lets the fetch and every hook and file operation fail that
`applyPackage` and `applyBundle` survive. Failing loads and saves of the state
file are left to the theorems: `GateHolds` and `NoReconfigurationOfFailed` hold
with them. A rollback hook that fails happens in `crash`, by SIGTERM. `resume`
has the only fault that `Converges` allows, a failing load; that `TornIsVisible`
holds when fetches and all hooks but the rollback fail as well is
`FirstKillIsVisible`. *Files.* With three files in revisions `{F1, F2}` and
`{F2, F3}` a placement replaces one file, creates one and leaves one alone, and
each file may have existed before. *Applications of a bundle.* Three allow a
commit, a failure over it and another commit. *Connections.* The properties of
`Link` relate the newest connection and stale copies of older ones; two of them
give both. `link` ends with a connection that stays, since convergence is
promised only after the last disturbance. *Attempts.* The code's own three.
*Tokens and mishaps.* Each of two mishaps may spend a token, the third is left;
the lists hold one application, two, all, one twice, a broken one, and none.
*Starts and polls.* The second start meets what the first left behind; with two
polls the verb may see the stop or give up before it (the code polls twenty
times). *Descendants.* One at a time, which may be followed by another, keeps a
pipe open for ever. *Manifests.* Every hook present or absent, of every form and
at both edges of the timeout, and every list of up to three files over three ids
and four destinations: a third file meets a first one that is not its neighbour.
*Versions.* Versions are told apart only by whether one is taken, so one that
others also publish is enough. Where a theorem exists (section 5) it removes
these bounds.

### Deadlock

Runs with `CHECK_DEADLOCK FALSE` are those whose program may stop for good
(`fetch` after its last death with a canceled context; `enroll` when all loops
run). All others check deadlock, with an explicit step where a process waits for
a document.

## 4. Fairness

- `Reconcile`: weak fairness of the worker (every hook has a timeout, every
  attempt of a fetch ends: `hooks.go:70-74`, `artifacts.go:25`), of the
  session's resend (the session loop redials for ever and says hello each time:
  `client.go:106-131`), of `Exit` (the canceled loops return) and of `Restart`
  (the service manager, external). Nothing forces the cloud, a death, or a
  particular result of a hook.
- `LatestWins` and `SharedState`: only `submit` is fair; an `Apply` may take for
  ever.
- `Link`: session, worker, ticker, ping and each goroutine's write are fair: all
  of them end by a timeout in the code. A write may still be lost.
- `Fetch`: a call goes on. Success is never forced.
- `Enrollment`: the program and the service manager go on; which of success and
  failure happens is open. `AttendedSpec` adds that an operator replaces a spent
  token and corrects a list with which no start succeeds, because without that
  the system stops there (section 6, number 11).
- `Service`: `Execute`, `run`, and of `hooks.Run` the timeout, the kill, the
  reaping, `WaitDelay` and the verdict. Nothing of the hook and its descendants:
  they may run for ever and never be read empty. Nobody is assumed to start the
  service again.
- `Publish`: every request ends and the operator gives the command again; each
  request has strong fairness, so requests do not fail for ever. Without it
  `RetryCompletes` cannot hold. The file is edited at will, and the property
  speaks of a draft that stays.

## 5. Proofs

TLAPS proves these for every value of the constants; each proof module names the
assumptions as premises of the theorem.

| Theorem | Property | Premises |
|---|---|---|
| `TypeCorrect` | `TypeOK`, with `WellFormed` | none |
| `GenerationNeverRegresses` | `NeverRegresses` | the state file can be read |
| `MutationAlwaysMarked` | `MutationIsMarked` | saves succeed |
| `ReportsAreDurable` | `ReportedIsDurable` | the state file can be read and written |
| `GateHolds`, `NoReconfigurationOfFailed` | `OutcomeIsProven`, `FailedIsNeverReconfigured` | `Gated`: no deaths, a rollback hook that works |
| `OnlyLiveRevisionsRecorded` | `OnlyCompleteRevisionsRecorded` | the state file can be read |
| `RecordedRevisionIsLive` | `RevisionIsLive` | the state file can be read and written |
| `InstalledCoversBothParts` | `InstalledIsComplete` | `Steady`: saves succeed, a version hook that is there answers, no SIGTERM |
| `FirstKillIsVisible` | `TornIsVisible` | `Killed`: no SIGTERM, a rollback hook that works, saves succeed |
| `FailureLeavesNoTrace` | `FailedChangesNothing` | `RestoreWorks`: previous files can be read and put back |
| `OnlyCompleteIsCommitted` | `CommittedIsComplete` | none |
| `BundleRefinesActivation` | `AllOrNothing` of `ConfigBundle` | `RestoreWorks` |
| `SoftwareRunsItsFiles` | `ActiveIsLive` | `RestoreWorks`, and `ReapplyWorks`: an apply hook that succeeds for restored files |
| `NewestNeverEvicted`, `QueueRefinesMailbox` | `NewestSurvives`, `ImplementsMailbox` of `LatestWins` alone | none |
| `FileRefinesRegister` | `ImplementsRegister` of `AtomicFile` alone | no power cuts |
| `SharedQueueIsMailbox` | `ImplementsMailbox` of `SharedState` | none |
| `StateFileIsRegister`, `ReportsStayInOrder` | `ImplementsRegister` of `SharedState`, `ReportedInOrder` | no power cuts |
| `LinkTypeCorrect`, `NewestNeverLost` | `TypeOK` of `Link`, `NewestOnItsWay` | none: loads and saves may fail, documents be empty |
| `FailClosed`, `RetriesStaySound`, `StagingStaysBounded` | `OnlyVerifiedStored` and `HandedIsVerified`, `RetriesAreSound`, `StagingIsBounded` | none |
| `FetchKeepsPromise` | `ImplementsStore` | none |
| `IdentityNeverReplaced`, `LoopsStartTogether` | `IdentityIsPermanent`, `NoneWithoutAll` | none |
| `IdentitiesAreOwn`, `NoRuntimeBesideAnother` | `OwnIdentity`, `NoSecondRuntime` | none |
| `ValidateIsExact` | `Accepted(in) <=> WellFormed(in)` for any manifest | `IsDecoded`: what a decoder gives |
| `OnlyAcceptedPublished`, `WhatIsSaidIsPublished` | `PublishedIsAccepted`, `SaidIsPublished` | none |
| `ValidationAlwaysExact` | `ValidationIsExact` | none |
| `OnlyRealSuccess`, `EndAlwaysTruthful` | `SuccessIsReal`, `EndIsTruthful` | none |

*None* means: none beside the assumptions of the module on its constants. A
premise is there because the property is false without it: for each one TLC
finds the violation when the constant is set the other way (after a power cut a
reader of `SharedState` has a torn content, which is no generation at all). That
is the point of naming them: `GateHolds` does not assume that the state file
works, `GenerationNeverRegresses` does not assume that saves succeed or that
nothing dies, `RecordedRevisionIsLive` assumes nothing of any hook, of restores
or of deaths, and `FirstKillIsVisible` allows an unreadable state file and any
hook but the rollback to fail.

Three statements carry the failure they survive in themselves rather than in a
premise. `RevisionIsLive` and `InstalledIsComplete` except the files that went
astray, by a death during a placement or a restore that failed, until a
placement passes its gate; without `astray` both are false of the code
(`InstalledIsInPlace`, disagreements 8 and 21). `ReportedInOrder` excepts the
time between a load that failed and the next outcome that is saved (`lost`): in
between the worker saves generation 0. `NewestOnItsWay` counts a document as
done with when `Apply` has ended with it; that it is recorded then is false
(`RecordedInTheEnd`, disagreement 22). No theorem says that `Reconcile`
implements `BundleActivation`: with restores that fail it does not, and that
files are placed all or not at all is the file-level theorem
`BundleRefinesActivation`, under `RestoreWorks`.

The inductive invariants are conjunctions of named parts at the end of each
component's module, or at the head of its proof.

- `Reconcile`. `WellFormed`: a package is handled only when the document has
  one, a copy for rollback is of installed software. `GenerationsOrdered`:
  recorded <= applied <= waiting <= desired; this is why a document that arrives
  late cannot take the generation back, although `Apply` never compares
  generations. `Marking` and `Recorded` relate memory and disk at each place in
  the code. `SoftwareGood`: the software is anything but good only between an
  upgrade's start and the end of its gate or rollback. `TornOnlyInHooks` is the
  same thought without its premise that nothing dies: until the first kill,
  software is half changed only inside an upgrade or rollback, where `Marking`
  has put the marker. `RevisionsRecorded`: a revision is in memory ahead of the
  disk only while its files are live. `InStep`: the recorded revision is live,
  or kept to be restored, at each place in the code, unless files went astray or a
  load that failed forgot the revision (then a placement follows, never a skipped
  one); a placement over files gone astray is in step again at its gate.
  `PackageFirst`: past the package part the desired version is the installed one;
  `NoneRecordedUnasked` extends it to manifests without a version hook, where no
  version is ever recorded.
- `ConfigBundle`. `Delivered`: past verification the bundle is the complete
  revision. `Overlaid`: the destinations are what was found with the placed
  files over it. `Restorable`: every file that is still to be restored can be,
  from the backup or by removal, and the others are as found; it is stronger
  than `FailedChangesNothing`, which speaks only of the end. `Running`: the
  software runs with what it ran with until the apply hook ran, then with the
  new files; at a failure it is one of the two, which `Restorable` says is what
  is in place.
- `AtomicFile`. `FileInv`: at the rename the temporary file holds exactly the
  value that is being saved; without it the rename could commit another one than
  the register's `Begin` announced.
- `LatestWins`. `QueueInv`: what waits or was taken is older than what `submit`
  holds, and the place is empty after an eviction.
- `SharedState`. The two invariants above carry over, because each step is a
  step of one part or of both. `InOrder` relates the parts: found <= recorded <=
  in memory while nothing is lost, and each of them is never ahead of what is
  being applied, waits or was submitted (`NotAhead`), lost or not, which is why
  the next outcome that is saved ends the loss. The value of a save is the one
  in memory. After a death the file may be one document ahead of what the next
  process was sent, and is again behind it before the worker can save.
- `Link`. `WireInv`: only an open connection has a hello, and only one with a
  hello has messages on the way. `InTurn`: recorded <= done with <= being
  applied <= waiting <= on the way <= desired. `NewestInv`: the last message on
  the way is the desired state, and when there is none it is in the queue, with
  the worker or done with. A hello that is old, or that carries 0 because the
  file could not be read, is harmless only because of `InTurn`: what it
  announces is at most what is done with, so it hides no change.
- `Fetch`. `Whole`: what is about to be renamed is a whole download.
  `Accounted`: a temporary file exists only inside an attempt. `Counted`: one
  transient failure for each attempt before the current one. `Asking`: only what
  is not stored is downloaded, and nothing is handed out before a call ends;
  without it a step of the code would answer a request that the abstract store
  does not have.
- `Enrollment`. `MemoryIsDisk`: for every application that was read, memory is
  its file, from loading to the end; loops run for applications that were read,
  and only when none lacks an identity. `OnlyCreated`: what is on disk, and what
  an answer still offers, is a runtime created for that application; the answer
  must be in it, because it outlives the request that it answers.
- `Publish`. `PublishInv`: from the first request on, what was read is accepted,
  and what is posted belongs to the integration that was found.
  `ValidateIsExact` rests on one lemma for a hook, one for a list of files and
  one for a section; the second says that looking back at earlier files finds
  every pair.
- `Service`. `CallsAreSound`: past the drain an error-free call has status 0,
  empty pipes and no descendant on them. `EndInv`: a stopped service has no
  `Execute` and no request on its way, so a late Stop cannot pass into the next
  start; `run` returns nil only after the cancelation, which only a Stop that
  somebody sent brings about.

Model-checked only: everything under fairness (`Settles`, `Converges`,
`Delivered`, `CloudLearns`, `SubmitReturns`, `CallsReturn`, `EventuallyRunning`,
`StopEnds`, `RunReturns`, `RetryCompletes`), which is out of the prover's reach.
Every other property that a passing run checks is stated by a theorem.
`NewestSurvives`, `OnlyVerifiedStored` and `NoneWithoutAll` are proved and no
run repeats them.

## 6. Where code and documentation disagree

Each of these has a configuration `bad_*.cfg` with which TLC finds the shortest
trace. Numbers 1 and 15 are among the project's runs; the others are kept to be
rerun by hand. The module is `MCReconcile` unless another one is named.

1. `bad_crash_proven`: a kill between the upgrade hook's last change and the
   health check. The restarted worker finds `current == desired`
   (`reconcile.go:131`), skips the rest and records installed without a gate.
   The manifest documentation says `health.check` "gates everything".
2. `bad_no_version_hook`: without the optional `package.version` hook
   `currentVersion` returns the recorded version, which is the old one after an
   upgrade, so every upgrade that succeeds is rolled back. `types.go:34-35` says
   "Version is optional but strongly recommended".
3. `bad_masked` (`Link`): the ticker builds an idle report, the worker concludes
   and reports a failure, the idle report is written. `link-protocol.md:138-139`
   says "so a failure can never be masked by a later idle heartbeat". The next
   tick repairs it (`CloudLearns`).
4. `bad_marker`: the marker is cleared and saved before the interrupted
   operation is resumed (`reconcile.go:101`); a second kill finds torn software
   and an idle state file. The comment at `reconcile.go:146-147` says a crash
   "must be distinguishable from idle". The first kill is always visible
   (`TornIsVisible`).
5. `bad_term_resume`: SIGTERM makes the running hook fail, and `finish` records
   that as the document's outcome; nothing is resumed after the restart.
   `index.md:57` says "resumes cleanly".
6. `bad_rollback_target`: an upgrade hook that fails before it changes anything
   is followed by the rollback hook, which restores the copy an earlier upgrade
   made. The comment at `reconcile.go:185` says "restores the previous version".
7. `bad_no_rollback`: after an upgrade that failed half way, without a rollback
   hook, the next document may go on to its bundle. `reconcile.go:83-84` says
   "software in a failed state is never reconfigured".
8. `bad_half_placed`: a kill during a placement, then the cloud asks for the
   recorded revision again: it is skipped and reported as installed over mixed
   files (`bundle.go:26`, `InstalledIsInPlace`). `bundle.go:21-23` says
   "completely or not at all".
9. `bad_stable`: a document that is sent again on a reconnect while it is being
   applied is applied twice, and its second outcome replaces the first.
   `link-protocol.md:136-138` calls terminal outcomes durable.
10. `bad_version_hook`: `finish` records whatever `currentVersion` answers, also
    when the version hook failed; that record later passes as the installed
    version.
11. `bad_interfere` (`MCEnrollment`): one identity could not be saved after the
    token was spent; no restart gets past the exchange, so the applications that
    have their identity do not run either. `supervisor-configuration.md:54-55`
    says they "can never interfere with each other".
12. `bad_empty`: a document without package and bundle is dropped before
    anything is recorded, so its generation is never echoed (`state.go:15-17`).
13. `bad_unreadable` (`MCConfigBundle`): any error while reading a destination
    counts as no file (`bundle.go:113`), so a file that exists but cannot be
    read is removed by `restore`.
14. `bad_crash_restore` (`MCConfigBundle`): after a kill during a placement the
    re-application empties the backup directory and backs up the mixture
    (`bundle.go:83`); its failure then restores the mixture.
15. `bad_windows_destination` (`MCPublish`): `Validate` accepts a destination
    with a drive letter (`parse.go:85`), `applyBundle` asks `path.IsAbs`, which
    knows only the slash (`bundle.go:45`), so every bundle of such a manifest
    fails on every host. `integration-manifest.md:98-101` says "Path validation
    accepts both styles everywhere".
16. `bad_stop_verb` (`Service`): `-service stop` polls twenty times and then
    says "stopped service" whatever the state is; the comment at
    `service_windows.go:153` says it waits "so the verb is truthful".
17. `bad_orphan` (`Service`): `run` returns without waiting for the worker, so a
    hook of the worker may outlive its supervisor, and the next one runs hooks
    beside it. `Apply` takes a marker it finds for a run that "died
    mid-operation" (`reconcile.go:96`) and starts over, while that operation may
    still be running.
18. `bad_swallowed` (`Service`): an error of `run` that is there when the Stop
    is taken is neither logged nor shown (`service_windows.go:65-66`), although
    "fatal errors in service mode go to the Windows event log"
    (`service_windows.go:8-9`).
19. `bad_power_cut` (`SharedState`): nothing calls `fsync`, so a power cut may
    leave a file torn whose rename is on the disk. `state.go:3-5` says "never a
    torn file", of a crash.
20. `bad_stop_installed`: SIGTERM breaks an upgrade off, and while the process
    ends the worker takes the document that waits, since its select may choose
    either of two ready cases (`client.go:78-87`). Its version hook is refused,
    so `currentVersion` answers with the recorded version (`reconcile.go:229`);
    if that is the desired one, the document is recorded as installed over
    software the stop left half changed. `index.md:57` says "resumes cleanly".
21. `bad_half_placed` with `Faults = {"restore", "health"}`, `Deaths = {}` and
    `MaxDeaths = 0`: the same as number 8 without a death. A restore that fails
    is only logged (`bundle.go:98-107`), the recorded revision stays, and a
    document that asks for it is concluded as installed over what the failed
    restore left. `bundle.go:21-23` says "any failure after placement restores
    the previous files".
22. `link` with `PROPERTY RecordedInTheEnd`, and `EmptyDocs = {2}` or a positive
    `MaxMishaps`: after a save that failed (`reconcile.go:258-262`) or an empty
    document (`reconcile.go:87-89`) the file keeps the older generation, and on
    a connection that stays up nobody sends the document again.
    `link-protocol.md:72` says "a reconnecting supervisor always converges"; it
    does at its next reconnect, if there is one and no save fails again, and for
    an empty document never.

One remark that no run shows: `main.go:131-133` counts on the service manager to
restart the process after an error, and `-service install` registers no recovery
actions (`service_windows.go`).

The properties of numbers 4, 6, 8, 9, 11, 14, 16 to 18 and 20 to 22
(`TornIsMarked`, `RollbackReturnsToPrevious`, `InstalledIsInPlace`,
`OutcomeIsStable`, `EnrolledRuns`, `RejectedIsWhole`, `VerbIsTruthful`,
`OneHookAtATime`, `ErrorIsShown`, `StopIsVisible`, `RecordedInTheEnd`) hold on
no instance in which their case can happen, so no passing run checks them.

## 7. Plan

Done, in this order, the most important behaviour first: `BundleActivation`,
`Reconcile` and its proofs, `ConfigBundle`, `LatestWins` and `Mailbox`, `Link`,
`Fetch` and `ArtifactStore`, `Enrollment`; then `AtomicFile` and `Register`,
`SharedState`, `Hooks`, `Service`, `Manifest`, `Publish`, the list of
integrations in `Enrollment`, and their proofs.

Then, in proofs: `ActiveIsLive`, `TornIsVisible`, `RevisionIsLive` apart from
`InstalledIsComplete`, `NewestOnItsWay`, and the composition `SharedState`.
Last, the error paths that only log: restores that fail in `Reconcile`, failing
loads and saves in `Link`, failing reads in `AtomicFile` and `SharedState`, and
their theorems anew.

To come, models:

1. A composition of `Link` and `Reconcile`, in which `Resend` of `Reconcile` is
   the hello of `Link`. The two are checked apart now, `Reconcile` against a
   cloud that may re-send at any time, which is more than `Link` does.
2. The descendants of a killed hook next to the rollback in `Reconcile`. The
   code does not promise that they are gone (`hooks.go:81-82`), so there is no
   property to check yet.

## 8. Not modelled

- The contents of messages, logs, the `health` and `message` fields of reports,
  and JSON: no property depends on them.
- Durations. A timeout is a failure that may happen; backoff, jitter and polling
  intervals are a step that may take any time.
- Labels, defaults and path syntax of the configuration, the layout of the data
  directory, permissions and ownership; the environment a hook is given
  (`minimalEnv`); the flags of the two programs. All of them are computed once
  and change no state.
- The error path of `link.Run`: it returns only nil, so `firstErr` of `run`
  stays nil once the loops have started.
- What a descendant of a killed or orphaned hook goes on to do to the software.
- Several supervisors on one data directory: the code does not guard against it
  and does not mean it to happen.
- Fixtures, testbed and website: examples and documentation; what the fixture's
  hooks do is the hook behaviour that `Reconcile` assumes.
