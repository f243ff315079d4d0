----------------------------- MODULE ConfigBundle -----------------------------
(***************************************************************************)
(* One application of a configuration bundle, file by file: applyBundle    *)
(* in supervisor/reconcile/bundle.go, from the delivered document to       *)
(* commit or restore, with the errors each step handles and a death of the *)
(* process between any two of them.                                        *)
(*                                                                         *)
(* A file's content is the revision it comes from.  The hooks, which are   *)
(* outside the repository, are seen through their result and through which *)
(* configuration the managed software ends up running with.                *)
(***************************************************************************)
EXTENDS Naturals

CONSTANTS
  Files,          \* managed files; each has an id and a destination of its own
  Revisions,      \* bundle revisions
  FilesOf,        \* the complete file set of each revision
  Absent,         \* no file at the destination
  Original,       \* content that was there before any bundle
  Damaged,        \* content that does not have its checksum
  HasApplyHook,   \* does the manifest define configuration.apply?
  Faults,         \* steps that may fail by themselves
  MayDie,         \* may the process die?
  MaxApplications \* bound on the number of applications

FaultKinds == {"delivery", "stage", "validate", "backup", "read", "place",
               "apply", "health", "reapply", "restore", "save"}

ASSUME ConstantsAssumption ==
  /\ FilesOf \in [Revisions -> (SUBSET Files) \ {{}}]
  /\ Revisions \cap {0, Absent, Original, Damaged} = {}
  /\ Absent # Original /\ Damaged \notin {Absent, Original}
  /\ HasApplyHook \in BOOLEAN /\ MayDie \in BOOLEAN
  /\ Faults \subseteq FaultKinds
  /\ MaxApplications \in Nat

VARIABLES
  pc,             \* where applyBundle is; "idle" outside it, "dead" without a process
  rev,            \* the revision being applied
  bundle,         \* the delivered files: a function from ids to contents
  dest,           \* the contents of the destinations
  backup,         \* the backup directory of this application
  placed,         \* the files placed so far, to be restored on failure
  hadPrevious,    \* the ones of them that replaced a file
  configRevision, \* ConfigRevision in the state file
  active,         \* the configuration the managed software runs with
  outcome,        \* how the last application ended
  applications,   \* applications so far
  \* History, read by properties only.
  found,          \* the destinations when this application began
  ran,            \* what the software ran with then
  whole           \* the last configuration that was complete

vars == <<pc, rev, bundle, dest, backup, placed, hadPrevious, configRevision,
          active, outcome, applications, found, ran, whole>>
history  == <<found, ran, whole>>
document == <<rev, bundle, applications>>
-------------------------------------------------------------------------------
Contents == Revisions \cup {Absent, Original}
Configs  == [Files -> Contents]
Nothing  == [f \in Files |-> Absent]

Complete(r) == [f \in FilesOf[r] |-> r]

\* Configuration c with the files of a bundle placed over it.
Over(c, b) == [f \in Files |-> IF f \in DOMAIN b THEN b[f] ELSE c[f]]

\* What may be delivered for revision r: the whole set, or (fault "delivery")
\* one with files missing or with a damaged content.
Deliveries(r) ==
  {Complete(r)} \cup
    (IF "delivery" \in Faults
       THEN {[f \in part |-> r] : part \in SUBSET FilesOf[r]}
              \cup {[Complete(r) EXCEPT ![f] = Damaged] : f \in FilesOf[r]}
       ELSE {})

Placing   == {"place"}
Placed    == {"apply", "health", "commit"}
Restoring == {"unplace", "restore"}

TypeOK ==
  /\ pc \in {"idle", "dead", "verify", "stage", "validate", "prepare", "reapply", "failed"}
              \cup Placing \cup Placed \cup Restoring
  /\ rev \in Revisions \cup {0}
  /\ bundle \in {<<>>} \cup UNION {Deliveries(r) : r \in Revisions}
  /\ dest \in Configs /\ backup \in Configs /\ active \in Configs
  /\ found \in Configs /\ ran \in Configs /\ whole \in Configs
  /\ hadPrevious \subseteq placed /\ placed \subseteq Files
  /\ configRevision \in Revisions \cup {0}
  /\ outcome \in {"none", "installed", "failed"}
  /\ applications \in 0..MaxApplications

Init ==
  /\ pc = "idle" /\ rev = 0 /\ bundle = <<>>
  /\ dest \in [Files -> {Absent, Original}]
  /\ backup = Nothing /\ placed = {} /\ hadPrevious = {}
  /\ configRevision = 0 /\ active = dest
  /\ outcome = "none" /\ applications = 0
  /\ found = dest /\ ran = dest /\ whole = dest
-------------------------------------------------------------------------------
MayFail(kind) == kind \in Faults

Go(place) == pc' = place

\* A revision that is already recorded is not applied again.
Begin(r) ==
  /\ pc = "idle" /\ r # configRevision
  /\ applications < MaxApplications
  /\ applications' = applications + 1
  /\ rev' = r /\ bundle' \in Deliveries(r)
  /\ found' = dest /\ ran' = active
  /\ Go("verify")
  /\ UNCHANGED <<dest, backup, placed, hadPrevious, configRevision, active, outcome, whole>>

\* Mutant: each file is verified, the manifest hash is not.
EachFileVerified ==
  /\ DOMAIN bundle # {}
  /\ \A f \in DOMAIN bundle : bundle[f] # Damaged

\* The files, each with the checksum it claims, are the ones the manifest hash
\* was computed over.
Verified ==
  /\ DOMAIN bundle # {}
  /\ \A f \in DOMAIN bundle : bundle[f] # Damaged
  /\ DOMAIN bundle = FilesOf[rev]

Verify ==
  /\ pc = "verify"
  /\ Go(IF Verified THEN "stage" ELSE "failed")
  /\ UNCHANGED <<document, dest, backup, placed, hadPrevious, configRevision,
                 active, outcome, history>>

\* The staging directory only serves the validate hook and is removed on return.
Stage ==
  /\ \/ pc = "stage"    /\ Go("validate")
     \/ pc = "stage"    /\ MayFail("stage") /\ Go("failed")
     \/ pc = "validate" /\ Go("prepare")
     \/ pc = "validate" /\ MayFail("validate") /\ Go("failed")
  /\ UNCHANGED <<document, dest, backup, placed, hadPrevious, configRevision,
                 active, outcome, history>>

\* The backup directory is emptied and made again.
Prepare ==
  /\ pc = "prepare"
  /\ \/ backup' = Nothing /\ Go("place")
     \/ /\ MayFail("backup") /\ Go("failed")
        /\ backup' \in {backup, Nothing}
  /\ placed' = {} /\ hadPrevious' = {}
  /\ UNCHANGED <<document, dest, configRevision, active, outcome, history>>

\* Can the file at f's destination be read?  Any read error counts as no file.
Readable(f) ==
  (IF dest[f] # Absent THEN {TRUE} ELSE {FALSE})
    \cup (IF MayFail("read") THEN {FALSE} ELSE {})

PlaceFile(f) ==
  /\ pc = "place" /\ f \in DOMAIN bundle \ placed
  /\ dest' = [dest EXCEPT ![f] = bundle[f]]
  /\ placed' = placed \cup {f}
  /\ \E had \in Readable(f) :
        /\ hadPrevious' = IF had THEN hadPrevious \cup {f} ELSE hadPrevious
        /\ backup' = IF had THEN [backup EXCEPT ![f] = dest[f]] ELSE backup
  /\ UNCHANGED <<pc, document, configRevision, active, outcome, history>>

\* The backup, the directory or the atomic write fails: f itself is untouched
\* and is not in the list.
PlaceFails(f) ==
  /\ pc = "place" /\ f \in DOMAIN bundle \ placed
  /\ \/ dest[f] # Absent /\ MayFail("backup")
     \/ MayFail("place")
  /\ Go("unplace")
  /\ UNCHANGED <<document, dest, backup, placed, hadPrevious, configRevision,
                 active, outcome, history>>

AllPlaced ==
  /\ pc = "place" /\ placed = DOMAIN bundle
  /\ Go("apply")
  /\ UNCHANGED <<document, dest, backup, placed, hadPrevious, configRevision,
                 active, outcome, history>>

\* A successful hook makes the software run with the files as they are; one
\* that fails may have got that far or not.
HookRuns(kind, next) ==
  \/ /\ active' = IF HasApplyHook THEN dest ELSE active
     /\ Go(next)
  \/ /\ HasApplyHook /\ MayFail(kind)
     /\ active' \in {active, dest}
     /\ Go(IF kind = "apply" THEN "restore" ELSE "failed")

Apply ==
  /\ pc = "apply"
  /\ HookRuns("apply", "health")
  /\ UNCHANGED <<document, dest, backup, placed, hadPrevious, configRevision,
                 outcome, history>>

Health ==
  /\ pc = "health"
  /\ \/ Go("commit")
     \/ MayFail("health") /\ Go("restore")
  /\ UNCHANGED <<document, dest, backup, placed, hadPrevious, configRevision,
                 active, outcome, history>>

Commit ==
  /\ pc = "commit"
  /\ configRevision' \in {rev} \cup (IF MayFail("save") THEN {configRevision} ELSE {})
  /\ outcome' = "installed" /\ whole' = dest
  /\ placed' = {} /\ hadPrevious' = {}
  /\ Go("idle")
  /\ UNCHANGED <<document, dest, backup, active, found, ran>>

\* Mutant: a file that replaced nothing is left where it was placed.
KeepsCreated(f) == IF f \in hadPrevious THEN backup[f] ELSE bundle[f]

\* What restore puts at f's destination.
Previous(f) == IF f \in hadPrevious THEN backup[f] ELSE Absent

\* An error while restoring one file is logged and the next one is tried.
RestoreFile(f) ==
  /\ pc \in Restoring /\ f \in placed
  /\ dest' \in {[dest EXCEPT ![f] = Previous(f)]}
                 \cup (IF MayFail("restore") THEN {dest} ELSE {})
  /\ placed' = placed \ {f} /\ hadPrevious' = hadPrevious \ {f}
  /\ UNCHANGED <<pc, document, backup, configRevision, active, outcome, history>>

\* After a failed placement the software has not seen the new files yet.
Restored ==
  /\ pc \in Restoring /\ placed = {}
  /\ Go(IF pc = "restore" THEN "reapply" ELSE "failed")
  /\ UNCHANGED <<document, dest, backup, placed, hadPrevious, configRevision,
                 active, outcome, history>>

\* Mutant: the apply hook is not run again.
NoReapply ==
  /\ pc = "reapply"
  /\ Go("failed")
  /\ UNCHANGED <<document, dest, backup, placed, hadPrevious, configRevision,
                 active, outcome, history>>

\* The apply hook again, for the restored files; its result is ignored.
Reapply ==
  /\ pc = "reapply"
  /\ HookRuns("reapply", "failed")
  /\ UNCHANGED <<document, dest, backup, placed, hadPrevious, configRevision,
                 outcome, history>>

Fail ==
  /\ pc = "failed"
  /\ outcome' = "failed"
  /\ Go("idle")
  /\ UNCHANGED <<document, dest, backup, placed, hadPrevious, configRevision,
                 active, history>>

\* The process dies; a new one starts with the state file and the files.
Die ==
  /\ MayDie /\ pc \notin {"idle", "dead"}
  /\ Go("dead")
  /\ placed' = {} /\ hadPrevious' = {}
  /\ UNCHANGED <<document, dest, backup, configRevision, active, outcome, history>>

Restart ==
  /\ pc = "dead"
  /\ Go("idle")
  /\ UNCHANGED <<document, dest, backup, placed, hadPrevious, configRevision,
                 active, outcome, history>>

\* All the applications this instance is bounded to have ended.
Finished ==
  /\ pc = "idle" /\ applications = MaxApplications
  /\ UNCHANGED vars

Next ==
  \/ \E r \in Revisions : Begin(r)
  \/ Verify \/ Stage \/ Prepare
  \/ \E f \in Files : PlaceFile(f) \/ PlaceFails(f)
  \/ AllPlaced \/ Apply \/ Health \/ Commit
  \/ \E f \in Files : RestoreFile(f)
  \/ Restored \/ Reapply \/ Fail
  \/ Die \/ Restart
  \/ Finished

Spec == Init /\ [][Next]_vars
-------------------------------------------------------------------------------
\* "Any failure restores the previous files": whatever step failed, a
\* supervisor that lives to report the failure leaves every destination as the
\* application found it, the files it created removed again.
FailedChangesNothing == pc = "failed" => dest = found

\* The bundle consistency rule: ConfigRevision only ever becomes a revision
\* whose complete file set, and nothing else, was just placed over what the
\* application found, whatever was delivered and whatever went wrong before.
CommittedIsComplete ==
  [][configRevision' # configRevision =>
       /\ configRevision' = rev
       /\ dest = Over(found, Complete(rev))]_vars

\* The restored files are active again: software that ran with the files it had
\* runs with the files it has when an application has succeeded or failed.
ActiveIsLive == pc \in {"commit", "failed"} /\ ran = found => active = dest

\* A rejected revision changes nothing: when a failure is reported, the files
\* are those of the last configuration that was complete.
RejectedIsWhole ==
  [][pc = "failed" /\ outcome' = "failed" /\ pc' = "idle" => dest = whole]_vars

\* Until placement is complete, and again from the first restored file on, the
\* configuration that counts is the one the application found.
ActivationStage ==
  CASE pc \in Placing   -> "placing"
    [] pc \in Placed    -> "placed"
    [] pc \in Restoring -> "restoring"
    [] pc = "dead"      -> "dead"
    [] OTHER            -> "rest"

OverComplete(c, r) == Over(c, Complete(r))

Activation == INSTANCE BundleActivation WITH
  stage   <- ActivationStage,
  live    <- IF pc \in Placing \cup Restoring THEN found ELSE dest,
  before  <- IF pc \in Placing \cup Placed \cup Restoring THEN found ELSE dest,
  Torn    <- Configs,
  Overlay <- OverComplete

\* The revision is active completely or not at all (bundle.go:21-23), file by
\* file: only a death leaves anything between the complete revision and what
\* was found.
AllOrNothing == Activation!Spec
-------------------------------------------------------------------------------
(* Strengthenings that make the properties above inductive.                  *)

\* Past its verification the delivered bundle is the complete revision.
Delivered ==
  /\ pc # "idle" => rev \in Revisions /\ bundle \in Deliveries(rev)
  /\ pc \notin {"idle", "dead", "verify", "failed"} => bundle = Complete(rev)

\* Until a restore begins, the destinations are what was found with the placed
\* files over it.
Overlaid ==
  /\ pc \in {"verify", "stage", "validate", "prepare"} => dest = found
  /\ pc \in Placing \cup Placed =>
       \A f \in Files : dest[f] = IF f \in placed THEN bundle[f] ELSE found[f]
  /\ pc \in Placed => placed = DOMAIN bundle

\* Every file that is still to be restored can be, and the others are as found.
Restorable ==
  /\ pc \in {"verify", "stage", "validate", "prepare", "reapply", "failed"} => dest = found
  /\ pc \in Placing \cup Placed \cup Restoring =>
       \A f \in Files : found[f] = IF f \in placed THEN Previous(f) ELSE dest[f]

\* The software runs with what it ran with until the hook has run, then with the
\* new files; a failure is reported with one of the two.
Running ==
  /\ pc \in {"verify", "stage", "validate", "prepare", "place", "unplace", "apply"}
       => active = ran
  /\ pc \in {"health", "commit"} => active = dest
  /\ pc = "failed" => active \in {ran, dest}
===============================================================================
