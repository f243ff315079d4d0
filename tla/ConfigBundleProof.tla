-------------------------- MODULE ConfigBundleProof --------------------------
(***************************************************************************)
(* The bundle consistency rule for every set of files and revisions: what  *)
(* is committed is complete, and what is rejected leaves no trace.         *)
(***************************************************************************)
EXTENDS ConfigBundle, TLAPS

\* A complete revision consists of managed files with contents of its own.
LEMMA CompleteType ==
  ASSUME NEW r \in Revisions
  PROVE  /\ DOMAIN Complete(r) = FilesOf[r] /\ FilesOf[r] \subseteq Files
         /\ \A f \in FilesOf[r] : Complete(r)[f] = r /\ r \in Contents
BY ConstantsAssumption DEF Complete, Contents

\* A delivery that passes verification is the complete revision.
LEMMA VerifiedIsComplete ==
  ASSUME rev \in Revisions, bundle \in Deliveries(rev), Verified
  PROVE  bundle = Complete(rev)
<1>1. CASE bundle = Complete(rev)
  BY <1>1
<1>2. ASSUME NEW part \in SUBSET FilesOf[rev], bundle = [f \in part |-> rev]
      PROVE  bundle = Complete(rev)
  BY <1>2 DEF Verified, Complete
<1>3. ASSUME NEW g \in FilesOf[rev], bundle = [Complete(rev) EXCEPT ![g] = Damaged]
      PROVE  FALSE
  BY <1>3 DEF Verified, Complete
<1> QED
  BY <1>1, <1>2, <1>3 DEF Deliveries

\* Before the first bundle nothing is placed.
LEMMA BundleInit == Init => TypeOK /\ Delivered /\ Overlaid /\ Restorable
BY ConstantsAssumption DEF Init, TypeOK, Delivered, Overlaid, Restorable, Configs, Contents,
   Nothing, Placing, Placed, Restoring

\* What passes verification stays the bundle being placed.
LEMMA DeliveredStep ==
  ASSUME Delivered, [Next]_vars
  PROVE  Delivered'
<1> USE DEF Delivered, Go
<1>1. ASSUME NEW r \in Revisions, Begin(r) PROVE Delivered'
  BY <1>1 DEF Begin, Deliveries, Complete
<1>2. CASE Verify
  <2>1. rev' = rev /\ bundle' = bundle /\ pc = "verify" /\ pc' \in {"stage", "failed"}
    BY <1>2 DEF Verify, document
  <2>2. pc' = "stage" => Verified
    BY <1>2 DEF Verify
  <2>3. Deliveries(rev)' = Deliveries(rev) /\ Complete(rev)' = Complete(rev)
    BY <2>1 DEF Deliveries, Complete
  <2> QED
    BY <2>1, <2>2, <2>3, VerifiedIsComplete
<1>3. CASE /\ rev' = rev /\ bundle' = bundle
           /\ \/ pc' \in {"idle", "dead", "failed"} /\ pc # "idle"
              \/ pc \notin {"idle", "dead", "verify", "failed"}
              \/ pc' = pc
  BY <1>3 DEF Deliveries, Complete
<1>4. \/ Stage \/ Prepare \/ AllPlaced \/ Apply \/ Health \/ Commit \/ Restored
      \/ Reapply \/ Fail \/ Die \/ Restart \/ UNCHANGED vars
      \/ \E f \in Files : PlaceFile(f) \/ PlaceFails(f) \/ RestoreFile(f)
      => <1>3!1
  BY DEF Stage, Prepare, AllPlaced, Apply, Health, Commit, Restored, Reapply, Fail, Die, Restart,
         vars, PlaceFile, PlaceFails, RestoreFile, document, Restoring
<1> QED
  BY <1>1, <1>2, <1>3, <1>4 DEF Next, Finished
\* What the hooks do to the modelled state.
LEMMA HookOutcome ==
  ASSUME NEW kind, NEW next, HookRuns(kind, next)
  PROVE  /\ active' \in {active, dest}
         /\ pc' = next \/ pc' = IF kind = "apply" THEN "restore" ELSE "failed"
BY DEF HookRuns, Go

\* Every step keeps the types.
LEMMA BundleTypeStep ==
  ASSUME TypeOK, Delivered, [Next]_vars
  PROVE  TypeOK'
<1> USE DEF TypeOK, Go, document, history, Placing, Placed, Restoring
<1>0. MaxApplications \in Nat
  BY ConstantsAssumption
<1>1. ASSUME NEW r \in Revisions, Begin(r) PROVE TypeOK'
  BY <1>0, <1>1 DEF Begin
<1>2. CASE Verify \/ Stage
  BY <1>2 DEF Verify, Stage
<1>3. CASE Prepare
  <2>1. Nothing \in Configs
    BY DEF Nothing, Configs, Contents
  <2> QED
    BY <1>3, <2>1 DEF Prepare
<1>4. ASSUME NEW f \in Files, PlaceFile(f) PROVE TypeOK'
  <2>1. bundle = Complete(rev) /\ rev \in Revisions
    BY <1>4 DEF PlaceFile, Delivered
  <2>2. f \in DOMAIN bundle /\ bundle[f] \in Contents
    BY <1>4, <2>1, CompleteType DEF PlaceFile
  <2>3. dest' \in Configs
    BY <1>4, <2>2 DEF PlaceFile, Configs
  <2>4. backup' \in Configs
    BY <1>4 DEF PlaceFile, Configs
  <2>5. hadPrevious' \subseteq placed' /\ placed' \subseteq Files
    BY <1>4 DEF PlaceFile
  <2> QED
    BY <1>4, <2>3, <2>4, <2>5 DEF PlaceFile
<1>5. ASSUME NEW f \in Files, PlaceFails(f) PROVE TypeOK'
  BY <1>5 DEF PlaceFails
<1>6. CASE AllPlaced \/ Health \/ Restored \/ Fail \/ Die \/ Restart \/ UNCHANGED vars
  BY <1>6 DEF AllPlaced, Health, Restored, Fail, Die, Restart, vars
<1>7. CASE Apply
  BY <1>7, HookOutcome DEF Apply
<1>8. CASE Reapply
  BY <1>8, HookOutcome DEF Reapply
<1>9. CASE Commit
  BY <1>9 DEF Commit
<1>10. ASSUME NEW f \in Files, RestoreFile(f) PROVE TypeOK'
  <2>1. Previous(f) \in Contents
    BY DEF Previous, Configs, Contents
  <2>2. dest' \in Configs
    BY <1>10, <2>1 DEF RestoreFile, Configs
  <2>3. hadPrevious' \subseteq placed' /\ placed' \subseteq Files
    BY <1>10 DEF RestoreFile
  <2> QED
    BY <1>10, <2>2, <2>3 DEF RestoreFile
<1> QED
  BY <1>1, <1>2, <1>3, <1>4, <1>5, <1>6, <1>7, <1>8, <1>9, <1>10 DEF Next, Finished

\* Every step keeps the destinations what was found with placed files over it.
LEMMA OverlaidStep ==
  ASSUME TypeOK, Overlaid, [Next]_vars
  PROVE  Overlaid'
<1> USE DEF Overlaid, Go, document, history, Placing, Placed, Restoring
<1>0. DOMAIN dest = Files
  BY DEF TypeOK, Configs
<1>1. ASSUME NEW r \in Revisions, Begin(r) PROVE Overlaid'
  BY <1>1 DEF Begin
<1>2. CASE Verify \/ Stage
  BY <1>2 DEF Verify, Stage
<1>3. CASE Prepare
  BY <1>3 DEF Prepare
<1>4. ASSUME NEW f \in Files, PlaceFile(f) PROVE Overlaid'
  BY <1>0, <1>4 DEF PlaceFile
<1>5. ASSUME NEW f \in Files, PlaceFails(f) PROVE Overlaid'
  BY <1>5 DEF PlaceFails
<1>6. CASE AllPlaced \/ Health \/ UNCHANGED vars
  BY <1>6 DEF AllPlaced, Health, vars
<1>7. CASE Commit \/ Restored \/ Fail \/ Die \/ Restart
  BY <1>7 DEF Commit, Restored, Fail, Die, Restart
<1>8. CASE Apply
  BY <1>8, HookOutcome DEF Apply
<1>9. CASE Reapply
  BY <1>9, HookOutcome DEF Reapply
<1>10. ASSUME NEW f \in Files, RestoreFile(f) PROVE Overlaid'
  BY <1>10 DEF RestoreFile
<1> QED
  BY <1>1, <1>2, <1>3, <1>4, <1>5, <1>6, <1>7, <1>8, <1>9, <1>10 DEF Next, Finished

\* Faults that keep restore from putting back what was there.
RestoreWorks == Faults \cap {"read", "restore"} = {}

\* If previous files can be read and put back, every step keeps them restorable.
LEMMA RestorableStep ==
  ASSUME RestoreWorks, TypeOK, Restorable, [Next]_vars
  PROVE  Restorable'
<1> USE DEF Restorable, Go, document, history, Placing, Placed, Restoring, Previous
<1>0. dest \in Configs /\ found \in Configs /\ backup \in Configs
  BY DEF TypeOK
<1>1. ASSUME NEW r \in Revisions, Begin(r) PROVE Restorable'
  BY <1>1 DEF Begin
<1>2. CASE Verify \/ Stage
  BY <1>2 DEF Verify, Stage
<1>3. CASE Prepare
  BY <1>3 DEF Prepare
<1>4. ASSUME NEW f \in Files, PlaceFile(f) PROVE Restorable'
  <2>1. /\ pc = "place" /\ pc' = "place" /\ f \notin placed
        /\ found' = found /\ placed' = placed \cup {f}
        /\ dest' = [dest EXCEPT ![f] = bundle[f]]
    BY <1>4 DEF PlaceFile
  <2>2. \/ /\ dest[f] # Absent /\ hadPrevious' = hadPrevious \cup {f}
           /\ backup' = [backup EXCEPT ![f] = dest[f]]
        \/ dest[f] = Absent /\ hadPrevious' = hadPrevious /\ backup' = backup
    BY <1>4 DEF PlaceFile, Readable, MayFail, RestoreWorks
  <2>3. hadPrevious \subseteq placed
    BY DEF TypeOK
  <2> QED
    BY <1>0, <2>1, <2>2, <2>3 DEF Configs
<1>5. ASSUME NEW f \in Files, PlaceFails(f) PROVE Restorable'
  BY <1>5 DEF PlaceFails
<1>6. CASE AllPlaced \/ Health \/ UNCHANGED vars
  BY <1>6 DEF AllPlaced, Health, vars
<1>7. CASE Commit \/ Fail \/ Die \/ Restart
  BY <1>7 DEF Commit, Fail, Die, Restart
<1>8. CASE Apply
  BY <1>8, HookOutcome DEF Apply
<1>9. CASE Reapply
  BY <1>9, HookOutcome DEF Reapply
<1>10. ASSUME NEW f \in Files, RestoreFile(f) PROVE Restorable'
  <2>1. /\ pc \in Restoring /\ pc' = pc /\ f \in placed
        /\ placed' = placed \ {f} /\ hadPrevious' = hadPrevious \ {f}
        /\ UNCHANGED <<backup, found>>
        /\ dest' = [dest EXCEPT ![f] = Previous(f)]
    BY <1>10 DEF RestoreFile, MayFail, RestoreWorks
  <2> QED
    BY <1>0, <2>1 DEF Configs
<1>11. CASE Restored
  <2>1. placed = {} /\ pc \in Restoring /\ UNCHANGED <<dest, found>>
        /\ pc' \in {"reapply", "failed"}
    BY <1>11 DEF Restored
  <2>2. \A f \in Files : found[f] = dest[f]
    BY <2>1
  <2>3. dest = found
    BY <1>0, <2>2 DEF Configs
  <2> QED
    BY <2>1, <2>3
<1> QED
  BY <1>1, <1>2, <1>3, <1>4, <1>5, <1>6, <1>7, <1>8, <1>9, <1>10, <1>11 DEF Next, Finished

\* Whatever step failed, a reported failure leaves every destination as the
\* application found it, provided previous files can be read and put back.
THEOREM FailureLeavesNoTrace ==
  ASSUME RestoreWorks
  PROVE  Spec => []FailedChangesNothing
<1>1. /\ TypeOK /\ Delivered /\ Restorable /\ [Next]_vars
      => TypeOK' /\ Delivered' /\ Restorable'
  BY BundleTypeStep, DeliveredStep, RestorableStep
<1>2. Restorable => FailedChangesNothing
  BY DEF Restorable, FailedChangesNothing
<1> QED
  BY <1>1, <1>2, BundleInit, PTL DEF Spec

\* The manifest defines the apply hook, and it does not fail when it is run again
\* for the restored files.
ReapplyWorks == HasApplyHook /\ "reapply" \notin Faults

\* If the hook is there to be run again, every step keeps what the software runs
\* with at either end of the application.
LEMMA RunningStep ==
  ASSUME ReapplyWorks, Running, [Next]_vars
  PROVE  Running'
<1> USE DEF Running, Go, document, history, Placing, Placed, Restoring
<1>1. CASE \E r \in Revisions : Begin(r)
  BY <1>1 DEF Begin
<1>2. CASE Verify \/ Stage \/ Prepare \/ AllPlaced \/ Health \/ Commit
  BY <1>2 DEF Verify, Stage, Prepare, AllPlaced, Health, Commit
<1>3. CASE \E f \in Files : PlaceFile(f) \/ PlaceFails(f) \/ RestoreFile(f)
  BY <1>3 DEF PlaceFile, PlaceFails, RestoreFile
<1>4. CASE Apply
  BY <1>4 DEF Apply, HookRuns, ReapplyWorks
<1>5. CASE Reapply
  BY <1>5 DEF Reapply, HookRuns, ReapplyWorks, MayFail
<1>6. CASE Restored \/ Fail \/ Die \/ Restart \/ UNCHANGED vars
  BY <1>6 DEF Restored, Fail, Die, Restart, vars
<1> QED
  BY <1>1, <1>2, <1>3, <1>4, <1>5, <1>6 DEF Next, Finished

\* Software that ran with the files it had runs with the files it has when an
\* application has succeeded or failed, provided previous files can be put back
\* and the apply hook succeeds for them.
THEOREM SoftwareRunsItsFiles ==
  ASSUME RestoreWorks, ReapplyWorks
  PROVE  Spec => []ActiveIsLive
<1>1. /\ TypeOK /\ Delivered /\ Restorable /\ Running /\ [Next]_vars
      => TypeOK' /\ Delivered' /\ Restorable' /\ Running'
  BY BundleTypeStep, DeliveredStep, RestorableStep, RunningStep
<1>2. Restorable /\ Running => ActiveIsLive
  BY DEF Restorable, Running, ActiveIsLive
<1>3. Init => Running
  BY DEF Init, Running
<1> QED
  BY <1>1, <1>2, <1>3, BundleInit, PTL DEF Spec

\* The recorded revision only ever becomes one whose complete file set was just
\* placed over what was found, whatever was delivered, failed or died.
THEOREM OnlyCompleteIsCommitted ==
  Spec => CommittedIsComplete
<1>1. /\ TypeOK /\ Delivered /\ Overlaid /\ [Next]_vars
      => TypeOK' /\ Delivered' /\ Overlaid'
  BY BundleTypeStep, DeliveredStep, OverlaidStep
<1>2. TypeOK /\ Delivered /\ Overlaid /\ [Next]_vars
        => [configRevision' # configRevision =>
              /\ configRevision' = rev
              /\ dest = Over(found, Complete(rev))]_vars
  <2> SUFFICES ASSUME TypeOK, Delivered, Overlaid, [Next]_vars,
                      configRevision' # configRevision
               PROVE  configRevision' = rev /\ dest = Over(found, Complete(rev))
    OBVIOUS
  <2>1. Commit
    BY DEF Next, Finished, Begin, Verify, Stage, Prepare, PlaceFile, PlaceFails, AllPlaced,
           Apply, Health, RestoreFile, Restored, Reapply, Fail, Die, Restart, vars
  <2>2. configRevision' = rev /\ pc = "commit"
    BY <2>1 DEF Commit
  <2>3. bundle = Complete(rev) /\ placed = DOMAIN bundle /\ dest \in Configs
    BY <2>2 DEF Delivered, Overlaid, TypeOK, Placed
  <2>4. \A f \in Files : dest[f] = Over(found, Complete(rev))[f]
    BY <2>2, <2>3 DEF Overlaid, Placed, Over
  <2> QED
    BY <2>2, <2>3, <2>4 DEF Configs, Over
<1> QED
  BY <1>1, <1>2, BundleInit, PTL DEF Spec, CommittedIsComplete

\* Complete placement is what the abstract specification calls overlaying.
LEMMA PlacedIsOverlay ==
  ASSUME TypeOK, Delivered, Overlaid, pc = "place", placed = DOMAIN bundle
  PROVE  rev \in Revisions /\ dest = OverComplete(found, rev)
<1>1. bundle = Complete(rev) /\ rev \in Revisions /\ dest \in Configs
  BY DEF Delivered, TypeOK
<1>2. \A f \in Files : dest[f] = OverComplete(found, rev)[f]
  BY <1>1 DEF Overlaid, Placing, OverComplete, Over
<1> QED
  BY <1>1, <1>2 DEF Configs, OverComplete, Over

\* If previous files can be read and put back, every step of an application is a
\* step of the all-or-nothing activation, or none.
LEMMA ActivationStep ==
  ASSUME TypeOK, Delivered, Overlaid, Restorable, Restorable', TypeOK', [Next]_vars
  PROVE  Activation!Next \/ UNCHANGED Activation!vars
<1> USE DEF Activation!Next, Activation!vars, ActivationStage, Go, document, history,
        Placing, Placed, Restoring
<1>1. CASE \/ \E r \in Revisions : Begin(r)
           \/ Verify \/ Stage \/ Fail \/ UNCHANGED vars
  BY <1>1 DEF Begin, Verify, Stage, Fail, vars
<1>2. CASE Prepare
  BY <1>2 DEF Prepare, Overlaid, Activation!Begin
<1>3. CASE \E f \in Files : PlaceFile(f) \/ RestoreFile(f)
  BY <1>3 DEF PlaceFile, RestoreFile
<1>4. CASE \E f \in Files : PlaceFails(f)
  BY <1>4 DEF PlaceFails, Activation!GiveUp
<1>5. CASE AllPlaced
  <2>1. rev \in Revisions /\ dest = OverComplete(found, rev)
    BY <1>5, PlacedIsOverlay DEF AllPlaced
  <2> QED
    BY <1>5, <2>1 DEF AllPlaced, Activation!Complete
<1>6. CASE Apply
  BY <1>6, HookOutcome DEF Apply, Activation!GiveUp
<1>7. CASE Health
  BY <1>7 DEF Health, Activation!GiveUp
<1>8. CASE Commit
  BY <1>8 DEF Commit, Activation!Commit
<1>9. CASE Restored
  BY <1>9 DEF Restored, Restorable, Activation!Restore
<1>10. CASE Reapply
  BY <1>10, HookOutcome DEF Reapply
<1>11. CASE Die
  BY <1>11 DEF Die, TypeOK, Activation!Die
<1>12. CASE Restart
  BY <1>12 DEF Restart, Activation!Restart
<1> QED
  BY <1>1, <1>2, <1>3, <1>4, <1>5, <1>6, <1>7, <1>8, <1>9, <1>10, <1>11, <1>12
  DEF Next, Finished

\* File-level placement, backup and restore implement the all-or-nothing
\* activation, provided previous files can be read and put back.
THEOREM BundleRefinesActivation ==
  ASSUME RestoreWorks
  PROVE  Spec => AllOrNothing
<1>1. /\ TypeOK /\ Delivered /\ Overlaid /\ Restorable /\ [Next]_vars
      => TypeOK' /\ Delivered' /\ Overlaid' /\ Restorable'
  BY BundleTypeStep, DeliveredStep, OverlaidStep, RestorableStep
<1>2. Init => Activation!Init
  BY BundleInit DEF Init, TypeOK, Activation!Init, ActivationStage, Placing, Placed, Restoring
<1>3. TypeOK /\ Delivered /\ Overlaid /\ Restorable /\ TypeOK' /\ Restorable' /\ [Next]_vars
        => [Activation!Next]_(Activation!vars)
  BY ActivationStep
<1> QED
  BY <1>1, <1>2, <1>3, BundleInit, PTL DEF Spec, AllOrNothing, Activation!Spec
===============================================================================
