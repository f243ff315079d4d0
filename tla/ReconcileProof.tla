---------------------------- MODULE ReconcileProof ----------------------------
(***************************************************************************)
(* The safety properties of the worker, for all versions, contents,        *)
(* numbers of generations and numbers of deaths.  Each is the consequence  *)
(* of one named invariant of Reconcile (Generations..., Marking, Recorded, *)
(* SoftwareGood, RevisionsRecorded, InStep) on top of the types; a theorem *)
(* names in its premises the faults it cannot survive.                     *)
(***************************************************************************)
EXTENDS Reconcile, TLAPS

USE ConstantsAssumption

\* The records written to the state file are well formed.
LEMMA OutcomeType ==
  ASSUME TypeOK, NEW status \in Terminal, NEW version \in Versions \cup {NoVersion}
  PROVE  Outcome(status, version) \in Local
BY DEF TypeOK, Doc, Local, Op, NoOp, Outcome

\* Marking an operation keeps the record well formed.
LEMMA MarkedType ==
  ASSUME TypeOK
  PROVE  Marked(local) \in Local
BY DEF TypeOK, Doc, Local, Op, Marked, ThisOperation

\* currentVersion answers a version, or nothing.
LEMMA VersionType ==
  ASSUME TypeOK
  PROVE  CurrentVersion \subseteq Versions \cup {NoVersion}
BY DEF TypeOK, CurrentVersion, Local, Software

\* finish writes a well-formed record.
LEMMA FinishType ==
  ASSUME TypeOK, NEW status \in Terminal, NEW version \in Versions \cup {NoVersion},
         Finish(status, version)
  PROVE  local' \in Local /\ disk' \in Local /\ pc' = "report"
<1>1. Outcome(status, version) \in Local
  BY OutcomeType
<1> QED
  BY <1>1 DEF Finish, Save, TypeOK

\* The first start of the supervisor.
LEMMA InitTyped == Init => TypeOK /\ WellFormed
<1> SUFFICES ASSUME Init PROVE TypeOK /\ WellFormed
  OBVIOUS
<1>1. desired \in Doc /\ inbox \in Doc /\ doc \in Doc
  BY DEF Init, Doc, NoDoc
<1>2. view \in Report
  BY DEF Init, Report, NoView
<1>3. local \in Local /\ disk \in Local
  BY DEF Init, Local, EmptyLocal, Op, NoOp
<1>4. app \in Software /\ previous \in Software
  BY DEF Init, Software, NoApp
<1>5. pc \in Locations /\ astray \in BOOLEAN
  BY DEF Init, Locations
<1>6. TypeOK
  BY <1>1, <1>2, <1>3, <1>4, <1>5 DEF Init, TypeOK
<1>7. WellFormed
  BY DEF Init, WellFormed, Upgrading
<1> QED
  BY <1>6, <1>7

\* Every step keeps the types.
LEMMA TypeStep == TypeOK /\ WellFormed /\ [Next]_vars => TypeOK'
<1> SUFFICES ASSUME TypeOK, WellFormed, [Next]_vars PROVE TypeOK'
  OBVIOUS
<1> USE DEF TypeOK, Doc, Op, Local, Report, Software, NoDoc, NoOp, NoApp, EmptyLocal,
            Locations, Upgrading, Configuring, Terminal, Phases, 
            cloudVars, softVars, confVars, procVars, Go, Save, Send
<1>1. ASSUME NEW c \in Contents, SetDesired(c) PROVE TypeOK'
  BY <1>1 DEF SetDesired
<1>2. CASE Resend
  BY <1>2 DEF Resend
<1>3. CASE Kill
  BY <1>3 DEF Kill, Dies, Forget, FilesAtDeath
<1>4. CASE Term
  BY <1>4 DEF Term, Dies
<1>5. CASE Exit
  BY <1>5 DEF Exit, Forget, FilesAtDeath
<1>6. CASE Restart
  BY <1>6 DEF Restart
<1>7. CASE IgnoreEmpty
  BY <1>7 DEF IgnoreEmpty
<1>8. CASE Take
  BY <1>8 DEF Take
<1>9. CASE Compare
  BY <1>9 DEF Compare, CurrentVersion
<1>10. CASE FetchOk
  <2>1. local' \in Local /\ disk' \in Local
    BY <1>10, MarkedType DEF FetchOk
  <2>2. view' \in Report
    BY <1>10 DEF FetchOk
  <2>3. cached' \subseteq Versions
    BY <1>10 DEF FetchOk, WellFormed
  <2> QED
    BY <1>10, <2>1, <2>2, <2>3 DEF FetchOk
<1>11. CASE FetchFails
  <2>1. local' \in Local /\ disk' \in Local /\ pc' = "report"
    BY <1>11, FinishType DEF FetchFails
  <2> QED
    BY <1>11, <2>1 DEF FetchFails
<1>12. CASE UpgradeStarts
  BY <1>12 DEF UpgradeStarts
<1>13. CASE UpgradeReturns
  BY <1>13 DEF UpgradeReturns
<1>14. CASE Verify
  BY <1>14 DEF Verify, CurrentVersion, Proven
<1>15. CASE RollbackStarts
  BY <1>15 DEF RollbackStarts
<1>16. CASE RollbackReturns
  BY <1>16 DEF RollbackReturns
<1>17. CASE RolledBack
  <2>1. local' \in Local /\ disk' \in Local /\ pc' = "report"
    BY <1>17, FinishType, VersionType DEF RolledBack
  <2> QED
    BY <1>17, <2>1 DEF RolledBack
<1>18. CASE Fail
  <2>1. local' \in Local /\ disk' \in Local /\ pc' = "report"
    BY <1>18, FinishType, VersionType DEF Fail
  <2> QED
    BY <1>18, <2>1 DEF Fail
<1>19. CASE UpgradeRefused \/ RollbackRefused
  BY <1>19 DEF UpgradeRefused, RollbackRefused
<1>20. CASE Succeed
  <2>1. Outcome("installed", local.version) \in Local
    BY OutcomeType
  <2> QED
    BY <1>20, <2>1 DEF Succeed
<1>21. CASE StartBundle
  BY <1>21 DEF StartBundle, CurrentVersion
<1>22. CASE StageOk \/ StageFails
  BY <1>22 DEF StageOk, StageFails
<1>23. CASE Place
  BY <1>23 DEF Place, CurrentVersion
<1>24. CASE PlaceFails
  BY <1>24 DEF PlaceFails
<1>29. CASE GateFails
  <2>1. /\ pc' = "restore"
        /\ UNCHANGED <<cloudVars, procVars, doc, local, seen, disk, cached,
                       softVars, confVars>>
    BY <1>29, Zenon DEF GateFails
  <2> QED
    BY <2>1
<1>25. CASE GateOk
  <2>1. /\ local' \in Local /\ disk' \in Local
        /\ app' \in Software /\ pc' \in Locations
    BY <1>25 DEF GateOk, Proven
  <2>2. astray' \in BOOLEAN
    BY <1>25, Zenon DEF GateOk
  <2> QED
    BY <1>25, <2>1, <2>2 DEF GateOk
<1>26. CASE ReportOutcome
  BY <1>26 DEF ReportOutcome, CurrentVersion
<1>27. CASE UNCHANGED vars
  BY <1>27 DEF vars
<1>28. CASE RestoreFiles
  <2>1. live' \in Nat \cup {Mixed} /\ pc' \in Locations
    BY <1>28 DEF RestoreFiles
  <2>2. astray' \in BOOLEAN
    <3>1. astray' = astray \/ astray' = TRUE
      BY <1>28, Zenon DEF RestoreFiles
    <3> QED
      BY <3>1
  <2> QED
    BY <1>28, <2>1, <2>2 DEF RestoreFiles
<1> QED
  BY <1>1, <1>2, <1>3, <1>4, <1>5, <1>6, <1>7, <1>8, <1>9, <1>10, <1>11, <1>12, <1>13,
     <1>14, <1>15, <1>16, <1>17, <1>18, <1>19, <1>20, <1>21, <1>22, <1>23, <1>24,
     <1>25, <1>26, <1>27, <1>28, <1>29
  DEF Next, Worker, Package, Configuration, Waiting

\* The package-handling locations hold a package, and the kept copy is real.
LEMMA WellFormedStep == TypeOK /\ WellFormed /\ [Next]_vars => WellFormed'
<1> SUFFICES ASSUME TypeOK, WellFormed, [Next]_vars PROVE WellFormed'
  OBVIOUS
<1> USE DEF WellFormed, Upgrading, Go
<1>0. doc \in Doc /\ inbox \in Doc /\ app \in Software /\ previous \in Software
  BY DEF TypeOK
<1>1. CASE \/ \E c \in Contents : SetDesired(c)
           \/ Resend \/ Term \/ Restart \/ IgnoreEmpty \/ UNCHANGED vars
  BY <1>1 DEF SetDesired, Resend, Term, Restart, IgnoreEmpty, vars, softVars
<1>2. CASE Kill \/ Exit
  BY <1>2 DEF Kill, Exit, Forget, softVars
<1>3. CASE Take
  BY <1>0, <1>3 DEF Take, Doc, softVars
<1>4. CASE Compare \/ FetchOk \/ FetchFails \/ Succeed \/ StartBundle
  BY <1>4 DEF Compare, FetchOk, FetchFails, Succeed, StartBundle, Finish, softVars
<1>5. CASE UpgradeStarts
  BY <1>0, <1>5 DEF UpgradeStarts, Software, NoApp
<1>6. CASE UpgradeRefused \/ UpgradeReturns
  BY <1>6 DEF UpgradeRefused, UpgradeReturns, softVars
<1>7. CASE Verify
  BY <1>0, <1>7 DEF Verify, Proven, Software
<1>8. CASE RollbackRefused \/ RollbackStarts \/ RollbackReturns
  BY <1>8 DEF RollbackRefused, RollbackStarts, RollbackReturns, softVars
<1>9. CASE RolledBack \/ Fail \/ ReportOutcome
  BY <1>9 DEF RolledBack, Fail, ReportOutcome, Finish, softVars
<1>10. CASE StageOk \/ StageFails \/ Place \/ PlaceFails \/ GateFails \/ RestoreFiles
  BY <1>10 DEF StageOk, StageFails, Place, PlaceFails, GateFails, RestoreFiles, softVars
<1>11. CASE GateOk
  BY <1>0, <1>11 DEF GateOk, Proven, Software
<1> QED
  BY <1>1, <1>2, <1>3, <1>4, <1>5, <1>6, <1>7, <1>8, <1>9, <1>10, <1>11
  DEF Next, Worker, Package, Configuration, Waiting

\* Every value the worker, the cloud and the managed software take has its type,
\* whatever fails and however often the process dies.
THEOREM TypeCorrect == Spec => [](TypeOK /\ WellFormed)
<1>1. TypeOK /\ WellFormed /\ [Next]_vars => TypeOK' /\ WellFormed'
  BY TypeStep, WellFormedStep
<1> QED
  BY <1>1, InitTyped, PTL DEF Spec
-------------------------------------------------------------------------------
(* Generations.  Only a state file that cannot be read loses the order.       *)

\* What is recorded, applied and queued was once the desired state, in order.
LEMMA GenerationsStep ==
  ASSUME "load" \notin Faults, TypeOK, GenerationsOrdered, [Next]_vars
  PROVE  GenerationsOrdered' /\ disk'.generation >= disk.generation
<1> USE DEF GenerationsOrdered, Go
<1>0. /\ doc \in Doc /\ inbox \in Doc /\ desired \in Doc /\ local \in Local /\ disk \in Local
      /\ pc = "idle" \/ pc # "idle"
  BY DEF TypeOK
<1>1. ASSUME NEW c \in Contents, SetDesired(c)
      PROVE  GenerationsOrdered' /\ disk'.generation >= disk.generation
  BY <1>0, <1>1 DEF SetDesired, Doc, Local
<1>2. CASE Resend
  BY <1>0, <1>2 DEF Resend, Doc, Local
<1>3. CASE Kill \/ Exit
  BY <1>0, <1>3 DEF Kill, Exit, Forget, Local
<1>4. CASE Term \/ Restart \/ UNCHANGED vars
  BY <1>0, <1>4 DEF Term, Restart, vars, cloudVars, Local
<1>5. CASE IgnoreEmpty
  BY <1>0, <1>5 DEF IgnoreEmpty, Local
<1>6. CASE Take
  <2>1. /\ local' = [disk EXCEPT !.inFlight = NoOp]
        /\ disk' = local' \/ disk' = disk
    BY <1>6 DEF Take, Save
  <2>2. local'.generation = disk.generation /\ disk'.generation = disk.generation
    BY <1>0, <2>1 DEF Local
  <2>3. inbox # NoDoc
    BY <1>0, <1>6, ConstantsAssumption DEF Take, NoDoc
  <2> QED
    BY <1>0, <1>6, <2>2, <2>3 DEF Take, NoDoc, Doc, Local
<1>7. CASE Compare \/ FetchOk \/ Verify \/ GateOk
  <2>1. /\ UNCHANGED <<desired, inbox, doc>>
        /\ pc \notin {"idle", "report"} /\ pc' \notin {"idle", "report"}
    BY <1>7 DEF Compare, FetchOk, Verify, GateOk, cloudVars
  <2>2. /\ local'.generation = local.generation
        /\ disk' = local' \/ disk' = disk
    BY <1>0, <1>7 DEF Compare, FetchOk, Verify, GateOk, Marked, Save, Local
  <2> QED
    BY <1>0, <2>1, <2>2 DEF Local
<1>8. CASE FetchFails \/ RolledBack \/ Fail \/ Succeed
  <2>1. /\ UNCHANGED <<desired, inbox, doc>>
        /\ pc # "idle" /\ pc' = "report"
    BY <1>8 DEF FetchFails, RolledBack, Fail, Succeed, Finish, cloudVars
  <2>2. PICK status, version : local' = Outcome(status, version) /\ Save(local')
    BY <1>8 DEF FetchFails, RolledBack, Fail, Succeed, Finish
  <2>3. disk'.generation \in {doc.generation, disk.generation}
    BY <1>0, <2>2 DEF Outcome, Save, Local
  <2> QED
    BY <1>0, <2>1, <2>3 DEF Local, Doc
<1>9. CASE \/ UpgradeStarts \/ UpgradeRefused \/ UpgradeReturns
           \/ RollbackRefused \/ RollbackStarts \/ RollbackReturns
  <2>1. /\ UNCHANGED <<desired, inbox, doc, local, disk>>
        /\ pc \notin {"idle", "report"} /\ pc' \notin {"idle", "report"}
    BY <1>9 DEF UpgradeStarts, UpgradeRefused, UpgradeReturns, RollbackRefused,
                RollbackStarts, RollbackReturns, cloudVars
  <2> QED
    BY <1>0, <2>1 DEF Local
<1>10. CASE \/ StartBundle \/ StageOk \/ StageFails \/ Place \/ PlaceFails
            \/ GateFails \/ RestoreFiles
  <2>1. /\ UNCHANGED <<desired, inbox, doc, local, disk>>
        /\ pc \notin {"idle", "report"} /\ pc' \notin {"idle", "report"}
    BY <1>10 DEF StartBundle, StageOk, StageFails, Place, PlaceFails, GateFails,
                 RestoreFiles, cloudVars
  <2> QED
    BY <1>0, <2>1 DEF Local
<1>11. CASE ReportOutcome
  BY <1>0, <1>11 DEF ReportOutcome, Local
<1> QED
  BY <1>1, <1>2, <1>3, <1>4, <1>5, <1>6, <1>7, <1>8, <1>9, <1>10, <1>11
  DEF Next, Worker, Package, Configuration, Waiting

\* No document that is late, sent again or applied after a restart takes the
\* recorded generation back, as long as the state file can be read.
THEOREM GenerationNeverRegresses ==
  ASSUME "load" \notin Faults
  PROVE  Spec => NeverRegresses
<1>1. Init => GenerationsOrdered
  BY DEF Init, GenerationsOrdered, NoDoc, EmptyLocal
<1>2. TypeOK /\ WellFormed /\ GenerationsOrdered /\ [Next]_vars
        => TypeOK' /\ WellFormed' /\ GenerationsOrdered'
  BY TypeStep, WellFormedStep, GenerationsStep
<1>3. TypeOK /\ GenerationsOrdered /\ [Next]_vars => [disk'.generation >= disk.generation]_vars
  BY GenerationsStep
<1> QED
  BY <1>1, <1>2, <1>3, InitTyped, PTL DEF Spec, NeverRegresses
-------------------------------------------------------------------------------
(* The in-flight marker and the durability of what is reported.  Both need    *)
(* saves that succeed: the code only logs one that does not.                  *)

\* Every step keeps the state file marked while the software is changed.
LEMMA MarkingStep ==
  ASSUME "save" \notin Faults, TypeOK, Marking, [Next]_vars
  PROVE  Marking'
<1> USE DEF Marking, ThisOperation, Upgrading, Go
<1>0. local \in Local /\ disk \in Local
  BY DEF TypeOK
<1>1. CASE \/ \E c \in Contents : SetDesired(c)
           \/ Resend \/ Term \/ Restart \/ IgnoreEmpty \/ UNCHANGED vars
  BY <1>1 DEF SetDesired, Resend, Term, Restart, IgnoreEmpty, vars
<1>2. CASE Kill \/ Exit \/ Take \/ Compare
  BY <1>2 DEF Kill, Exit, Forget, Take, Compare
<1>3. CASE FetchOk
  <2>1. local' = Marked(local) /\ disk' = local' /\ doc' = doc
    BY <1>3 DEF FetchOk, Save
  <2> QED
    BY <1>0, <2>1 DEF Marked, Local
<1>4. CASE UpgradeStarts \/ UpgradeRefused \/ UpgradeReturns
  BY <1>4 DEF UpgradeStarts, UpgradeRefused, UpgradeReturns
<1>5. CASE Verify
  BY <1>5 DEF Verify
<1>6. CASE RollbackRefused \/ RollbackStarts \/ RollbackReturns
  BY <1>6 DEF RollbackRefused, RollbackStarts, RollbackReturns
<1>7. CASE FetchFails \/ RolledBack \/ Fail \/ Succeed \/ ReportOutcome
  BY <1>7 DEF FetchFails, RolledBack, Fail, Succeed, ReportOutcome, Finish
<1>8. CASE Configuration
  BY <1>8 DEF Configuration, StartBundle, StageOk, StageFails, Place, PlaceFails,
              GateOk, GateFails, RestoreFiles
<1> QED
  BY <1>1, <1>2, <1>3, <1>4, <1>5, <1>6, <1>7, <1>8
  DEF Next, Worker, Package, Waiting

\* Whenever an upgrade or a rollback may leave the software half changed, the
\* state file says which operation is under way.
THEOREM MutationAlwaysMarked ==
  ASSUME "save" \notin Faults
  PROVE  Spec => []MutationIsMarked
<1>1. Init => Marking
  BY DEF Init, Marking, Upgrading
<1>2. TypeOK /\ WellFormed /\ Marking /\ [Next]_vars => TypeOK' /\ WellFormed' /\ Marking'
  BY TypeStep, WellFormedStep, MarkingStep
<1>3. Marking => MutationIsMarked
  BY DEF Marking, MutationIsMarked
<1> QED
  BY <1>1, <1>2, <1>3, InitTyped, PTL DEF Spec

\* Every step keeps what was reported recorded.
LEMMA RecordedStep ==
  ASSUME "save" \notin Faults, "load" \notin Faults,
         TypeOK, TypeOK', GenerationsOrdered, Recorded, [Next]_vars
  PROVE  Recorded'
<1> USE DEF Recorded, Go
<1>0. /\ disk'.generation >= disk.generation
      /\ disk.generation \in Nat /\ disk'.generation \in Nat
      /\ doc.generation \in Nat /\ view.generation \in Nat
      /\ local \in Local
  BY GenerationsStep DEF TypeOK, Local, Doc, Report
<1>1. CASE /\ UNCHANGED view
           /\ pc' # "report" \/ UNCHANGED <<pc, disk, doc>>
  BY <1>0, <1>1
<1>2. CASE /\ UNCHANGED view
           /\ disk'.generation = doc.generation /\ doc' = doc
  BY <1>0, <1>2
<1>3. CASE /\ UNCHANGED view \/ view'.status \in Phases
           /\ pc' # "report"
  BY <1>0, <1>3 DEF Phases, Terminal
<1>4. CASE ReportOutcome
  BY <1>0, <1>4 DEF ReportOutcome, Send
<1>5. \/ \E c \in Contents : SetDesired(c)
      \/ Resend \/ Term \/ Restart \/ IgnoreEmpty \/ UNCHANGED vars
      \/ Kill \/ Exit \/ Take
      => <1>1!1
  BY DEF SetDesired, Resend, Term, Restart, IgnoreEmpty, vars, Kill, Exit, Forget, Take,
         cloudVars
<1>6. \/ UpgradeStarts \/ UpgradeRefused \/ UpgradeReturns \/ Verify
      \/ RollbackRefused \/ RollbackStarts \/ RollbackReturns
      \/ StageOk \/ StageFails \/ PlaceFails \/ GateOk \/ GateFails \/ RestoreFiles
      => <1>1!1
  BY DEF UpgradeStarts, UpgradeRefused, UpgradeReturns, Verify, RollbackRefused,
         RollbackStarts, RollbackReturns, StageOk, StageFails, PlaceFails, GateOk,
         GateFails, RestoreFiles, cloudVars
<1>7. FetchFails \/ RolledBack \/ Fail \/ Succeed => <1>2!1
  <2> SUFFICES ASSUME FetchFails \/ RolledBack \/ Fail \/ Succeed PROVE <1>2!1
    OBVIOUS
  <2>1. doc' = doc /\ view' = view
    BY DEF FetchFails, RolledBack, Fail, Succeed, cloudVars
  <2>2. PICK status, version : disk' = Outcome(status, version)
    BY DEF FetchFails, RolledBack, Fail, Succeed, Finish, Save
  <2> QED
    BY <1>0, <2>1, <2>2 DEF Outcome, Local
<1>8. Compare \/ FetchOk \/ StartBundle \/ Place => <1>3!1
  BY DEF Compare, FetchOk, StartBundle, Place, Send, Phases
<1> QED
  BY <1>1, <1>2, <1>3, <1>4, <1>5, <1>6, <1>7, <1>8
  DEF Next, Worker, Package, Configuration, Waiting

\* A terminal outcome the cloud has been told is in the state file already: no
\* crash takes it back.
THEOREM ReportsAreDurable ==
  ASSUME "save" \notin Faults, "load" \notin Faults
  PROVE  Spec => []ReportedIsDurable
<1>1. Init => GenerationsOrdered /\ Recorded
  BY DEF Init, GenerationsOrdered, Recorded, Terminal, NoDoc, NoView, EmptyLocal
<1>2. /\ TypeOK /\ WellFormed /\ GenerationsOrdered /\ Recorded /\ [Next]_vars
      => TypeOK' /\ WellFormed' /\ GenerationsOrdered' /\ Recorded'
  BY TypeStep, WellFormedStep, GenerationsStep, RecordedStep
<1>3. Recorded => ReportedIsDurable
  BY DEF Recorded, ReportedIsDurable
<1> QED
  BY <1>1, <1>2, <1>3, InitTyped, PTL DEF Spec
-------------------------------------------------------------------------------
(* The health gates, while nothing dies and every failed upgrade is rolled    *)
(* back.  (The runs show what a death or a missing rollback hook does to them.) *)

\* What a reliable rollback and an immortal process exclude.
Gated == Deaths = {} /\ HasRollbackHook /\ "rollback" \notin Faults

\* Every step keeps track of whether the software passed its health check.
LEMMA SoftwareStep ==
  ASSUME Gated, TypeOK, WellFormed, SoftwareGood, [Next]_vars
  PROVE  SoftwareGood'
<1> USE DEF SoftwareGood, Go
<1>0. app \in Software /\ previous \in Software
  BY DEF TypeOK
<1>1. ~Kill /\ ~Term /\ ~Exit /\ ~Restart
  BY DEF Gated, Kill, Term, Exit, Restart
<1>2. CASE (\E c \in Contents : SetDesired(c)) \/ Resend \/ UNCHANGED vars
  BY <1>2 DEF SetDesired, Resend, vars, procVars, softVars
<1>3. CASE \/ IgnoreEmpty \/ Take \/ Compare \/ FetchOk \/ FetchFails
           \/ Succeed \/ ReportOutcome
  BY <1>3 DEF IgnoreEmpty, Take, Compare, FetchOk, FetchFails, Succeed, ReportOutcome,
              Finish, procVars, softVars
<1>4. CASE UpgradeStarts
  BY <1>0, <1>4 DEF UpgradeStarts, procVars
<1>5. CASE UpgradeRefused \/ UpgradeReturns
  BY <1>5 DEF UpgradeRefused, UpgradeReturns, WellFormed, procVars, softVars
<1>6. CASE Verify
  <2>1. /\ UNCHANGED <<up, previous>>
        /\ \/ app' = Proven(app) /\ pc' = "bundle"
           \/ app' = app /\ pc' = "rollback"
    BY <1>6 DEF Verify, procVars
  <2>2. pc = "verify"
    BY <1>6 DEF Verify
  <2> QED
    BY <1>0, <2>1, <2>2 DEF Proven, WellFormed, Software
<1>7. CASE RollbackRefused
  BY <1>7 DEF RollbackRefused, Gated, MayFail, procVars, softVars
<1>8. CASE RollbackStarts \/ RollbackReturns
  BY <1>8 DEF RollbackStarts, RollbackReturns, Gated, MayFail, WellFormed, procVars
<1>9. CASE RolledBack \/ Fail
  BY <1>9 DEF RolledBack, Fail, Finish, procVars, softVars
<1>10. CASE \/ StartBundle \/ StageOk \/ StageFails \/ Place \/ PlaceFails
            \/ GateFails \/ RestoreFiles
  BY <1>10 DEF StartBundle, StageOk, StageFails, Place, PlaceFails, GateFails,
               RestoreFiles, procVars, softVars
<1>11. CASE GateOk
  BY <1>0, <1>11 DEF GateOk, Proven, Software, procVars
<1> QED
  BY <1>1, <1>2, <1>3, <1>4, <1>5, <1>6, <1>7, <1>8, <1>9, <1>10, <1>11
  DEF Next, Worker, Package, Configuration, Waiting

\* Where a document can be concluded, or a placement begun, the software is good.
LEMMA GoodWhereItMatters ==
  ASSUME Gated, SoftwareGood, [Next]_vars,
         \/ pc # "report" /\ pc' = "report"
         \/ pc # "place" /\ pc' = "place"
  PROVE  app.state = "good"
<1>1. pc \in {"fetch", "restored", "failed", "bundle", "stage"}
  BY DEF Gated, Next, Worker, Package, Configuration, Waiting, SetDesired, Resend, Kill, Term,
         Exit, Forget, Restart, IgnoreEmpty, Take, Compare, FetchOk, FetchFails,
         UpgradeStarts, UpgradeRefused, UpgradeReturns, Verify, RollbackRefused,
         RollbackStarts, RollbackReturns, RolledBack, Fail, Succeed, StartBundle, StageOk,
         StageFails, Place, PlaceFails, GateOk, GateFails, RestoreFiles, ReportOutcome,
         Finish, Go, vars
<1> QED
  BY <1>1 DEF SoftwareGood

\* While nothing dies and failed upgrades are rolled back, no document is
\* recorded as installed or rolled back over software that did not pass its
\* health gate.
THEOREM GateHolds ==
  ASSUME Gated
  PROVE  Spec => OutcomeIsProven
<1>1. Init => SoftwareGood
  BY DEF Init, SoftwareGood, NoApp
<1>2. TypeOK /\ WellFormed /\ SoftwareGood /\ [Next]_vars
        => TypeOK' /\ WellFormed' /\ SoftwareGood'
  BY TypeStep, WellFormedStep, SoftwareStep
<1>3. SoftwareGood /\ [Next]_vars
        => [/\ Concludes({"installed"}) => doc.package = NoVersion \/ app.state = "good"
            /\ Concludes({"rolled-back"}) => app.state = "good"]_vars
  BY GoodWhereItMatters DEF Concludes
<1> QED
  BY <1>1, <1>2, <1>3, InitTyped, PTL DEF Spec, OutcomeIsProven

\* Under the same conditions, software in a failed state is never reconfigured.
THEOREM NoReconfigurationOfFailed ==
  ASSUME Gated
  PROVE  Spec => FailedIsNeverReconfigured
<1>1. Init => SoftwareGood
  BY DEF Init, SoftwareGood, NoApp
<1>2. TypeOK /\ WellFormed /\ SoftwareGood /\ [Next]_vars
        => TypeOK' /\ WellFormed' /\ SoftwareGood'
  BY TypeStep, WellFormedStep, SoftwareStep
<1>3. SoftwareGood /\ [Next]_vars
        => [pc # "place" /\ pc' = "place" => app.state = "good"]_vars
  BY GoodWhereItMatters
<1> QED
  BY <1>1, <1>2, <1>3, InitTyped, PTL DEF Spec, FailedIsNeverReconfigured
-------------------------------------------------------------------------------
(* The recorded configuration revision.                                       *)

\* Every step keeps the recorded revision one that was live.
LEMMA RevisionsStep ==
  ASSUME "load" \notin Faults, TypeOK, RevisionsRecorded, [Next]_vars
  PROVE  RevisionsRecorded' /\ (disk'.revision # disk.revision => live = disk'.revision)
<1> USE DEF RevisionsRecorded, Go
<1>0. local \in Local /\ disk \in Local
  BY DEF TypeOK
<1>1. CASE \/ \E c \in Contents : SetDesired(c)
           \/ Resend \/ Term \/ Restart \/ IgnoreEmpty \/ UNCHANGED vars
           \/ UpgradeStarts \/ UpgradeRefused \/ UpgradeReturns
           \/ RollbackRefused \/ RollbackStarts \/ RollbackReturns
  BY <1>1 DEF SetDesired, Resend, Term, Restart, IgnoreEmpty, vars, UpgradeStarts,
       UpgradeRefused, UpgradeReturns, RollbackRefused, RollbackStarts, RollbackReturns,
       confVars, cloudVars
<1>2. CASE Kill \/ Exit
  BY <1>2 DEF Kill, Exit, Forget
<1>3. CASE Take
  <2>1. /\ local' = [disk EXCEPT !.inFlight = NoOp]
        /\ disk' = local' \/ disk' = disk
    BY <1>3 DEF Take, Save
  <2> QED
    BY <1>0, <1>3, <2>1 DEF Take, Local
<1>4. CASE Compare \/ FetchOk \/ Verify
  <2>1. /\ local'.revision = local.revision
        /\ disk' = local' \/ disk' = disk
        /\ pc \notin {"idle", "bundle", "report"} /\ pc' # "gate"
    BY <1>0, <1>4 DEF Compare, FetchOk, Verify, Marked, Save, Local
  <2> QED
    BY <2>1
<1>5. CASE FetchFails \/ RolledBack \/ Fail \/ Succeed
  <2>1. UNCHANGED <<doc, live>> /\ pc # "idle" /\ pc' = "report"
    BY <1>5 DEF FetchFails, RolledBack, Fail, Succeed, Finish, confVars
  <2>2. PICK status, version : local' = Outcome(status, version) /\ Save(local')
    BY <1>5 DEF FetchFails, RolledBack, Fail, Succeed, Finish
  <2>3. /\ local'.revision = local.revision
        /\ disk' = local' \/ disk' = disk
    BY <1>0, <2>2 DEF Outcome, Save, Local
  <2>4. pc \notin {"bundle", "report"} \/ (pc = "bundle" /\ pc' = "report")
    BY <1>5 DEF FetchFails, RolledBack, Fail, Succeed
  <2> QED
    BY <2>1, <2>3, <2>4
<1>6. CASE \/ StartBundle \/ StageOk \/ StageFails \/ Place \/ PlaceFails
           \/ GateFails \/ RestoreFiles
  BY <1>6 DEF StartBundle, NothingToPlace, StageOk, StageFails, Place, PlaceFails,
              GateFails, RestoreFiles, confVars
<1>7. CASE GateOk
  <2>1. /\ local'.revision = doc.revision /\ live = doc.revision
        /\ disk' = local' \/ disk' = disk
        /\ UNCHANGED <<doc, live>> /\ pc' = "bundle"
    BY <1>0, <1>7 DEF GateOk, Save, Local, confVars
  <2> QED
    BY <2>1
<1>8. CASE ReportOutcome
  BY <1>8 DEF ReportOutcome
<1> QED
  BY <1>1, <1>2, <1>3, <1>4, <1>5, <1>6, <1>7, <1>8
  DEF Next, Worker, Package, Configuration, Waiting

\* The state file takes a new revision only while exactly its files are live,
\* whatever dies and whichever saves fail.
THEOREM OnlyLiveRevisionsRecorded ==
  ASSUME "load" \notin Faults
  PROVE  Spec => OnlyCompleteRevisionsRecorded
<1>1. Init => RevisionsRecorded
  BY DEF Init, RevisionsRecorded
<1>2. TypeOK /\ WellFormed /\ RevisionsRecorded /\ [Next]_vars
        => TypeOK' /\ WellFormed' /\ RevisionsRecorded'
  BY TypeStep, WellFormedStep, RevisionsStep
<1>3. TypeOK /\ RevisionsRecorded /\ [Next]_vars
        => [disk'.revision # disk.revision => live = disk'.revision]_vars
  BY RevisionsStep
<1> QED
  BY <1>1, <1>2, <1>3, InitTyped, PTL DEF Spec, OnlyCompleteRevisionsRecorded

\* Every step keeps the record and the live configuration in step.
LEMMA InStepStep ==
  ASSUME "save" \notin Faults, TypeOK, InStep, [Next]_vars
  PROVE  InStep'
<1> USE DEF InStep, Go, Configuring, Forgotten
<1>0. /\ local \in Local /\ disk \in Local
      /\ \A l : Save(l) => disk' = l
  BY DEF TypeOK, Save
<1>1. CASE Kill \/ Exit
  <2>1. /\ pc' = "idle" /\ disk' = disk
        /\ live' \in FilesAtDeath
        /\ astray' = (astray \/ pc \in Configuring)
    BY <1>1 DEF Kill, Exit, Forget
  <2> QED
    BY <2>1 DEF FilesAtDeath
<1>2. CASE \/ \E c \in Contents : SetDesired(c)
           \/ Resend \/ Term \/ Restart \/ IgnoreEmpty \/ UNCHANGED vars
  BY <1>2 DEF SetDesired, Resend, Term, Restart, IgnoreEmpty, vars, confVars
<1>3. CASE Take
  <2>1. /\ pc' \in {"compare", "bundle"} /\ pc = "idle"
        /\ UNCHANGED <<live, astray>>
    BY <1>3 DEF Take, confVars
  <2>2. PICK l \in {disk} \cup (IF "load" \in Faults THEN {EmptyLocal} ELSE {}) :
          /\ local' = [l EXCEPT !.inFlight = NoOp]
          /\ IF l.inFlight # NoOp THEN Save(local') ELSE UNCHANGED disk
    BY <1>3 DEF Take
  <2>3. CASE l = disk
    <3>1. local'.revision = disk.revision /\ disk'.revision = disk.revision
      BY <1>0, <2>2, <2>3 DEF Local
    <3> QED
      BY <2>1, <3>1
  <2>4. CASE l = EmptyLocal /\ "load" \in Faults
    <3>1. local'.revision = 0 /\ disk' = disk
      BY <2>2, <2>4 DEF EmptyLocal
    <3> QED
      BY <2>1, <2>4, <3>1
  <2> QED
    BY <2>2, <2>3, <2>4
<1>4. CASE Compare
  BY <1>0, <1>4 DEF Compare, Local, confVars
<1>5. CASE FetchOk
  <2>1. /\ local' = Marked(local) /\ disk' = local'
        /\ pc = "fetch" /\ pc' = "upgrade" /\ UNCHANGED <<live, astray>>
    BY <1>0, <1>5 DEF FetchOk, confVars
  <2> QED
    BY <1>0, <2>1 DEF Marked, Local
<1>6. CASE FetchFails \/ RolledBack \/ Fail \/ Succeed
  <2>1. /\ pc \notin {"idle", "gate", "restore"} /\ pc' = "report"
        /\ UNCHANGED <<live, astray>>
    BY <1>6 DEF FetchFails, RolledBack, Fail, Succeed, Finish, confVars
  <2>2. PICK status, version : local' = Outcome(status, version) /\ Save(local')
    BY <1>6 DEF FetchFails, RolledBack, Fail, Succeed, Finish
  <2>3. local'.revision = local.revision /\ disk' = local'
    BY <1>0, <2>2 DEF Outcome, Local
  <2> QED
    BY <2>1, <2>3
<1>7. CASE \/ UpgradeStarts \/ UpgradeRefused \/ UpgradeReturns
           \/ RollbackRefused \/ RollbackStarts \/ RollbackReturns
  BY <1>7 DEF UpgradeStarts, UpgradeRefused, UpgradeReturns, RollbackRefused,
              RollbackStarts, RollbackReturns, confVars
<1>8. CASE Verify
  <2>1. /\ UNCHANGED <<live, astray>> /\ pc = "verify"
        /\ \/ /\ pc' = "bundle"
              /\ local'.revision = local.revision /\ disk' = local'
           \/ UNCHANGED <<local, disk>> /\ pc' = "rollback"
    BY <1>0, <1>8 DEF Verify, Local, confVars
  <2> QED
    BY <1>0, <2>1
<1>9. CASE StartBundle \/ StageOk \/ StageFails \/ Place \/ PlaceFails
  BY <1>9 DEF StartBundle, StageOk, StageFails, Place, PlaceFails, confVars
<1>10. CASE GateOk
  <2>1. /\ UNCHANGED <<doc, live>> /\ astray' = FALSE /\ pc = "gate" /\ pc' = "bundle"
        /\ local'.revision = doc.revision /\ disk' = local'
    BY <1>0, <1>10 DEF GateOk, Local, confVars
  <2> QED
    BY <1>0, <2>1
<1>11. CASE GateFails
  <2>1. /\ UNCHANGED <<doc, local, disk, live, before, astray>>
        /\ pc = "gate" /\ pc' = "restore"
    BY <1>11, Zenon DEF GateFails, confVars
  <2> QED
    BY <2>1
<1>12. CASE RestoreFiles \/ ReportOutcome
  BY <1>12 DEF RestoreFiles, ReportOutcome, confVars
<1> QED
  BY <1>1, <1>2, <1>3, <1>4, <1>5, <1>6, <1>7, <1>8, <1>9, <1>10, <1>11, <1>12
  DEF Next, Worker, Package, Configuration, Waiting

\* Between documents and after every death the recorded revision is the one in the
\* files, whichever hooks, downloads and file operations failed on the way, until
\* a death during a placement or a restore that fails leads the files astray; the
\* next placement that passes its gate ends that.
THEOREM RecordedRevisionIsLive ==
  ASSUME "load" \notin Faults, "save" \notin Faults
  PROVE  Spec => []RevisionIsLive
<1>1. Init => InStep
  BY DEF Init, InStep, Configuring, EmptyLocal
<1>2. TypeOK /\ WellFormed /\ InStep /\ [Next]_vars => TypeOK' /\ WellFormed' /\ InStep'
  BY TypeStep, WellFormedStep, InStepStep
<1>3. InStep => RevisionIsLive
  BY DEF InStep, RevisionIsLive, Forgotten
<1> QED
  BY <1>1, <1>2, <1>3, InitTyped, PTL DEF Spec

\* Saves succeed, and a version hook that is there always answers: it never fails
\* by itself, nor through a canceled context.
Steady ==
  /\ Faults \cap {"save", "version"} = {}
  /\ "term" \notin Deaths

\* Only SIGTERM cancels the context.
NotStopping == up # "stopping"

LEMMA NotStoppingStep ==
  ASSUME "term" \notin Deaths, NotStopping, [Next]_vars
  PROVE  NotStopping'
<1> USE DEF NotStopping, procVars
<1>1. CASE UNCHANGED up
  BY <1>1
<1>2. CASE Kill \/ Term \/ Exit \/ Restart
  BY <1>2 DEF Kill, Forget, Term, Exit, Restart
<1>3. \/ \E c \in Contents : SetDesired(c)
      \/ Resend \/ IgnoreEmpty \/ Take \/ UNCHANGED vars
      \/ Succeed \/ Fail \/ ReportOutcome
      => <1>1!1
  BY DEF SetDesired, Resend, IgnoreEmpty, Take, vars, Succeed, Fail, ReportOutcome
<1>4. Package => <1>1!1
  BY DEF Package, Compare, FetchOk, FetchFails, UpgradeStarts, UpgradeRefused,
         UpgradeReturns, Verify, RollbackRefused, RollbackStarts, RollbackReturns, RolledBack
<1>5. StartBundle \/ StageOk \/ StageFails \/ Place \/ PlaceFails \/ GateOk => <1>1!1
  BY DEF StartBundle, StageOk, StageFails, Place, PlaceFails, GateOk
<1>6. CASE GateFails
  <2>1. UNCHANGED procVars
    BY <1>6, Zenon DEF GateFails
  <2> QED
    BY <2>1
<1>7. RestoreFiles => <1>1!1
  BY DEF RestoreFiles
<1> QED
  BY <1>1, <1>2, <1>3, <1>4, <1>5, <1>6, <1>7
  DEF Next, Worker, Configuration, Waiting

\* No step records a version that no hook has answered.
LEMMA NoneRecordedStep ==
  ASSUME TypeOK, NoneRecordedUnasked, [Next]_vars
  PROVE  NoneRecordedUnasked'
<1> USE DEF NoneRecordedUnasked, procVars
<1>0. /\ local \in Local /\ disk \in Local
      /\ ~HasVersionHook => CurrentVersion = {NoVersion}
      /\ EmptyLocal.version = NoVersion
      /\ \A l : Save(l) => disk' \in {disk, l}
  BY DEF TypeOK, CurrentVersion, EmptyLocal, Save
<1>1. CASE \/ \E c \in Contents : SetDesired(c)
           \/ Resend \/ Term \/ Restart \/ IgnoreEmpty \/ UNCHANGED vars
  BY <1>1 DEF SetDesired, Resend, Term, Restart, IgnoreEmpty, vars
<1>2. CASE Kill \/ Exit \/ ReportOutcome
  BY <1>0, <1>2 DEF Kill, Exit, Forget, ReportOutcome
<1>3. CASE Take
  <2>1. PICK l \in {disk, EmptyLocal} : local' = [l EXCEPT !.inFlight = NoOp]
    BY <1>3 DEF Take
  <2>2. local'.version = l.version
    BY <1>0, <2>1 DEF Local, EmptyLocal
  <2>3. disk' \in {disk, local'} /\ seen' = seen
    BY <1>0, <1>3 DEF Take
  <2> QED
    BY <1>0, <2>2, <2>3
<1>4. CASE Compare
  BY <1>0, <1>4 DEF Compare, Local
<1>5. CASE FetchOk
  BY <1>0, <1>5 DEF FetchOk, Marked, Local
<1>6. CASE FetchFails \/ RolledBack \/ Fail \/ Succeed
  <2>1. ASSUME ~HasVersionHook
        PROVE  \E status \in Terminal : local' = Outcome(status, NoVersion) /\ Save(local') /\ seen' = seen
    BY <1>0, <1>6, <2>1 DEF FetchFails, RolledBack, Fail, Succeed, Finish, Terminal
  <2>2. \A status : Outcome(status, NoVersion).version = NoVersion
    BY <1>0 DEF Outcome, Local
  <2> QED
    BY <1>0, <2>1, <2>2
<1>7. CASE \/ UpgradeStarts \/ UpgradeRefused \/ UpgradeReturns
           \/ RollbackRefused \/ RollbackStarts \/ RollbackReturns
  BY <1>7 DEF UpgradeStarts, UpgradeRefused, UpgradeReturns, RollbackRefused,
              RollbackStarts, RollbackReturns
<1>8. CASE Verify
  BY <1>0, <1>8 DEF Verify, Local
<1>9. CASE StartBundle \/ StageOk \/ StageFails \/ Place \/ PlaceFails
  BY <1>9 DEF StartBundle, StageOk, StageFails, Place, PlaceFails
<1>10. CASE GateOk \/ GateFails \/ RestoreFiles
  <2>1. CASE GateOk
    <3>1. local'.version = local.version /\ disk' \in {disk, local'} /\ seen' = seen
      BY <1>0, <2>1 DEF GateOk, Local
    <3> QED
      BY <3>1
  <2>2. CASE GateFails \/ RestoreFiles
    BY <2>2 DEF GateFails, RestoreFiles
  <2> QED
    BY <1>10, <2>1, <2>2
<1> QED
  BY <1>1, <1>2, <1>3, <1>4, <1>5, <1>6, <1>7, <1>8, <1>9, <1>10
  DEF Next, Worker, Package, Configuration, Waiting

\* Every step keeps the package part done before the bundle part begins.
LEMMA PackageFirstStep ==
  ASSUME Steady, TypeOK, NotStopping, NoneRecordedUnasked, PackageFirst, [Next]_vars
  PROVE  PackageFirst'
<1> USE DEF PackageFirst, Go
<1>0. /\ app \in Software
      /\ \/ CurrentVersion = {app.version}
         \/ CurrentVersion \subseteq {NoVersion}
  BY DEF TypeOK, CurrentVersion, MayFail, Steady, NotStopping, NoneRecordedUnasked
<1>1. CASE \/ \E c \in Contents : SetDesired(c)
           \/ Resend \/ Term \/ Restart \/ IgnoreEmpty \/ UNCHANGED vars
  BY <1>1 DEF SetDesired, Resend, Term, Restart, IgnoreEmpty, vars, softVars
<1>2. CASE Kill \/ Exit \/ ReportOutcome
  BY <1>2 DEF Kill, Exit, Forget, ReportOutcome
<1>3. CASE Take
  BY <1>3 DEF Take
<1>4. CASE Compare
  BY <1>0, <1>4 DEF Compare, softVars
<1>5. CASE FetchOk \/ FetchFails \/ RolledBack \/ Fail \/ Succeed
  BY <1>5 DEF FetchOk, FetchFails, RolledBack, Fail, Succeed, Finish
<1>6. CASE \/ UpgradeStarts \/ UpgradeRefused \/ UpgradeReturns
           \/ RollbackRefused \/ RollbackStarts \/ RollbackReturns
  BY <1>6 DEF UpgradeStarts, UpgradeRefused, UpgradeReturns, RollbackRefused,
              RollbackStarts, RollbackReturns
<1>7. CASE Verify
  <2>1. CASE pc' # "bundle"
    BY <1>7, <2>1 DEF Verify
  <2>2. CASE pc' = "bundle"
    <3>1. doc.package \in CurrentVersion /\ doc' = doc /\ app' = Proven(app)
      BY <1>7, <2>2 DEF Verify
    <3>2. Proven(app).version = app.version
      BY <1>0 DEF Proven, Software
    <3> QED
      BY <1>0, <3>1, <3>2
  <2> QED
    BY <2>1, <2>2
<1>8. CASE StartBundle \/ StageOk \/ StageFails \/ Place \/ PlaceFails
  BY <1>8 DEF StartBundle, StageOk, StageFails, Place, PlaceFails, softVars
<1>9. CASE GateOk
  BY <1>0, <1>9 DEF GateOk, Proven, Software
<1>10. CASE GateFails \/ RestoreFiles
  <2>1. pc' \in {"restore", "failed"}
    BY <1>10, Zenon DEF GateFails, RestoreFiles
  <2> QED
    BY <2>1
<1> QED
  BY <1>1, <1>2, <1>3, <1>4, <1>5, <1>6, <1>7, <1>8, <1>9, <1>10
  DEF Next, Worker, Package, Configuration, Waiting

\* Only the end of Apply concludes a document as installed.
LEMMA ConcludedInstalled ==
  ASSUME TypeOK, [Next]_vars, pc # "report", pc' = "report", local'.status = "installed"
  PROVE  Succeed
<1>1. FetchFails \/ RolledBack \/ Fail => local'.status # "installed"
  <2> SUFFICES ASSUME FetchFails \/ RolledBack \/ Fail PROVE local'.status # "installed"
    OBVIOUS
  <2>1. \E status \in {"failed", "rolled-back"} : \E v : local' = Outcome(status, v)
    BY DEF FetchFails, RolledBack, Fail, Finish
  <2> QED
    BY <2>1 DEF TypeOK, Local, Outcome
<1>2. FetchFails \/ RolledBack \/ Fail \/ Succeed
  BY DEF Next, Worker, Package, Configuration, Waiting, SetDesired, Resend, Kill, Term,
         Exit, Forget, Restart, IgnoreEmpty, Take, Compare, FetchOk, UpgradeStarts,
         UpgradeRefused, UpgradeReturns, Verify, RollbackRefused, RollbackStarts,
         RollbackReturns, StartBundle, StageOk, StageFails, Place, PlaceFails, GateOk,
         GateFails, RestoreFiles, ReportOutcome, Go, vars
<1> QED
  BY <1>1, <1>2

\* An "installed" outcome covers both parts of its document, whichever hooks,
\* downloads, loads and file operations failed on the way and however often the
\* process was killed: the package always, the files unless they have gone astray.
THEOREM InstalledCoversBothParts ==
  ASSUME Steady
  PROVE  Spec => InstalledIsComplete
<1>1. Init => InStep /\ NotStopping /\ NoneRecordedUnasked /\ PackageFirst
  BY DEF Init, InStep, NotStopping, NoneRecordedUnasked, PackageFirst, Configuring, EmptyLocal
<1>2. /\ TypeOK /\ WellFormed /\ InStep /\ NotStopping /\ NoneRecordedUnasked /\ PackageFirst
      /\ [Next]_vars
      => /\ TypeOK' /\ WellFormed' /\ InStep' /\ NotStopping' /\ NoneRecordedUnasked'
         /\ PackageFirst'
  BY TypeStep, WellFormedStep, InStepStep, NotStoppingStep, NoneRecordedStep,
     PackageFirstStep DEF Steady
<1>3. TypeOK /\ InStep /\ PackageFirst /\ [Next]_vars
        => [Concludes({"installed"}) => /\ doc.package # NoVersion => app.version = doc.package
                                        /\ doc.revision # 0 /\ ~astray => live = doc.revision]_vars
  <2> SUFFICES ASSUME TypeOK, InStep, PackageFirst, [Next]_vars, Concludes({"installed"})
               PROVE  /\ doc.package # NoVersion => app.version = doc.package
                      /\ doc.revision # 0 /\ ~astray => live = doc.revision
    OBVIOUS
  <2>1. Succeed
    BY ConcludedInstalled DEF Concludes
  <2> QED
    BY <2>1 DEF Succeed, NothingToPlace, InStep, PackageFirst, Forgotten
<1> QED
  BY <1>1, <1>2, <1>3, InitTyped, PTL DEF Spec, InstalledIsComplete
-------------------------------------------------------------------------------
(* What a kill leaves.                                                        *)

\* The process only ends by kills, and a rollback hook undoes what it is run for;
\* everything else but a save may fail.
Killed ==
  /\ Deaths \subseteq {"kill"}
  /\ HasRollbackHook /\ Faults \cap {"rollback", "save"} = {}

\* Every step before the first kill keeps half-changed software inside a hook,
\* and the first kill leaves the marker with it.
LEMMA TornStep ==
  ASSUME Killed, TypeOK, WellFormed, Marking, TornOnlyInHooks, [Next]_vars
  PROVE  TornOnlyInHooks'
<1> USE DEF TornOnlyInHooks, TornIsVisible, Go, procVars
<1>0. /\ app \in Software /\ previous \in Software /\ deaths \in Nat
      /\ up \in {"running", "down"}
      /\ "term" \notin Deaths
  BY DEF TypeOK, Killed
<1>1. CASE /\ UNCHANGED <<up, deaths, softVars>> /\ up # "down"
           /\ pc \notin {"upgrading", "rollback", "rolling"} \/ pc' = pc
  BY <1>0, <1>1 DEF softVars
<1>2. \/ \E c \in Contents : SetDesired(c) /\ up # "down"
      \/ Resend \/ IgnoreEmpty \/ Take \/ Compare \/ FetchOk \/ FetchFails \/ UpgradeRefused
      \/ RolledBack \/ Fail \/ Succeed \/ ReportOutcome
      => <1>1!1
  BY <1>0 DEF SetDesired, Resend, IgnoreEmpty, Take, Compare, FetchOk, FetchFails,
     UpgradeRefused, RolledBack, Fail, Succeed, Finish, ReportOutcome
<1>3. StartBundle \/ StageOk \/ StageFails \/ Place \/ PlaceFails \/ RestoreFiles => <1>1!1
  BY <1>0 DEF StartBundle, StageOk, StageFails, Place, PlaceFails, RestoreFiles
<1>4. CASE GateFails
  <2>1. /\ UNCHANGED <<up, deaths, softVars>> /\ up # "down" /\ pc = "gate"
    BY <1>4, Zenon DEF GateFails, procVars
  <2> QED
    BY <1>1, <2>1
<1>5. CASE (\E c \in Contents : SetDesired(c) /\ up = "down") \/ UNCHANGED vars
  BY <1>0, <1>5 DEF SetDesired, vars, softVars
<1>6. CASE Kill
  <2>1. /\ up # "down" /\ up' = "down" /\ deaths' = deaths + 1
        /\ UNCHANGED <<disk, app, previous>>
    BY <1>6 DEF Kill, Dies, Forget, softVars
  <2>2. deaths = 0 /\ app.state = "torn" => disk.inFlight # NoOp
    <3> SUFFICES ASSUME deaths = 0, app.state = "torn" PROVE disk.inFlight # NoOp
      OBVIOUS
    <3>1. pc \in {"upgrading", "rolling", "rollback"}
      OBVIOUS
    <3>2. disk.inFlight = ThisOperation /\ doc.package \in Versions
      BY <3>1 DEF Marking, WellFormed, Upgrading
    <3> QED
      BY <3>2 DEF ThisOperation, NoOp
  <2> QED
    BY <1>0, <2>1, <2>2
<1>7. ~Term /\ ~Exit
  BY <1>0 DEF Term, Exit
<1>8. CASE Restart
  BY <1>0, <1>8 DEF Restart
<1>9. CASE UpgradeStarts
  BY <1>0, <1>9 DEF UpgradeStarts, Software, NoApp
<1>10. CASE UpgradeReturns
  BY <1>0, <1>10 DEF UpgradeReturns, WellFormed
<1>11. CASE Verify
  BY <1>0, <1>11 DEF Verify, Proven, Software
<1>12. CASE RollbackRefused
  BY <1>0, <1>12 DEF RollbackRefused, MayFail, Killed, softVars
<1>13. CASE RollbackStarts
  BY <1>0, <1>13 DEF RollbackStarts
<1>14. CASE RollbackReturns
  BY <1>0, <1>14 DEF RollbackReturns, MayFail, Killed
<1>15. CASE GateOk
  BY <1>0, <1>15 DEF GateOk, Proven, Software
<1> QED
  BY <1>1, <1>2, <1>3, <1>4, <1>5, <1>6, <1>7, <1>8, <1>9, <1>10, <1>11, <1>12, <1>13,
     <1>14, <1>15
  DEF Next, Worker, Package, Configuration, Waiting

\* The first kill, wherever it falls and whatever failed before it, leaves the
\* in-flight marker with the software it half changed.
THEOREM FirstKillIsVisible ==
  ASSUME Killed
  PROVE  Spec => []TornIsVisible
<1>1. Init => Marking /\ TornOnlyInHooks
  BY DEF Init, Marking, Upgrading, TornOnlyInHooks, TornIsVisible, NoApp
<1>2. /\ TypeOK /\ WellFormed /\ Marking /\ TornOnlyInHooks /\ [Next]_vars
      => TypeOK' /\ WellFormed' /\ Marking' /\ TornOnlyInHooks'
  BY TypeStep, WellFormedStep, MarkingStep, TornStep DEF Killed
<1>3. TornOnlyInHooks => TornIsVisible
  BY DEF TornOnlyInHooks
<1> QED
  BY <1>1, <1>2, <1>3, InitTyped, PTL DEF Spec
===============================================================================
