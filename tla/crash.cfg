\* Kill and SIGTERM at every step of Apply, failing restores, documents re-sent
\* and replaced meanwhile: the marker, the durability and order of outcomes, a
\* recorded revision that parts from the files only by a death during a
\* placement or a failed restore and until the next gated placement, and in the
\* end an outcome for the last desired state.
CONSTANTS
  V1 = V1
  V2 = V2
  V3 = V3
  InitialVersion = V1
  NoVersion = NoVersion
  Mixed = Mixed
  Versions <- TwoVersions
  Contents <- BothThenBundle
  MaxGeneration = 2
  HasVersionHook = TRUE
  HasRollbackHook = TRUE
  Faults = {"health", "upgrade", "place", "restore"}
  Deaths = {"kill", "term"}
  MaxDeaths = 2
SPECIFICATION FairSpec

INVARIANTS TypeOK MutationIsMarked ReportedIsDurable RevisionIsLive
PROPERTIES NeverRegresses OnlyCompleteRevisionsRecorded Settles
