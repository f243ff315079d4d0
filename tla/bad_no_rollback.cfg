\* After an upgrade that failed without a rollback hook, the next document
\* reconfigures the unproven software.
CONSTANTS
  V1 = V1
  V2 = V2
  V3 = V3
  InitialVersion = V1
  NoVersion = NoVersion
  Mixed = Mixed
  Versions <- TwoVersions
  Contents <- PackageThenBoth
  MaxGeneration = 2
  HasVersionHook = TRUE
  HasRollbackHook = FALSE
  Faults = {"upgrade"}
  Deaths = {}
  MaxDeaths = 0
SPECIFICATION Spec
PROPERTY FailedIsNeverReconfigured
