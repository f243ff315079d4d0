\* SIGTERM in the middle of an upgrade is recorded as the failure of that
\* generation and never resumed.
CONSTANTS
  V1 = V1
  V2 = V2
  V3 = V3
  InitialVersion = V1
  NoVersion = NoVersion
  Mixed = Mixed
  Versions <- TwoVersions
  Contents <- OnePackage
  MaxGeneration = 1
  HasVersionHook = TRUE
  HasRollbackHook = TRUE
  Faults = {}
  Deaths = {"term"}
  MaxDeaths = 1
SPECIFICATION FairSpec
PROPERTY Converges
