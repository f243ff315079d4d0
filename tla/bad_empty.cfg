\* A desired state without package and bundle is never acknowledged.
CONSTANTS
  V1 = V1
  V2 = V2
  V3 = V3
  InitialVersion = V1
  NoVersion = NoVersion
  Mixed = Mixed
  Versions <- TwoVersions
  Contents <- WithEmpty
  MaxGeneration = 1
  HasVersionHook = TRUE
  HasRollbackHook = TRUE
  Faults = {}
  Deaths = {}
  MaxDeaths = 0
SPECIFICATION FairSpec
PROPERTY Settles
