\* Without the optional version hook a successful upgrade is rolled back.
CONSTANTS
  V1 = V1
  V2 = V2
  V3 = V3
  InitialVersion = V1
  NoVersion = NoVersion
  Mixed = Mixed
  Versions <- TwoVersions
  Contents <- OnePackage
  MaxGeneration = 1
  HasVersionHook = FALSE
  HasRollbackHook = TRUE
  Faults = {}
  Deaths = {}
  MaxDeaths = 0
SPECIFICATION FairSpec
PROPERTY Converges
