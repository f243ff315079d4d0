\* A kill in the middle of a placement, then a return to the recorded revision:
\* it is skipped and reported as installed over mixed files.
CONSTANTS
  V1 = V1
  V2 = V2
  V3 = V3
  InitialVersion = V1
  NoVersion = NoVersion
  Mixed = Mixed
  Versions <- TwoVersions
  Contents <- Bundles
  MaxGeneration = 3
  HasVersionHook = TRUE
  HasRollbackHook = TRUE
  Faults = {}
  Deaths = {"kill"}
  MaxDeaths = 1
SPECIFICATION Spec
PROPERTY InstalledIsInPlace
