\* The marker is cleared before the operation is resumed; a second kill finds
\* half-changed software and an idle state file.
CONSTANTS
  V1 = V1
  V2 = V2
  V3 = V3
  InitialVersion = V1
  NoVersion = NoVersion
  Mixed = Mixed
  Versions <- TwoVersions
  Contents <- OnePackage
  MaxGeneration = 1
  HasVersionHook = TRUE
  HasRollbackHook = TRUE
  Faults = {}
  Deaths = {"kill"}
  MaxDeaths = 2
SPECIFICATION Spec
INVARIANT TornIsMarked
