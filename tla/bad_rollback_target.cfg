\* An upgrade hook that refuses to start is followed by a rollback that
\* restores the copy of an earlier upgrade.
CONSTANTS
  V1 = V1
  V2 = V2
  V3 = V3
  InitialVersion = V1
  NoVersion = NoVersion
  Mixed = Mixed
  Versions <- ThreeVersions
  Contents <- ThreePackages
  MaxGeneration = 2
  HasVersionHook = TRUE
  HasRollbackHook = TRUE
  Faults = {"upgrade"}
  Deaths = {}
  MaxDeaths = 0
SPECIFICATION Spec
PROPERTY RollbackReturnsToPrevious
