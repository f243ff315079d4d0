\* A version hook that fails at the wrong moment makes a stale recorded version
\* pass as the installed one.
CONSTANTS
  V1 = V1
  V2 = V2
  V3 = V3
  InitialVersion = V1
  NoVersion = NoVersion
  Mixed = Mixed
  Versions <- TwoVersions
  Contents <- Packages
  MaxGeneration = 3
  HasVersionHook = TRUE
  HasRollbackHook = TRUE
  Faults = {"upgrade", "version"}
  Deaths = {}
  MaxDeaths = 0
SPECIFICATION Spec
PROPERTY InstalledIsComplete
