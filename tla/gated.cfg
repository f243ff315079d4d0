\* Without deaths, but with upgrades, health checks, fetches, file operations
\* and restores failing at will and both parts in a document: installed means
\* that the package is installed and was gated, and that the files are in place
\* unless a failed restore left others; failed software is not reconfigured.
CONSTANTS
  V1 = V1
  V2 = V2
  V3 = V3
  InitialVersion = V1
  NoVersion = NoVersion
  Mixed = Mixed
  Versions <- TwoVersions
  Contents <- WithEmpty
  MaxGeneration = 3
  HasVersionHook = TRUE
  HasRollbackHook = TRUE
  Faults = {"fetch", "upgrade", "health", "bundle", "place", "apply", "restore"}
  Deaths = {}
  MaxDeaths = 0
SPECIFICATION Spec
PROPERTIES InstalledIsComplete OutcomeIsProven FailedIsNeverReconfigured
