\* SIGTERM in the middle of an upgrade, and the worker takes one more document
\* before the process ends: installed is recorded over half-changed software.
CONSTANTS
  V1 = V1
  V2 = V2
  V3 = V3
  InitialVersion = V1
  NoVersion = NoVersion
  Mixed = Mixed
  Versions <- TwoVersions
  Contents <- Packages
  MaxGeneration = 3
  HasVersionHook = TRUE
  HasRollbackHook = TRUE
  Faults = {}
  Deaths = {"term"}
  MaxDeaths = 1
SPECIFICATION Spec
INVARIANT StopIsVisible
