\* When nothing goes wrong but kills and a state file that at times cannot be
\* loaded, the first kill leaves the marker with the software it half changed,
\* and the last desired state ends up recorded as installed.
CONSTANTS
  V1 = V1
  V2 = V2
  V3 = V3
  InitialVersion = V1
  NoVersion = NoVersion
  Mixed = Mixed
  Versions <- TwoVersions
  Contents <- Packages
  MaxGeneration = 2
  HasVersionHook = TRUE
  HasRollbackHook = TRUE
  Faults = {"load"}
  Deaths = {"kill"}
  MaxDeaths = 2
SPECIFICATION FairSpec
INVARIANT TornIsVisible
PROPERTY Converges
