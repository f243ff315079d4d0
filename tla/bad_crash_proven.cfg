\* A kill after the new version is in place but before the health check: the
\* restarted supervisor records installed without the gate.
CONSTANTS
  V1 = V1
  V2 = V2
  V3 = V3
  InitialVersion = V1
  NoVersion = NoVersion
  Mixed = Mixed
  Versions <- TwoVersions
  Contents <- OnePackage
  MaxGeneration = 1
  HasVersionHook = TRUE
  HasRollbackHook = TRUE
  Faults = {}
  Deaths = {"kill"}
  MaxDeaths = 1
SPECIFICATION Spec
PROPERTY OutcomeIsProven
