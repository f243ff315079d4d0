\* A document that is sent again while it is applied gets a second outcome for
\* the same generation.
CONSTANTS
  V1 = V1
  V2 = V2
  V3 = V3
  InitialVersion = V1
  NoVersion = NoVersion
  Mixed = Mixed
  Versions <- TwoVersions
  Contents <- OnePackage
  MaxGeneration = 1
  HasVersionHook = TRUE
  HasRollbackHook = TRUE
  Faults = {"upgrade"}
  Deaths = {}
  MaxDeaths = 0
SPECIFICATION Spec
PROPERTY OutcomeIsStable
