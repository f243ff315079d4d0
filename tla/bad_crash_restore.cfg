\* A kill during placement and a failed re-application: restore brings back the
\* mixture, the original backups were wiped.
CONSTANTS
  F1 = F1
  F2 = F2
  F3 = F3
  Absent = Absent
  Original = Original
  Damaged = Damaged
  Files <- TwoFiles
  Revisions = {1, 2}
  FilesOf <- SameFiles
  HasApplyHook = TRUE
  Faults = {"health"}
  MayDie = TRUE
  MaxApplications = 2
SPECIFICATION Spec
PROPERTY RejectedIsWhole
