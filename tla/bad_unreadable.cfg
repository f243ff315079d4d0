\* A destination that exists but cannot be read counts as absent and is removed
\* by restore.
CONSTANTS
  F1 = F1
  F2 = F2
  F3 = F3
  Absent = Absent
  Original = Original
  Damaged = Damaged
  Files <- TwoFiles
  Revisions = {1, 2}
  FilesOf <- SameFiles
  HasApplyHook = TRUE
  Faults = {"read", "health"}
  MayDie = FALSE
  MaxApplications = 1
SPECIFICATION Spec
INVARIANT FailedChangesNothing
