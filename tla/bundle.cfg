\* Three applications of overlapping file sets with damaged deliveries and
\* deaths, every step failing at will but the reading and putting back of
\* previous files and the apply hook over them: a failure leaves the files, and
\* what the software runs with, as they were found, a revision is recorded only
\* when its complete set was placed, and file-level placement implements all-
\* or-nothing activation.
CONSTANTS
  F1 = F1
  F2 = F2
  F3 = F3
  Absent = Absent
  Original = Original
  Damaged = Damaged
  Files <- ThreeFiles
  Revisions = {1, 2}
  FilesOf <- Overlapping
  HasApplyHook = TRUE
  Faults = {"delivery", "stage", "validate", "backup", "place", "apply", "health", "save"}
  MayDie = TRUE
  MaxApplications = 3
SPECIFICATION Spec
INVARIANTS FailedChangesNothing ActiveIsLive
PROPERTIES CommittedIsComplete AllOrNothing
