\* Up to three applications start and restart through edited lists, broken
\* manifests, lost answers, unreadable and unwritable files and deaths, with an
\* operator who replaces spent tokens and corrects lists that do not start.
CONSTANTS
  a = a
  b = b
  c = c
  Broken = Broken
  Apps = {a, b, c}
  Lists <- MCLists
  None = None
  CloudOmits = TRUE
  MaxTokens = 3
  MaxMishaps = 2
SPECIFICATION AttendedSpec
INVARIANT OwnIdentity
PROPERTIES IdentityIsPermanent NoSecondRuntime EventuallyRunning
\* The loops run for good once nothing more goes wrong.
CHECK_DEADLOCK FALSE
