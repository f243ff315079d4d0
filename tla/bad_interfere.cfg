\* One token, two applications, and one thing goes wrong.
CONSTANTS
  a = a
  b = b
  c = c
  Broken = Broken
  Apps = {a, b, c}
  Lists <- MCLists
  None = None
  CloudOmits = FALSE
  MaxTokens = 1
  MaxMishaps = 1
SPECIFICATION UnattendedSpec
PROPERTY EnrolledRuns
\* The loops run for good once nothing more goes wrong.
CHECK_DEADLOCK FALSE
