\* Downloads from sources that fail, change and exceed the limit, under
\* cancelation and death: whatever is handed out is verified, also when it was
\* stored before, and calls end, as Reconcile assumes.
CONSTANTS
  a = a
  b = b
  big = big
  Artifacts = {a, b, big}
  Oversized = {big}
  None = None
  Partial = Partial
  MaxDeaths = 2
SPECIFICATION FairSpec
INVARIANTS RetriesAreSound StagingIsBounded HandedIsVerified
PROPERTIES CallsReturn ImplementsStore
\* A canceled process ends for good once MaxDeaths is reached.
CHECK_DEADLOCK FALSE
