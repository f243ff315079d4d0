\* The process ends, killed or stopped, while the worker is in a hook, which goes
\* on: the next process runs a hook beside it.
CONSTANTS
  Callers = {"session"}
  MaxChildren = 1
  MaxPolls = 2
  MaxStarts = 2
SPECIFICATION FairSpec
INVARIANTS OneHookAtATime
