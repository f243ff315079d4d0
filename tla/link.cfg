\* Through a reconnect, with reports and hellos of three goroutines in any
\* order, with loads and saves of the state file that fail and a document that
\* is empty, the newest desired state is not lost while the gateway believes it
\* was told; in the end the worker is done with it and the gateway shows what
\* the state file holds.
CONSTANTS
  MaxGeneration = 3
  MaxConns = 2
  Outcomes = {"installed", "failed"}
  EmptyDocs = {2}
  MaxMishaps = 2
SPECIFICATION FairSpec
INVARIANT NewestOnItsWay
PROPERTIES Delivered CloudLearns
