\* The ticker builds an idle report, the worker reports its failure, then the
\* idle report is written.
CONSTANTS
  MaxGeneration = 1
  MaxConns = 1
  Outcomes = {"failed"}
  EmptyDocs = {}
  MaxMishaps = 0
SPECIFICATION Spec
PROPERTY FailureNotMasked
