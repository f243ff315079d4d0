\* The Windows service with a Stop at any moment, while hooks time out, fork
\* and keep their pipes open: hooks return, a Stop comes to its end, an end is
\* called clean only if it was asked for and fatal only if its reason was
\* logged.
CONSTANTS
  Callers = {"session"}
  MaxChildren = 1
  MaxPolls = 2
  MaxStarts = 2
SPECIFICATION FairSpec
INVARIANTS SuccessIsReal EndIsTruthful
PROPERTIES StopEnds RunReturns
