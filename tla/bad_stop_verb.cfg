\* run takes longer to stop than -service stop polls, which says "stopped".
CONSTANTS
  Callers = {"session"}
  MaxChildren = 1
  MaxPolls = 2
  MaxStarts = 2
SPECIFICATION FairSpec
PROPERTIES VerbIsTruthful
