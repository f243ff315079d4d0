\* A Stop reaches Execute just when run has returned an error: it is shown nowhere.
CONSTANTS
  Callers = {"session"}
  MaxChildren = 1
  MaxPolls = 2
  MaxStarts = 2
SPECIFICATION FairSpec
PROPERTIES ErrorIsShown
