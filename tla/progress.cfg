CONSTANTS
  Intention = {i1, i2}
  None = None
  Dangling = Dangling
  ParExec = {TRUE}
  Lists = "tree"
  MaxThreads = 2
  MaxConds = 2
  MaxPairs = 1
SPECIFICATION FairSpec
PROPERTIES CondemnedAreDeleted RunnableExecutes LostSectionEnds
