CONSTANTS
  Intention = {i1, i2, i3}
  None = None
  Dangling = Dangling
  ParExec = {FALSE}
  Lists = "ordered"
  MaxThreads = 1
  MaxConds = 0
  MaxPairs = 2
SYMMETRY Symmetry
SPECIFICATION Spec
INVARIANTS OnlyTasksExecute
