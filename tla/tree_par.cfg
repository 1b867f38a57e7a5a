CONSTANTS
  Intention = {i1, i2, i3}
  None = None
  Dangling = Dangling
  ParExec = {TRUE, FALSE}
  Lists = "tree"
  MaxThreads = 1
  MaxConds = 1
  MaxPairs = 2
SYMMETRY Symmetry
SPECIFICATION Spec
INVARIANTS TypeOK RootsAreUnblocked RunnableAreActiveRoots StatusesAgree NoFreedIntention SectionOwner
PROPERTIES SectionIsExclusive OnlyRootsExecute ImplementsTaskOrder
