CONSTANTS
  Tib = {t1, t2, t3, t4}
  Top = Top
  None = None
  Dangling = Dangling
  ParPost = FALSE
  Risks <- WaitBelow
SYMMETRY Symmetry
SPECIFICATION Spec
INVARIANTS OnlyActiveExecute
