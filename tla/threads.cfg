CONSTANTS
  Tib = {t1, t2, t3, t4}
  Top = Top
  None = None
  Dangling = Dangling
  ParPost = TRUE
  Risks <- NoRisk
SYMMETRY Symmetry
SPECIFICATION Spec
INVARIANTS TypeOK ThreadTree ActiveOrAwaited OnlyActiveExecute SuspendedAreRestorable SectionThread
