CONSTANTS
  Goal = {g1, g2, g3}
  Instance = {o1, o2, o3}
  Tib = {t1, t2, t3}
  Intention = {i1}
  Procedure = {p1}
  None = None
  MaxObjects = 5
  MaxOutside = 1
  MaxTerms = 1
SYMMETRY Symmetry
SPECIFICATION Spec
INVARIANTS Reclaimed SonsServe
