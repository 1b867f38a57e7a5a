SPECIFICATION Spec
CONSTANTS
  a = a
  b = b
  x = x
  y = y
  f = f
  p = p
  v = v
  c = c
  e = e
  not = not
  Unbound = Unbound
  NoFrame = NoFrame
  Atom = {a, b}
  Var = {x, y}
  Cwp = {c}
  Be = {e}
  Not = not
  Pred <- MCPred
  Ff <- MCFf
  Fact <- MCFact
  Pattern <- MCPattern
  Queries <- MCQueries
  Copies = 2
  CountMod = 16
  FactRes = {FALSE}
INVARIANTS TypeOK IndexExact ConsultAnswers
PROPERTIES ImplementsFactBase
