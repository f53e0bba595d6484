CONSTANTS
  h1 = h1  dh = dh  d1 = d1  d2 = d2  x1 = x1  k1 = k1
  e1 = e1  e2 = e2  c1 = c1  c2 = c2  engine = engine
  None = None
  Dispatch = {d1,d2}
  Thread = {x1}
  Task = {k1}
  Handoff = {}
  Exec = {e1}
  Cli = {c1,c2}
  Engine = engine
  DispatchOf <- HandoffDispatch
  SetStatus = {"idle","done"}
  MaxLapses = 1
SYMMETRY Symmetry
SPECIFICATION Spec
INVARIANTS PlannedAlone
CHECK_DEADLOCK FALSE
