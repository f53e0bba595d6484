CONSTANTS
  h1 = h1  dh = dh  d1 = d1  d2 = d2  x1 = x1  k1 = k1
  e1 = e1  e2 = e2  c1 = c1  c2 = c2  engine = engine
  None = None
  Dispatch = {dh}
  Thread = {x1}
  Task = {}
  Handoff = {h1}
  Exec = {e1,e2}
  Cli = {c1}
  Engine = engine
  DispatchOf <- HandoffDispatch
  SetStatus = {"idle"}
  MaxLapses = 2
SPECIFICATION FairSpec
INVARIANTS StartedIsUnderWay
PROPERTIES NotQueuedTwice CancelIsFinal StartedSettles
CHECK_DEADLOCK FALSE
