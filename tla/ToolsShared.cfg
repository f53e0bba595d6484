CONSTANTS
  s1 = s1  b1 = b1  b2 = b2  d1 = d1  f1 = f1
  None = None
  Absent = Absent
  Session = {s1}
  Sub = {b1,b2}
  Dir = {d1}
  File = {f1}
  Value = {1}
  MaxConcurrent = 1
  MaxPerTurn = 1
SPECIFICATION FairSpec
INVARIANTS SlotsAreRespected
PROPERTIES UndoIsPossible ExcludesAreRespected QueuedStarts
CHECK_DEADLOCK FALSE
