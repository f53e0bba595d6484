CONSTANTS
  Session = {s1, s2}
  Turn = {t1, t2}
  Hand = {h1, h2}
  None = None
  MaxCalls = 3
SPECIFICATION Spec
INVARIANTS
  ScreenIsWhole
  AskedIsShown
CONSTRAINTS
  OneStart
  FewEvents
SYMMETRY Symmetric
CHECK_DEADLOCK FALSE
