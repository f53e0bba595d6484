CONSTANTS
  n1 = n1  n2 = n2  i1 = i1  i2 = i2  i3 = i3
  r1 = r1  r2 = r2  r3 = r3  k1 = k1  k2 = k2
  None = None
  Name = {n1}
  Id = {i1, i2}
  Run = {r1, r2}
  Tick = {k1}
  Flavour <- OnlyFirst
  Switch <- NoSwitch
  MaxEdits = 3
  MaxWrites = 2
  MaxAttempts = 1
SPECIFICATION Spec
INVARIANTS ConfigurationIsSaved
PROPERTIES BookIsKept
VIEW ButAnswers
SYMMETRY Symmetry
CHECK_DEADLOCK FALSE
