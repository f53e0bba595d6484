CONSTANTS
  e1 = e1  e2 = e2  c1 = c1  t1 = t1
  None = None
  Engine = {e1, e2}
  Cli = {t1}
  Commander = {c1}
SPECIFICATION FairSpec
INVARIANTS WorkIsNotSwept EngineIsFound TokenIsAccepted RestartIsAsked
PROPERTIES RestartComesBack
CHECK_DEADLOCK FALSE
