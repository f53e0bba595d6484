CONSTANTS
  s1 = s1  t1 = t1  t2 = t2
  push = push  look = look  look2 = look2  wipe = wipe  list = list  ask = ask
  None = None
  Session = {s1}
  Turn = {t1,t2}
  Call = {look,look2,ask}
  Question = {ask}
  TurnSession <- OneSession
  Shape <- Shapes
  IntentKey <- Intents
  Mode = "ask"
  Rename = {t2}
  Overlap = TRUE
SPECIFICATION Spec
INVARIANTS WaitersAreResolvable ChatRunsHaveTurns RunsOnlyApproved GrantedIsNotRefused
PROPERTIES LedgerIsMonotone
SYMMETRY Symmetry
