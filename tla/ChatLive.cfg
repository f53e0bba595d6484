CONSTANTS
  s1 = s1  t1 = t1  t2 = t2
  push = push  look = look  look2 = look2  wipe = wipe  list = list  ask = ask
  None = None
  Session = {s1}
  Turn = {t1,t2}
  Call = {wipe}
  Question = {}
  TurnSession <- OneSession
  Shape <- Shapes
  IntentKey <- Intents
  Mode = "ask"
  Rename = {}
  Overlap = TRUE
SPECIFICATION FairSpec
PROPERTIES FinishedTurnsAreKept EveryRunSettles EveryWaitEnds
