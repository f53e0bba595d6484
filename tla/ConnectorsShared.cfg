CONSTANTS
  m1 = m1  m2 = m2  m3 = m3
  None = None
  Message = {m1, m2, m3}
  MaxText = 3
  ChunkSize = 2
SPECIFICATION FairSpec
INVARIANTS ReplyIsWhole OpenQuestionIsPending QuestionTakesOne HandledOnce
PROPERTIES EveryUpdateIsHandled
CONSTRAINTS InOrder OnePlace TextAlone FewRequests
CHECK_DEADLOCK FALSE
