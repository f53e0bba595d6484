------------------------ MODULE ConnectorProperties ------------------------
(* What the connectors promise to the users of chat services.               *)
EXTENDS Connectors

\* When a turn is done and the writes of its stream handler have come to an
\* end, the thread has the whole answer, its beginning in one message and the
\* rest in as many as it takes, unless the last edit or a message after it has
\* failed: the writes wait for each other, however the text came in while one
\* was under way, and whatever writes before the last have failed.  There is a
\* second beginning for each first message that was taken by the platform while
\* its call failed, and for no other reason.
ReplyIsWhole ==
  \A m \in Message :
    (turn[m] = "done" /\ reply[m].flight = "none" /\ ~reply[m].failed
       /\ reply[m].fullText > 0) =>
      /\ reply[m].posts = 1 + reply[m].unheard
      /\ reply[m].shown = Least(reply[m].fullText, ChunkSize)
      /\ reply[m].extras = Extras(reply[m].fullText)

\* A question that waits in the engine and that the user sees on the thread is
\* the one the next plain message answers, so that this is not taken for a new
\* prompt: unless a message has been taken for it, or a later question has
\* taken its place (overtaken).  A question with choices is, only when the
\* adapter has learned that it is posted.
OpenQuestionIsPending ==
  \A q \in Message :
    (/\ turn[q] = "ask" /\ q \notin overtaken /\ taken[q] = 0
     /\ \/ request[q].kind = "free" /\ Seen(q)
        \/ request[q].kind = "choice" /\ request[q].post = "posted")
      => pendingFreeTextQuestion = q

\* One question takes one message, also when the user writes others before its
\* answer has reached the engine: the question is forgotten before that call.
QuestionTakesOne == \A q \in Message : taken[q] <= 1

\* A message to the account is handled once, however often the runner dies and
\* starts again, because the cursor is in its file before the batch is handled;
\* but not when the service or a torn file makes it start from nothing.
HandledOnce == "reset" \notin lapse => \A m \in Message : handled[m] <= 1

-----------------------------------------------------------------------------
\* Turns come to their end and requests expire (timers of the engine), and the
\* runner goes on when what it waits for has come.
Fairness == WF_vars(RunnerStep) /\ \A m \in Message : WF_vars(Expire(m)) /\ WF_vars(Finish(m))

FairSpec == Spec /\ Fairness

\* Every message to the account is handled in the end, also one that comes
\* behind a prompt whose turn waits for the user or breaks off, unless the
\* runner dies or what it handles throws: then the batch is lost.
EveryUpdateIsHandled ==
  \A m \in Message : (\E i \in DOMAIN log : log[i] = m) ~> handled[m] > 0 \/ lapse # {}
=============================================================================
