----------------------------- MODULE Connectors -----------------------------
(***************************************************************************)
(* The connectors between chat services and the engine.  A thread of a     *)
(* Chat SDK platform (Slack, Telegram, Discord ...) is served by the       *)
(* ChatSDKAdapter, whose handlers of messages, buttons and events overlap; *)
(* a WeChat account by a runner that fetches messages in batches and takes *)
(* one after the other.  Each message of a user is a prompt, and starts a  *)
(* turn of the engine, or meets a request that a turn has made.            *)
(*                                                                         *)
(* Grain.  A handler goes up to its next await.  The engine's events reach *)
(* a connector at once.                                                    *)
(***************************************************************************)
EXTENDS Integers, Sequences, FiniteSets

CONSTANTS
  Message, None,
  MaxText,       \* bound: the pieces of text of a turn
  ChunkSize      \* how many of them a message of the platform holds

ASSUME ConnectorAssumption ==
  None \notin Message /\ MaxText \in Nat /\ ChunkSize \in Nat \ {0}

VARIABLES
  turn,       \* the engine's turn that a message has started
  request,    \* what that turn asks of the user, and how far the asking is
  at,         \* how far the adapter is with a message of the thread
  said,       \* what a message says, and to which turn's request
  pendingFreeTextQuestion, pendingApprovals,   \* the adapter's, for the thread
  reply,      \* what the thread shows of the answer to a message
  log,        \* messages sent to the WeChat account, kept by the service
  runner,     \* where the account's runner is, its batch and its cursor
  saved,      \* the cursor in its file
  handled,    \* history: how often the runner has taken a message
  taken,      \* history: how many messages were taken as answer to a question
  overtaken,  \* history: questions put aside by a later one
  lapse       \* history: what has befallen the runner

engine  == <<turn, request>>
pending == <<pendingFreeTextQuestion, pendingApprovals>>
adapter == <<at, pending, reply>>
wechat  == <<log, runner, saved, handled>>
ghosts  == <<taken, overtaken, lapse>>
vars    == <<engine, said, adapter, wechat, ghosts>>

Asks   == {"free", "choice", "card", "approval"}
Says   == {"plain", "answer", "verdict", "button", "stop"}
Lapses == {"reset", "crash", "dropped"}

NoRequest == [kind |-> "none", post |-> "none"]
NoReply   == [fullText |-> 0, editLock |-> <<>>, flight |-> "none", upTo |-> 0,
              sentMsg |-> FALSE, posts |-> 0, unheard |-> 0, shown |-> 0, extras |-> 0,
              failed |-> FALSE]

TypeOK ==
  /\ turn \in [Message -> {"none", "talk", "ask", "done", "error", "complete"}]
  /\ request \in [Message -> [kind: Asks \union {"none"},
                              post: {"none", "sending", "seen", "posted", "lost"}]]
  /\ at \in [Message -> {"none", "sent", "answering", "opening", "stopping", "over"}]
  /\ said \in [Message -> [kind: Says \union {"none"}, about: Message \union {None}]]
  /\ pendingFreeTextQuestion \in Message \union {None}
  /\ pendingApprovals \subseteq Message
  /\ reply \in [Message -> [fullText: 0..MaxText, editLock: Seq({"edit", "final"}),
                            flight: {"none", "edit", "final", "extra"}, upTo: 0..MaxText,
                            sentMsg: BOOLEAN, posts: Nat, unheard: Nat,
                            shown: 0..ChunkSize, extras: Nat, failed: BOOLEAN]]
  /\ log \in Seq(Message)
  /\ runner \in [pc: {"down", "poll", "saving", "batch", "command", "opening", "turn",
                      "sending"},
                 batch: Seq(Message), cursor: 0..Len(log)]
  /\ saved \in 0..Len(log)
  /\ handled \in [Message -> Nat] /\ taken \in [Message -> Nat]
  /\ overtaken \subseteq Message /\ lapse \subseteq Lapses

Init ==
  /\ turn = [m \in Message |-> "none"]
  /\ request = [m \in Message |-> NoRequest]
  /\ at = [m \in Message |-> "none"]
  /\ said = [m \in Message |-> [kind |-> "none", about |-> None]]
  /\ pendingFreeTextQuestion = None /\ pendingApprovals = {}
  /\ reply = [m \in Message |-> NoReply]
  /\ log = <<>>
  /\ runner = [pc |-> "poll", batch |-> <<>>, cursor |-> 0]
  /\ saved = 0
  /\ handled = [m \in Message |-> 0] /\ taken = [m \in Message |-> 0]
  /\ overtaken = {} /\ lapse = {}

-----------------------------------------------------------------------------
(* Users.  They write on the thread or to the account; what names a request *)
(* comes after they have seen it.                                           *)

Seen(q) == request[q].post \in {"seen", "posted"}

Names(kind, q) ==
  CASE kind = "verdict" -> q # None /\ Seen(q) /\ request[q].kind = "approval"
    [] kind = "button"  -> q # None /\ Seen(q) /\ request[q].kind = "card"
    [] OTHER            -> q = None

Write(m, kind, q) ==
  /\ said[m].kind = "none"
  /\ Names(kind, q)
  /\ said' = [said EXCEPT ![m] = [kind |-> kind, about |-> q]]

WriteThread(m) ==
  /\ \E kind \in Says, q \in Message \union {None} : Write(m, kind, q)
  /\ at' = [at EXCEPT ![m] = "sent"]
  /\ UNCHANGED <<engine, pending, reply, wechat, ghosts>>

\* To WeChat a prompt, or a command about a request, which it is told of only
\* when the turn that made it is over.
WriteWeChat(m) ==
  /\ \E kind \in {"plain", "verdict"} :
       /\ said[m].kind = "none"
       /\ said' = [said EXCEPT ![m] = [kind |-> kind, about |-> None]]
  /\ log' = Append(log, m)
  /\ UNCHANGED <<engine, adapter, runner, saved, handled, ghosts>>

-----------------------------------------------------------------------------
(* The adapter and a message of its thread: handleMessage, handleCommand.   *)

Question == pendingFreeTextQuestion

\* Mutant: the question is forgotten only when its answer has got through.
TakeAnswerKeepsQuestion(m) ==
  /\ said[m].kind \in {"plain", "answer"} /\ Question # None
  /\ said' = [said EXCEPT ![m].about = Question]
  /\ at' = [at EXCEPT ![m] = "answering"]
  /\ taken' = [taken EXCEPT ![Question] = @ + 1]
  /\ UNCHANGED pending

\* A question takes the next message that is not a command or a verdict.
TakeAnswer(m) ==
  /\ said[m].kind \in {"plain", "answer"} /\ Question # None
  /\ pendingFreeTextQuestion' = None
  /\ said' = [said EXCEPT ![m].about = Question]
  /\ at' = [at EXCEPT ![m] = "answering"]
  /\ taken' = [taken EXCEPT ![Question] = @ + 1]
  /\ UNCHANGED pendingApprovals

TakeVerdict(m) ==
  /\ said[m].kind = "verdict" /\ said[m].about \in pendingApprovals
  /\ pendingApprovals' = pendingApprovals \ {said[m].about}
  /\ at' = [at EXCEPT ![m] = "answering"]
  /\ UNCHANGED <<said, pendingFreeTextQuestion, taken>>

\* A button carries the request's id: onAction looks up nothing.
TakeButton(m) ==
  /\ said[m].kind = "button"
  /\ at' = [at EXCEPT ![m] = "answering"]
  /\ UNCHANGED <<said, pending, taken>>

TakeStop(m) ==
  /\ said[m].kind = "stop"
  /\ at' = [at EXCEPT ![m] = "stopping"]
  /\ UNCHANGED <<said, pending, taken>>

\* Everything else is a prompt, a verdict about an unknown request included.
TakePrompt(m) ==
  /\ \/ said[m].kind \in {"plain", "answer"} /\ Question = None
     \/ said[m].kind = "verdict" /\ said[m].about \notin pendingApprovals
  /\ at' = [at EXCEPT ![m] = "opening"]
  /\ UNCHANGED <<said, pending, taken>>

Handle(m) ==
  /\ at[m] = "sent"
  /\ TakeAnswer(m) \/ TakeVerdict(m) \/ TakeButton(m) \/ TakeStop(m) \/ TakePrompt(m)
  /\ UNCHANGED <<engine, reply, wechat, overtaken, lapse>>

\* tool.approve, question.answer: the engine goes on with what waits, and
\* acknowledges nothing when nothing does, which no connector looks at.
Settle(q) ==
  turn' = IF q # None /\ turn[q] = "ask" THEN [turn EXCEPT ![q] = "talk"] ELSE turn

\* The call reaches the engine or fails; either way the message is used up.
Answer(m) ==
  /\ at[m] = "answering"
  /\ Settle(said[m].about) \/ UNCHANGED turn
  /\ at' = [at EXCEPT ![m] = "over"]
  /\ UNCHANGED <<request, said, pending, reply, wechat, ghosts>>

\* chat.stop of the thread's session, or chat.stopAll: some turns wait no more.
StopTurns(m) ==
  /\ at[m] = "stopping"
  /\ \E stopped \in SUBSET {t \in Message : turn[t] = "ask"} :
       turn' = [t \in Message |-> IF t \in stopped THEN "talk" ELSE turn[t]]
  /\ at' = [at EXCEPT ![m] = "over"]
  /\ UNCHANGED <<request, said, pending, reply, wechat, ghosts>>

\* ensureSession, and the subscription that starts the turn.
StartTurn(m) ==
  /\ at[m] = "opening"
  /\ at' = [at EXCEPT ![m] = "over"]
  /\ turn' = [turn EXCEPT ![m] = "talk"] \/ UNCHANGED turn
  /\ UNCHANGED <<request, said, pending, reply, wechat, ghosts>>

-----------------------------------------------------------------------------
(* The stream handler: writes to the platform one after the other.          *)

Least(a, b)  == IF a < b THEN a ELSE b
Extras(text) == IF text = 0 THEN 0 ELSE (text - 1) \div ChunkSize

\* The next write begins when none is under way, with the text of that moment.
Begun(r) ==
  IF r.flight = "none" /\ r.editLock # <<>>
    THEN [r EXCEPT !.flight = Head(r.editLock), !.editLock = Tail(@), !.upTo = r.fullText]
    ELSE r

Idle(r) == [r EXCEPT !.flight = "none", !.upTo = 0]

\* The first message of the answer is posted or edited; what is over follows.
Wrote(r) ==
  [r EXCEPT !.sentMsg = TRUE, !.posts = IF r.sentMsg THEN @ ELSE @ + 1,
            !.shown = Least(r.upTo, ChunkSize)]

\* After the last edit come the messages for what is too long.
Follow(r) == IF r.extras < Extras(r.upTo) THEN [r EXCEPT !.flight = "extra"]
                                          ELSE Idle(r)

Ended(r, ok) ==
  CASE r.flight = "edit"  -> Idle(IF ok THEN Wrote(r) ELSE r)
    [] r.flight = "final" -> Follow(IF ok THEN Wrote(r) ELSE [r EXCEPT !.failed = TRUE])
    [] r.flight = "extra" -> IF ok THEN Follow([r EXCEPT !.extras = @ + 1])
                             ELSE Idle([r EXCEPT !.failed = TRUE])

\* The platform has taken the message, but the call fails: a first message is
\* there of which the handler has no handle, and the next write posts another.
\* (What of the rest is there, when one of these fails, is not looked at.)
Unheard(r) ==
  [r EXCEPT !.posts   = IF r.sentMsg THEN @ ELSE @ + 1,
            !.unheard = IF r.sentMsg THEN @ ELSE @ + 1,
            !.shown   = Least(r.upTo, ChunkSize)]

WriteEnds(m) ==
  /\ reply[m].flight # "none"
  /\ \/ \E ok \in BOOLEAN : reply' = [reply EXCEPT ![m] = Begun(Ended(@, ok))]
     \/ /\ reply[m].flight # "extra"
        /\ reply' = [reply EXCEPT ![m] = Begun(Ended(Unheard(@), FALSE))]
  /\ UNCHANGED <<engine, said, at, pending, wechat, ghosts>>

OnThread(m) == at[m] # "none"

Grown(r, edits) == [r EXCEPT !.fullText = @ + 1, !.editLock = @ \o edits]

\* A piece of text: the first is written at once, others if a second has gone by.
HandleTextDelta(m) ==
  /\ turn[m] = "talk" /\ OnThread(m) /\ reply[m].fullText < MaxText
  /\ \E edits \in {<<>>, <<"edit">>} :
       /\ reply[m].fullText = 0 => edits # <<>>
       /\ reply' = [reply EXCEPT ![m] = Begun(Grown(@, edits))]
  /\ UNCHANGED <<engine, said, at, pending, wechat, ghosts>>

\* Mutant: the last edit is left out when another write is under way.
HandleDoneUnlessBusy(r) ==
  IF r.fullText = 0 \/ r.flight # "none" THEN r
  ELSE Begun([r EXCEPT !.editLock = Append(@, "final")])

HandleDone(r) ==
  IF r.fullText = 0 THEN r ELSE Begun([r EXCEPT !.editLock = Append(@, "final")])

-----------------------------------------------------------------------------
(* What a turn asks, and how the thread is told.                            *)

\* The question that a text answers is now m's.
Pend(m) ==
  /\ pendingFreeTextQuestion' = m
  /\ overtaken' = overtaken \union ({Question} \ {None, m})

NotPending == UNCHANGED <<pendingFreeTextQuestion, overtaken>>

\* Mutant: a free question, like a choice, is not pending before it is posted
\* (and PostEnds thinks it is).
AskBeforePending(m) ==
  /\ turn[m] = "talk" /\ request[m].kind = "none"
  /\ turn' = [turn EXCEPT ![m] = "ask"]
  /\ \E kind \in Asks :
       request' = [request EXCEPT ![m] =
                    [kind |-> kind, post |-> IF OnThread(m) THEN "sending" ELSE "none"]]
  /\ NotPending
  /\ UNCHANGED <<said, at, pendingApprovals, reply, wechat, taken, lapse>>

\* A free question is pending before it is posted; WeChat's requests are
\* kept for the end of the turn.
Ask(m) ==
  /\ turn[m] = "talk" /\ request[m].kind = "none"
  /\ turn' = [turn EXCEPT ![m] = "ask"]
  /\ \/ /\ OnThread(m)
        /\ \E kind \in Asks :
             /\ request' = [request EXCEPT ![m] = [kind |-> kind, post |-> "sending"]]
             /\ IF kind = "free" THEN Pend(m) ELSE NotPending
     \/ /\ ~OnThread(m)
        /\ request' = [request EXCEPT ![m].kind = "approval"]
        /\ NotPending
  /\ UNCHANGED <<said, at, pendingApprovals, reply, wechat, taken, lapse>>

PostTo(m, from, to) ==
  /\ request[m].post = from
  /\ request' = [request EXCEPT ![m].post = to]

\* Users see the post before the adapter learns that it has been made, and
\* only then are choices and approvals pending.
PostAppears(m) ==
  /\ PostTo(m, "sending", "seen")
  /\ UNCHANGED <<turn, said, adapter, wechat, ghosts>>

PostEnds(m) ==
  /\ PostTo(m, "seen", "posted")
  /\ IF request[m].kind = "choice" THEN Pend(m) ELSE NotPending
  /\ pendingApprovals' = IF request[m].kind = "approval" THEN pendingApprovals \union {m}
                                                        ELSE pendingApprovals
  /\ UNCHANGED <<turn, said, at, reply, wechat, taken, lapse>>

PostFails(m) ==
  /\ PostTo(m, "sending", "lost")
  /\ UNCHANGED <<turn, said, adapter, wechat, ghosts>>

\* After five minutes, or when another client answers, the turn goes on.
Expire(m) ==
  /\ turn[m] = "ask"
  /\ turn' = [turn EXCEPT ![m] = "talk"]
  /\ UNCHANGED <<request, said, adapter, wechat, ghosts>>

\* The stream ends: done, with an error, or, broken off, with neither, which the
\* adapter does not notice (here it is an error to it: neither ends its reply).
Finish(m) ==
  /\ \/ /\ turn[m] = "talk"
        /\ turn' = [turn EXCEPT ![m] = "done"]
        /\ reply' = IF OnThread(m) THEN [reply EXCEPT ![m] = HandleDone(@)] ELSE reply
     \/ /\ turn[m] \in {"talk", "ask"}
        /\ turn' = [turn EXCEPT ![m] = "error"]
        /\ UNCHANGED reply
     \/ /\ turn[m] \in {"talk", "ask"} /\ ~OnThread(m)
        /\ turn' = [turn EXCEPT ![m] = "complete"]
        /\ UNCHANGED reply
  /\ UNCHANGED <<request, said, at, pending, wechat, ghosts>>

-----------------------------------------------------------------------------
(* The runner of the WeChat account.                                        *)

Rest(batch) == IF batch = <<>> THEN "poll" ELSE "batch"

\* Mutant: the cursor is saved with a later batch.
FetchUnsaved ==
  /\ runner.pc = "poll" /\ runner.cursor < Len(log)
  /\ runner' = [pc |-> "batch", cursor |-> Len(log),
                batch |-> SubSeq(log, runner.cursor + 1, Len(log))]
  /\ UNCHANGED <<engine, said, adapter, log, saved, handled, ghosts>>

\* getupdates answers with everything after the cursor.
Fetch ==
  /\ runner.pc = "poll" /\ runner.cursor < Len(log)
  /\ runner' = [pc |-> "saving", cursor |-> Len(log),
                batch |-> SubSeq(log, runner.cursor + 1, Len(log))]
  /\ UNCHANGED <<engine, said, adapter, log, saved, handled, ghosts>>

\* Error -14: the service has forgotten the cursor, which starts again.
ResetCursor ==
  /\ runner.pc = "poll" /\ runner.cursor > 0 /\ "reset" \notin lapse
  /\ runner' = [pc |-> "saving", cursor |-> 0, batch |-> <<>>]
  /\ lapse' = lapse \union {"reset"}
  /\ UNCHANGED <<engine, said, adapter, log, saved, handled, taken, overtaken>>

\* What throws ends the batch.
Drop ==
  /\ runner' = [runner EXCEPT !.pc = "poll", !.batch = <<>>]
  /\ lapse' = lapse \union {"dropped"}

PersistCursor ==
  /\ runner.pc = "saving"
  /\ \/ /\ saved' = runner.cursor
        /\ runner' = [runner EXCEPT !.pc = Rest(runner.batch)]
        /\ UNCHANGED lapse
     \/ Drop /\ UNCHANGED saved
  /\ UNCHANGED <<engine, said, adapter, log, handled, taken, overtaken>>

HandleIncoming ==
  /\ runner.pc = "batch"
  /\ LET m == Head(runner.batch)
     IN /\ handled' = [handled EXCEPT ![m] = @ + 1]
        /\ runner' = [runner EXCEPT !.pc = IF said[m].kind = "plain" THEN "opening"
                                                                     ELSE "command"]
  /\ UNCHANGED <<engine, said, adapter, log, saved, ghosts>>

\* A command is about a request of a turn that is over: it meets nothing.
Command ==
  /\ runner.pc = "command"
  /\ runner' = [runner EXCEPT !.pc = "sending"]
  /\ UNCHANGED <<engine, said, adapter, log, saved, handled, ghosts>>

OpenTurn ==
  /\ runner.pc = "opening"
  /\ \/ /\ turn' = [turn EXCEPT ![Head(runner.batch)] = "talk"]
        /\ runner' = [runner EXCEPT !.pc = "turn"]
        /\ UNCHANGED lapse
     \/ Drop /\ UNCHANGED turn
  /\ UNCHANGED <<request, said, adapter, log, saved, handled, taken, overtaken>>

\* Mutant: the end of a stream that is broken off goes unnoticed.
ResolvesUnlessBroken(end) == end \in {"done", "error"}

\* streamReply waits for done, for an error or for the end of the stream.
Resolves(end) == end \in {"done", "error", "complete"}

TurnEnds ==
  /\ runner.pc = "turn" /\ Resolves(turn[Head(runner.batch)])
  /\ runner' = [runner EXCEPT !.pc = "sending"]
  /\ UNCHANGED <<engine, said, adapter, log, saved, handled, ghosts>>

SendText ==
  /\ runner.pc = "sending"
  /\ \/ /\ runner' = [runner EXCEPT !.pc = Rest(Tail(runner.batch)), !.batch = Tail(@)]
        /\ UNCHANGED lapse
     \/ Drop
  /\ UNCHANGED <<engine, said, adapter, log, saved, handled, taken, overtaken>>

\* The process dies, or is stopped between two messages; when it dies while it
\* writes the cursor, the file may be torn, which is read as no cursor.
Crash ==
  /\ runner.pc # "down" /\ log # <<>>
  /\ runner' = [pc |-> "down", batch |-> <<>>, cursor |-> 0]
  /\ \/ saved' = saved /\ lapse' = lapse \union {"crash"}
     \/ /\ runner.pc = "saving"
        /\ saved' = 0 /\ lapse' = lapse \union {"crash", "reset"}
  /\ UNCHANGED <<engine, said, adapter, log, handled, taken, overtaken>>

\* init
Start ==
  /\ runner.pc = "down"
  /\ runner' = [pc |-> "poll", batch |-> <<>>, cursor |-> saved]
  /\ UNCHANGED <<engine, said, adapter, log, saved, handled, ghosts>>

-----------------------------------------------------------------------------
RunnerStep ==
  \/ Start \/ Fetch \/ PersistCursor
  \/ HandleIncoming \/ Command \/ OpenTurn \/ TurnEnds \/ SendText

TurnStep(m) ==
  \/ HandleTextDelta(m) \/ WriteEnds(m) \/ Ask(m) \/ PostAppears(m) \/ PostEnds(m)
  \/ PostFails(m) \/ Expire(m) \/ Finish(m)

Next ==
  \/ \E m \in Message : WriteThread(m) \/ WriteWeChat(m)
  \/ \E m \in Message : Handle(m) \/ Answer(m) \/ StopTurns(m) \/ StartTurn(m)
  \/ \E m \in Message : TurnStep(m)
  \/ RunnerStep \/ ResetCursor \/ Crash

Spec == Init /\ [][Next]_vars
=============================================================================
