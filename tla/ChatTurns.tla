----------------------------- MODULE ChatTurns ------------------------------
(***************************************************************************)
(* Chat turns of the gateway: the chat.stream generator, the agent loop it *)
(* drives, the maps of the session coordinator, and the rows of the        *)
(* operational store, with every procedure that touches them (approve,     *)
(* answer, stop, stopAll, destroy, shutdown) and the timers.               *)
(*                                                                         *)
(* Grain.  Behind the async signatures of the store is synchronous SQLite, *)
(* so an await on it only yields microtasks: a handler is one action up to *)
(* its first await on something outside the process (the client pulling    *)
(* the generator, the model stream, a running tool, a timer, an agent      *)
(* being created).  A promise settled by a handler is continued (Wake)     *)
(* before the event loop takes the next request, timer or stream event:    *)
(* that is Quiet.                                                          *)
(*                                                                         *)
(* An agent is named by the turn that created it, and a turn is one        *)
(* request of a client: its runId, its generator, its AbortController.     *)
(***************************************************************************)
EXTENDS ApprovalPolicy

CONSTANTS
  Session, Turn, Call, None,
  Question,      \* the calls that are ask_user
  TurnSession,   \* the session each turn is sent to
  Shape,         \* what the policy sees of each call
  IntentKey,     \* toolIntentApprovalKey, without the session
  Mode,          \* the approval mode of the connector
  Rename,        \* the turns whose message is the /rename command
  Overlap        \* may a client send a turn before the previous one has ended?

ASSUME ConstantsAssumption ==
  /\ None \notin Turn \union Call
  /\ Question \subseteq Call
  /\ TurnSession \in [Turn -> Session]
  /\ Rename \subseteq Turn
  /\ Overlap \in BOOLEAN

ASSUME PolicyAssumption ==
  /\ Shape \in [Call -> CallShape]
  /\ Mode \in ApprovalModes

VARIABLES
  up,            \* the engine process is running
  live,          \* sessions not destroyed
  sessionAgent,  \* coordinator.sessionAgents
  activeRun,     \* coordinator.activeRunsBySession
  resolvers,     \* keys of coordinator.pendingApprovals
  meta,          \* keys of coordinator.pendingApprovalMeta
  questions,     \* keys of coordinator.pendingQuestions
  capability,    \* capabilityApprovedToolIntents
  preapproved,   \* approvedToolIntents
  controller,    \* activeAbortController of each agent: the turn it aborts
  agentLog,      \* the turns in each agent's messages
  pc, agentOf, aborted, outcome, todo, cur,   \* each turn's generator
  callTurn,      \* the turn that issued a call
  verdict,       \* how the promise a turn waits on was settled
  runRow, callRow, approvalRow, transcript,   \* operational store
  executed, userApproved, refused, stopped  \* history

coordinatorVars == <<sessionAgent, activeRun>>
pendingVars     == <<resolvers, meta, questions, verdict>>
tokenVars       == <<capability, preapproved>>
agentVars       == <<controller, agentLog>>
turnVars        == <<pc, agentOf, aborted, outcome, todo, cur, callTurn>>
rowVars         == <<runRow, callRow, approvalRow, transcript>>
historyVars     == <<executed, userApproved, refused, stopped>>

vars == <<up, live, coordinatorVars, pendingVars, tokenVars, agentVars,
          turnVars, rowVars, historyVars>>

-----------------------------------------------------------------------------
Phases  == {"idle", "creating", "ready", "streaming", "tools", "offered",
            "waiting", "executing", "ending", "done"}
Running == {"streaming", "tools", "offered", "waiting", "executing", "ending"}

RunStatus      == {"none", "running", "completed", "failed", "cancelled", "interrupted"}
ApprovalStatus == {"none", "pending", "approve_once", "denied", "interrupted"}
CallStatus     == {"none", "running", "completed", "failed", "interrupted"}

SessionOf(c)     == TurnSession[callTurn[c]]
Token(t, c)      == <<TurnSession[t], IntentKey[c]>>
NeedsIntent(c)   == ToolIntentRequiresApproval(Shape[c])
LevelRequires(c) == ResolveApprovalRequired(Shape[c].level, Mode)
Required(c)      == LevelRequires(c) \/ NeedsIntent(c)
Emitted(c)       == ShouldEmitApproval(Shape[c].level, Mode)

TypeOK ==
  /\ up \in BOOLEAN
  /\ live \subseteq Session
  /\ sessionAgent \in [Session -> Turn \union {None}]
  /\ activeRun \in [Session -> Turn \union {None}]
  /\ resolvers \subseteq Call /\ meta \subseteq Call /\ questions \subseteq Question
  /\ capability \subseteq Session \X {IntentKey[c] : c \in Call}
  /\ preapproved \subseteq Session \X {IntentKey[c] : c \in Call}
  /\ controller \in [Turn -> Turn \union {None}]
  /\ agentLog \in [Turn -> SUBSET Turn]
  /\ pc \in [Turn -> Phases]
  /\ agentOf \in [Turn -> Turn \union {None}]
  /\ aborted \subseteq Turn
  /\ outcome \in [Turn -> {"completed", "failed"}]
  /\ todo \in [Turn -> SUBSET Call]
  /\ cur \in [Turn -> Call \union {None}]
  /\ callTurn \in [Call -> Turn \union {None}]
  /\ verdict \in [Call -> {"none", "yes", "no"}]
  /\ runRow \in [Turn -> RunStatus]
  /\ callRow \in [Call -> CallStatus]
  /\ approvalRow \in [Call -> ApprovalStatus]
  /\ transcript \in [Session -> SUBSET Turn]
  /\ executed \subseteq Call /\ userApproved \subseteq Call
  /\ refused \subseteq Call
  /\ stopped \subseteq Turn

Init ==
  /\ up = TRUE
  /\ live = Session
  /\ sessionAgent = [s \in Session |-> None]
  /\ activeRun = [s \in Session |-> None]
  /\ resolvers = {} /\ meta = {} /\ questions = {}
  /\ capability = {} /\ preapproved = {}
  /\ controller = [t \in Turn |-> None]
  /\ agentLog = [t \in Turn |-> {}]
  /\ pc = [t \in Turn |-> "idle"]
  /\ agentOf = [t \in Turn |-> None]
  /\ aborted = {}
  /\ outcome = [t \in Turn |-> "completed"]
  /\ todo = [t \in Turn |-> {}]
  /\ cur = [t \in Turn |-> None]
  /\ callTurn = [c \in Call |-> None]
  /\ verdict = [c \in Call |-> "none"]
  /\ runRow = [t \in Turn |-> "none"]
  /\ callRow = [c \in Call |-> "none"]
  /\ approvalRow = [c \in Call |-> "none"]
  /\ transcript = [s \in Session |-> {}]
  /\ executed = {} /\ userApproved = {} /\ refused = {} /\ stopped = {}

-----------------------------------------------------------------------------
(* No settled promise is waiting for its continuation. *)
Quiet == \A t \in Turn : pc[t] = "waiting" => verdict[cur[t]] = "none"

(* The event loop takes a request, a timer or a stream event. *)
Tick == up /\ Quiet

Move(t, phase) == pc' = [pc EXCEPT ![t] = phase]

ResolveRows(calls, status) ==
  approvalRow' = [c \in Call |->
    IF c \in calls /\ approvalRow[c] = "pending" THEN status ELSE approvalRow[c]]

FinishRowsUnguarded(turns, status) ==
  runRow' = [t \in Turn |-> IF t \in turns /\ runRow[t] # "none" THEN status ELSE runRow[t]]

FinishRows(turns, status) ==
  runRow' = [t \in Turn |->
    IF t \in turns /\ runRow[t] = "running" THEN status ELSE runRow[t]]

(* persistSessionArchive of each session: the messages of its agent        *)
(* replace the stored transcript.                                          *)
Persist(sessions) ==
  transcript' = [s \in Session |->
    IF s \in sessions /\ s \in live /\ sessionAgent[s] # None
    THEN agentLog[sessionAgent[s]] ELSE transcript[s]]

-----------------------------------------------------------------------------
(* A turn begins                                                           *)
-----------------------------------------------------------------------------
Busy(s) == \E t \in Turn : TurnSession[t] = s /\ pc[t] \notin {"idle", "done"}

(* chat.stream up to getSessionAgent's first await: an existing agent is   *)
(* taken at once, a missing one has to be created.                         *)
ChatRequest(t) ==
  LET s == TurnSession[t] IN
  /\ Tick /\ pc[t] = "idle" /\ t \notin Rename /\ s \in live
  /\ Overlap \/ ~Busy(s)
  /\ IF sessionAgent[s] # None
     THEN Move(t, "ready") /\ agentOf' = [agentOf EXCEPT ![t] = sessionAgent[s]]
     ELSE Move(t, "creating") /\ UNCHANGED agentOf
  /\ UNCHANGED <<up, live, coordinatorVars, pendingVars, tokenVars, agentVars,
                 aborted, outcome, todo, cur, callTurn, rowVars, historyVars>>

(* createHarnessSession has returned: history is read back and the agent   *)
(* becomes the session's, whatever was stored there meanwhile.             *)
AgentCreated(t) ==
  LET s == TurnSession[t] IN
  /\ Tick /\ pc[t] = "creating"
  /\ sessionAgent' = [sessionAgent EXCEPT ![s] = t]
  /\ agentOf' = [agentOf EXCEPT ![t] = t]
  /\ agentLog' = [agentLog EXCEPT ![t] = transcript[s]]
  /\ Move(t, "ready")
  /\ UNCHANGED <<up, live, activeRun, pendingVars, tokenVars, controller,
                 aborted, outcome, todo, cur, callTurn, rowVars, historyVars>>

(* Creating the agent, or the prompt built with it, is rejected: there is  *)
(* no run to finish.                                                       *)
PreparationFails(t) ==
  /\ Tick /\ pc[t] \in {"creating", "ready"}
  /\ Move(t, "done")
  /\ UNCHANGED <<up, live, coordinatorVars, pendingVars, tokenVars, agentVars, agentOf,
                 aborted, outcome, todo, cur, callTurn, rowVars, historyVars>>

(* startRun, then agent.chat up to the model stream. *)
StartRun(t) ==
  LET s == TurnSession[t]
      a == agentOf[t] IN
  /\ Tick /\ pc[t] = "ready"
  /\ runRow' = [runRow EXCEPT ![t] = "running"]
  /\ activeRun' = [activeRun EXCEPT ![s] = t]
  /\ controller' = [controller EXCEPT ![a] = t]
  /\ agentLog' = [agentLog EXCEPT ![a] = @ \union {t}]
  /\ Move(t, "streaming")
  /\ UNCHANGED <<up, live, sessionAgent, pendingVars, tokenVars, agentOf, aborted, outcome,
                 todo, cur, callTurn, callRow, approvalRow, transcript, historyVars>>

(* The /rename branch of chat.stream: a run without an agent, finished     *)
(* when the client has pulled its last event.                              *)
SlashCommand(t) ==
  LET s == TurnSession[t] IN
  /\ Tick /\ pc[t] = "idle" /\ t \in Rename /\ s \in live
  /\ Overlap \/ ~Busy(s)
  /\ runRow' = [runRow EXCEPT ![t] = "running"]
  /\ activeRun' = [activeRun EXCEPT ![s] = t]
  /\ \/ outcome' = [outcome EXCEPT ![t] = "completed"] /\ Persist({s})
     \/ outcome' = [outcome EXCEPT ![t] = "failed"] /\ UNCHANGED transcript
  /\ Move(t, "ending")
  /\ UNCHANGED <<up, live, sessionAgent, pendingVars, tokenVars, agentVars, agentOf, aborted,
                 todo, cur, callTurn, callRow, approvalRow, historyVars>>

-----------------------------------------------------------------------------
(* The agent loop                                                          *)
-----------------------------------------------------------------------------
EndWith(t, result) ==
  /\ Move(t, "ending")
  /\ outcome' = [outcome EXCEPT ![t] = result]

AgentStep(t) ==
  UNCHANGED <<up, live, coordinatorVars, agentVars, agentOf, aborted, runRow, transcript, stopped>>

(* toolcall_end, and the tool_start event recorded by filterAgentEvents. *)
ModelEmitsCall(t, c) ==
  /\ Tick /\ pc[t] = "streaming" /\ callTurn[c] = None
  /\ callTurn' = [callTurn EXCEPT ![c] = t]
  /\ todo' = [todo EXCEPT ![t] = @ \union {c}]
  /\ callRow' = [callRow EXCEPT ![c] = "running"]
  /\ AgentStep(t)
  /\ UNCHANGED <<pc, outcome, cur, pendingVars, tokenVars, approvalRow,
                 executed, userApproved, refused>>

(* A retryable provider error: the calls collected so far are forgotten. *)
ModelRetries(t) ==
  /\ Tick /\ pc[t] = "streaming" /\ todo[t] # {} /\ t \notin aborted
  /\ todo' = [todo EXCEPT ![t] = {}]
  /\ AgentStep(t)
  /\ UNCHANGED <<pc, outcome, cur, callTurn, pendingVars, tokenVars, callRow, approvalRow,
                 executed, userApproved, refused>>

ModelAsksForTools(t) ==
  /\ Tick /\ pc[t] = "streaming" /\ todo[t] # {}
  /\ Move(t, "tools")
  /\ AgentStep(t)
  /\ UNCHANGED <<outcome, todo, cur, callTurn, pendingVars, tokenVars, callRow, approvalRow,
                 executed, userApproved, refused>>

(* "done" without tool use, or an error that is not retried. *)
ModelEnds(t) ==
  /\ Tick /\ pc[t] = "streaming"
  /\ \E result \in {"completed", "failed"} : EndWith(t, result)
  /\ AgentStep(t)
  /\ UNCHANGED <<todo, cur, callTurn, pendingVars, tokenVars, callRow, approvalRow,
                 executed, userApproved, refused>>

(* The signal is looked at before each tool and before each round. *)
SeeAbort(t) ==
  /\ Tick /\ pc[t] = "tools" /\ t \in aborted
  /\ EndWith(t, "failed")
  /\ AgentStep(t)
  /\ UNCHANGED <<todo, cur, callTurn, pendingVars, tokenVars, callRow, approvalRow,
                 executed, userApproved, refused>>

NextRound(t) ==
  /\ Tick /\ pc[t] = "tools" /\ todo[t] = {} /\ t \notin aborted
  /\ Move(t, "streaming")
  /\ AgentStep(t)
  /\ UNCHANGED <<outcome, todo, cur, callTurn, pendingVars, tokenVars, callRow, approvalRow,
                 executed, userApproved, refused>>

Take(t, c) ==
  /\ Tick /\ pc[t] = "tools" /\ c \in todo[t] /\ t \notin aborted
  /\ todo' = [todo EXCEPT ![t] = @ \ {c}]

(* A call that may run is executed, taking the capability token of its     *)
(* intent if there is one, or blocked by the loop detector.  The detector's *)
(* circuit breaker is left out: blocked calls are not counted, so with the *)
(* thresholds the gateway uses no count gets from 20 (block) to 30.        *)
Execute(t, c) ==
  /\ Move(t, "executing")
  /\ cur' = [cur EXCEPT ![t] = c]
  /\ capability' = capability \ {Token(t, c)}
  /\ executed' = executed \union {c}
  /\ UNCHANGED <<callRow, refused>>

CloseFailed(t, c) ==
  /\ Move(t, "tools")
  /\ cur' = [cur EXCEPT ![t] = None]
  /\ callRow' = [callRow EXCEPT ![c] = "failed"]
  /\ UNCHANGED <<capability, executed>>

LoopBlocks(t, c) == CloseFailed(t, c) /\ UNCHANGED refused

RunUnaskedByLevel(t, c) ==
  /\ Take(t, c) /\ c \notin Question /\ ~LevelRequires(c)
  /\ approvalRow' = [approvalRow EXCEPT ![c] = "approve_once"]
  /\ Execute(t, c) \/ LoopBlocks(t, c)
  /\ AgentStep(t)
  /\ UNCHANGED <<callTurn, outcome, pendingVars, preapproved, userApproved>>

(* A tool nobody has to approve: request, auto-approval and execution are  *)
(* one run of the loop, the request is not announced.                      *)
RunUnasked(t, c) ==
  /\ Take(t, c) /\ c \notin Question /\ ~Required(c)
  /\ approvalRow' = [approvalRow EXCEPT ![c] = "approve_once"]
  /\ Execute(t, c) \/ LoopBlocks(t, c)
  /\ AgentStep(t)
  /\ UNCHANGED <<callTurn, outcome, pendingVars, preapproved, userApproved>>

(* tool_approval_request to the client: the agent goes on only  *)
(* when the client pulls the next event.                                   *)
Offer(t, c) ==
  /\ Take(t, c) /\ c \notin Question /\ Required(c) /\ Emitted(c)
  /\ meta' = meta \union {c}
  /\ approvalRow' = [approvalRow EXCEPT ![c] = "pending"]
  /\ Move(t, "offered")
  /\ cur' = [cur EXCEPT ![t] = c]
  /\ AgentStep(t)
  /\ UNCHANGED <<callTurn, outcome, resolvers, questions, verdict, tokenVars, callRow,
                 executed, userApproved, refused>>

(* The same without the announcement: the agent waits at once. *)
WaitUnannounced(t, c) ==
  /\ Take(t, c) /\ c \notin Question /\ Required(c) /\ ~Emitted(c)
  /\ meta' = meta \union {c}
  /\ resolvers' = resolvers \union {c}
  /\ approvalRow' = [approvalRow EXCEPT ![c] = "pending"]
  /\ Move(t, "waiting")
  /\ cur' = [cur EXCEPT ![t] = c]
  /\ AgentStep(t)
  /\ UNCHANGED <<callTurn, outcome, questions, verdict, tokenVars, callRow,
                 executed, userApproved, refused>>

(* user_question is always announced. *)
OfferQuestion(t, c) ==
  /\ Take(t, c) /\ c \in Question
  /\ Move(t, "offered")
  /\ cur' = [cur EXCEPT ![t] = c]
  /\ AgentStep(t)
  /\ UNCHANGED <<callTurn, outcome, pendingVars, tokenVars, callRow, approvalRow,
                 executed, userApproved, refused>>

(* The client pulls: onToolApproval or onAskUser registers the resolver    *)
(* and arms its timer.                                                     *)
Register(t) ==
  LET c == cur[t] IN
  /\ Tick /\ pc[t] = "offered"
  /\ IF c \in Question
     THEN questions' = questions \union {c} /\ UNCHANGED resolvers
     ELSE resolvers' = resolvers \union {c} /\ UNCHANGED questions
  /\ Move(t, "waiting")
  /\ AgentStep(t)
  /\ UNCHANGED <<outcome, todo, cur, callTurn, meta, verdict, tokenVars, callRow, approvalRow,
                 executed, userApproved, refused>>

(* The continuation of the settled promise: rejected; answered; or         *)
(* approved, when the capability broker still wants the token of the       *)
(* intent (policyDecision "ask").                                          *)
WakeRejected(t) ==
  LET c == cur[t] IN
  /\ up /\ pc[t] = "waiting" /\ verdict[c] = "no"
  /\ CloseFailed(t, c)
  /\ AgentStep(t)
  /\ UNCHANGED <<outcome, todo, callTurn, pendingVars, preapproved, approvalRow,
                 userApproved, refused>>

WakeAnswered(t) ==
  LET c == cur[t] IN
  /\ up /\ pc[t] = "waiting" /\ verdict[c] = "yes" /\ c \in Question
  /\ Move(t, "tools")
  /\ cur' = [cur EXCEPT ![t] = None]
  /\ callRow' = [callRow EXCEPT ![c] = "completed"]
  /\ AgentStep(t)
  /\ UNCHANGED <<outcome, todo, callTurn, pendingVars, tokenVars, approvalRow,
                 executed, userApproved, refused>>

WakeApproved(t) ==
  LET c == cur[t] IN
  /\ up /\ pc[t] = "waiting" /\ verdict[c] = "yes" /\ c \notin Question
  /\ \/ LoopBlocks(t, c)
     \/ /\ Token(t, c) \in capability
        /\ Execute(t, c)
     \/ /\ Token(t, c) \notin capability
        /\ CloseFailed(t, c)
        /\ refused' = refused \union {c}
  /\ AgentStep(t)
  /\ UNCHANGED <<outcome, todo, callTurn, pendingVars, preapproved, approvalRow, userApproved>>

(* The tool returns.  A tool that works through the harness environment    *)
(* asks requestToolDecision on its way, and fails without a preapproval.   *)
ToolReturns(t) ==
  LET c == cur[t] IN
  /\ Tick /\ pc[t] = "executing"
  /\ \/ \E status \in {"completed", "failed"} :
          callRow' = [callRow EXCEPT ![c] = status] /\ UNCHANGED preapproved
     \/ /\ NeedsIntent(c)
        /\ preapproved' = preapproved \ {Token(t, c)}
        /\ \E status \in {"completed", "failed"} :
             /\ Token(t, c) \notin preapproved => status = "failed"
             /\ callRow' = [callRow EXCEPT ![c] = status]
  /\ Move(t, "tools")
  /\ cur' = [cur EXCEPT ![t] = None]
  /\ AgentStep(t)
  /\ UNCHANGED <<outcome, todo, callTurn, pendingVars, capability, approvalRow,
                 executed, userApproved, refused>>

(* The ten-minute timer of Agent.chat. *)
TurnTimeout(t) ==
  /\ Tick /\ pc[t] \in Running \ {"ending"} /\ t \notin aborted
  /\ aborted' = aborted \union {t}
  /\ UNCHANGED <<up, live, coordinatorVars, pendingVars, tokenVars, agentVars, pc, agentOf,
                 outcome, todo, cur, callTurn, rowVars, historyVars>>

-----------------------------------------------------------------------------
(* A turn ends                                                             *)
-----------------------------------------------------------------------------
FinalizeUnsaved(t, status) ==
  LET s == TurnSession[t] IN
  /\ activeRun' = IF activeRun[s] = t THEN [activeRun EXCEPT ![s] = None] ELSE activeRun
  /\ FinishRows({t}, status)
  /\ IF agentOf[t] = None
     THEN UNCHANGED <<controller, transcript>>
     ELSE controller' = [controller EXCEPT ![agentOf[t]] = None] /\ UNCHANGED transcript
  /\ Move(t, "done")
  /\ cur' = [cur EXCEPT ![t] = None]
  /\ todo' = [todo EXCEPT ![t] = {}]
  /\ UNCHANGED <<up, live, sessionAgent, pendingVars, tokenVars, agentLog, agentOf, aborted,
                 outcome, callTurn, callRow, approvalRow, historyVars>>

FinalizeStillActive(t, status) ==
  LET s == TurnSession[t] IN
  /\ UNCHANGED activeRun
  /\ FinishRows({t}, status)
  /\ IF agentOf[t] = None
     THEN UNCHANGED <<controller, transcript>>
     ELSE controller' = [controller EXCEPT ![agentOf[t]] = None] /\ Persist({s})
  /\ Move(t, "done")
  /\ cur' = [cur EXCEPT ![t] = None]
  /\ todo' = [todo EXCEPT ![t] = {}]
  /\ UNCHANGED <<up, live, sessionAgent, pendingVars, tokenVars, agentLog, agentOf, aborted,
                 outcome, callTurn, callRow, approvalRow, historyVars>>

(* The finally blocks: of Agent.chat, which clears the agent's controller  *)
(* whichever turn installed it, then of chat.stream.                       *)
Finalize(t, status) ==
  LET s == TurnSession[t] IN
  /\ activeRun' = IF activeRun[s] = t THEN [activeRun EXCEPT ![s] = None] ELSE activeRun
  /\ FinishRows({t}, status)
  /\ IF agentOf[t] = None
     THEN UNCHANGED <<controller, transcript>>
     ELSE controller' = [controller EXCEPT ![agentOf[t]] = None] /\ Persist({s})
  /\ Move(t, "done")
  /\ cur' = [cur EXCEPT ![t] = None]
  /\ todo' = [todo EXCEPT ![t] = {}]
  /\ UNCHANGED <<up, live, sessionAgent, pendingVars, tokenVars, agentLog, agentOf, aborted,
                 outcome, callTurn, callRow, approvalRow, historyVars>>

Finish(t) == Tick /\ pc[t] = "ending" /\ Finalize(t, outcome[t])

DisconnectWithoutFinally(t) ==
  /\ Tick /\ pc[t] \in {"streaming", "tools", "offered"}
  /\ Move(t, "done")
  /\ cur' = [cur EXCEPT ![t] = None]
  /\ todo' = [todo EXCEPT ![t] = {}]
  /\ UNCHANGED <<up, live, coordinatorVars, pendingVars, tokenVars, agentVars, agentOf, aborted,
                 outcome, callTurn, rowVars, historyVars>>

(* The client goes away: the generator is returned at the yield it is      *)
(* suspended at, and the status is the one it was born with.  The rename   *)
(* branch has no finally block: its run is left as it is.                  *)
Disconnect(t) == Tick /\ pc[t] \in {"streaming", "tools", "offered"} /\ Finalize(t, "completed")

DisconnectRename(t) ==
  /\ Tick /\ pc[t] = "ending" /\ t \in Rename
  /\ Move(t, "done")
  /\ UNCHANGED <<up, live, coordinatorVars, pendingVars, tokenVars, agentVars, agentOf, aborted,
                 outcome, todo, cur, callTurn, rowVars, historyVars>>

-----------------------------------------------------------------------------
(* Answers and timers                                                      *)
-----------------------------------------------------------------------------
Settle(calls, value) ==
  verdict' = [c \in Call |-> IF c \in calls THEN value ELSE verdict[c]]

ElsewhereUnchanged ==
  UNCHANGED <<up, live, coordinatorVars, agentVars, turnVars, runRow, callRow, transcript,
              executed, refused, stopped>>

ApproveKeepsPreapprovalOnly(c, approved) ==
  /\ Tick /\ c \in resolvers
  /\ c \in meta => SessionOf(c) \in live
  /\ IF approved /\ c \in meta /\ NeedsIntent(c)
     THEN preapproved' = preapproved \union {Token(callTurn[c], c)} /\ UNCHANGED capability
     ELSE UNCHANGED tokenVars
  /\ ResolveRows({c}, IF approved THEN "approve_once" ELSE "denied")
  /\ resolvers' = resolvers \ {c}
  /\ meta' = meta \ {c}
  /\ Settle({c}, IF approved THEN "yes" ELSE "no")
  /\ userApproved' = IF approved THEN userApproved \union {c} ELSE userApproved
  /\ UNCHANGED questions
  /\ ElsewhereUnchanged

(* tool.approve.  Ownership is looked up through the meta, and so is the   *)
(* intent to remember.                                                     *)
Approve(c, approved) ==
  /\ Tick /\ c \in resolvers
  /\ c \in meta => SessionOf(c) \in live
  /\ IF approved /\ c \in meta /\ NeedsIntent(c)
     THEN /\ capability' = capability \union {Token(callTurn[c], c)}
          /\ preapproved' = preapproved \union {Token(callTurn[c], c)}
     ELSE UNCHANGED tokenVars
  /\ ResolveRows({c}, IF approved THEN "approve_once" ELSE "denied")
  /\ resolvers' = resolvers \ {c}
  /\ meta' = meta \ {c}
  /\ Settle({c}, IF approved THEN "yes" ELSE "no")
  /\ userApproved' = IF approved THEN userApproved \union {c} ELSE userApproved
  /\ UNCHANGED questions
  /\ ElsewhereUnchanged

ApprovalTimeoutUnsettled(c) ==
  /\ Tick /\ c \in resolvers
  /\ resolvers' = resolvers \ {c}
  /\ meta' = meta \ {c}
  /\ ResolveRows({c}, "denied")
  /\ UNCHANGED <<questions, verdict, tokenVars, userApproved>>
  /\ ElsewhereUnchanged

ApprovalTimeoutRowOnly(c) ==
  /\ Tick /\ c \in resolvers
  /\ ResolveRows({c}, "denied")
  /\ UNCHANGED <<resolvers, meta, questions, verdict, tokenVars, userApproved>>
  /\ ElsewhereUnchanged

(* Five minutes after onToolApproval registered the resolver. *)
ApprovalTimeout(c) ==
  /\ Tick /\ c \in resolvers
  /\ resolvers' = resolvers \ {c}
  /\ meta' = meta \ {c}
  /\ ResolveRows({c}, "denied")
  /\ Settle({c}, "no")
  /\ UNCHANGED <<questions, tokenVars, userApproved>>
  /\ ElsewhereUnchanged

Answer(c) ==
  /\ Tick /\ c \in questions /\ SessionOf(c) \in live
  /\ questions' = questions \ {c}
  /\ Settle({c}, "yes")
  /\ UNCHANGED <<resolvers, meta, tokenVars, approvalRow, userApproved>>
  /\ ElsewhereUnchanged

QuestionTimeout(c) ==
  /\ Tick /\ c \in questions
  /\ questions' = questions \ {c}
  /\ Settle({c}, "no")
  /\ UNCHANGED <<resolvers, meta, tokenVars, approvalRow, userApproved>>
  /\ ElsewhereUnchanged

-----------------------------------------------------------------------------
(* Stopping                                                                *)
-----------------------------------------------------------------------------
(* What agent.abort() of these sessions reaches: the turn whose controller *)
(* the session's agent holds now.                                          *)
Reached(sessions) ==
  {controller[sessionAgent[s]] : s \in {x \in sessions : sessionAgent[x] # None}} \ {None}

CancelSessionsSilently(sessions) ==
  LET approvals == {c \in meta : SessionOf(c) \in sessions}
      asked     == {c \in questions : SessionOf(c) \in sessions}
      runs      == {activeRun[s] : s \in sessions} \ {None} IN
  /\ activeRun' = [s \in Session |-> IF s \in sessions THEN None ELSE activeRun[s]]
  /\ FinishRows(runs, "cancelled")
  /\ ResolveRows(approvals, "denied")
  /\ resolvers' = resolvers \ approvals
  /\ meta' = meta \ approvals
  /\ questions' = questions \ asked
  /\ Settle(approvals \intersect resolvers, "no")
  /\ stopped' = stopped \union {t \in runs : TurnSession[t] \in live}

(* cancelActiveRun, abort, then the pending approvals and questions of the *)
(* sessions: an approval is found through its meta, its resolver may not   *)
(* be there yet.  The run of a session destroyed while the run was being   *)
(* prepared is cancelled, not stopped: its agent is no longer to be found. *)
CancelSessions(sessions) ==
  LET approvals == {c \in meta : SessionOf(c) \in sessions}
      asked     == {c \in questions : SessionOf(c) \in sessions}
      runs      == {activeRun[s] : s \in sessions} \ {None} IN
  /\ activeRun' = [s \in Session |-> IF s \in sessions THEN None ELSE activeRun[s]]
  /\ FinishRows(runs, "cancelled")
  /\ ResolveRows(approvals, "denied")
  /\ resolvers' = resolvers \ approvals
  /\ meta' = meta \ approvals
  /\ questions' = questions \ asked
  /\ Settle((approvals \intersect resolvers) \union asked, "no")
  /\ stopped' = stopped \union {t \in runs : TurnSession[t] \in live}

StopUnchanged == UNCHANGED <<up, tokenVars, agentVars, pc, agentOf, outcome, todo, cur, callTurn,
                             callRow, executed, userApproved, refused>>

StopWithoutAbort(s) ==
  /\ Tick /\ s \in live
  /\ sessionAgent[s] # None \/ activeRun[s] # None
  /\ CancelSessions({s})
  /\ Persist({s})
  /\ UNCHANGED <<live, aborted, sessionAgent>>
  /\ StopUnchanged

Stop(s) ==
  /\ Tick /\ s \in live
  /\ sessionAgent[s] # None \/ activeRun[s] # None
  /\ CancelSessions({s})
  /\ aborted' = aborted \union Reached({s})
  /\ Persist({s})
  /\ UNCHANGED <<live, sessionAgent>>
  /\ StopUnchanged

(* stopAll: sessions with a run or a running agent; every transcript is    *)
(* persisted.                                                              *)
StopAll ==
  LET active == {s \in Session : activeRun[s] # None \/ Reached({s}) # {}} IN
  /\ Tick
  /\ CancelSessions(active)
  /\ aborted' = aborted \union Reached(active)
  /\ Persist(Session)
  /\ UNCHANGED <<live, sessionAgent>>
  /\ StopUnchanged

Destroy(s) ==
  /\ Tick /\ s \in live
  /\ CancelSessions({s})
  /\ aborted' = aborted \union Reached({s})
  /\ Persist({s})
  /\ sessionAgent' = [sessionAgent EXCEPT ![s] = None]
  /\ live' = live \ {s}
  /\ StopUnchanged

(* flushProcedureState, before a shutdown or a restart: approvals are      *)
(* found through their resolvers.  The engine goes on serving until it is  *)
(* signalled.                                                              *)
Flush ==
  LET runs == {activeRun[s] : s \in Session} \ {None} IN
  /\ Tick
  /\ aborted' = aborted \union Reached(Session)
  /\ FinishRows(runs, "interrupted")
  /\ activeRun' = [s \in Session |-> None]
  /\ Persist(Session)
  /\ ResolveRows(resolvers, "interrupted")
  /\ resolvers' = {}
  /\ meta' = meta \ resolvers
  /\ questions' = {}
  /\ Settle(resolvers \union questions, "no")
  /\ UNCHANGED <<live, sessionAgent, stopped>>
  /\ StopUnchanged

-----------------------------------------------------------------------------
(* The process ends, at any point, and starts again                        *)
-----------------------------------------------------------------------------
(* Everything but the store is lost. *)
Crash ==
  /\ up /\ up' = FALSE
  /\ sessionAgent' = [s \in Session |-> None]
  /\ activeRun' = [s \in Session |-> None]
  /\ resolvers' = {} /\ meta' = {} /\ questions' = {}
  /\ capability' = {} /\ preapproved' = {}
  /\ controller' = [t \in Turn |-> None]
  /\ agentLog' = [t \in Turn |-> {}]
  /\ pc' = [t \in Turn |-> IF pc[t] = "idle" THEN "idle" ELSE "done"]
  /\ agentOf' = [t \in Turn |-> None]
  /\ aborted' = {}
  /\ todo' = [t \in Turn |-> {}]
  /\ cur' = [t \in Turn |-> None]
  /\ UNCHANGED <<live, outcome, callTurn, verdict, rowVars, historyVars>>

RestartUnswept ==
  /\ ~up /\ up' = TRUE
  /\ callRow' = [c \in Call |-> IF callRow[c] = "running" THEN "interrupted" ELSE callRow[c]]
  /\ ResolveRows(Call, "interrupted")
  /\ UNCHANGED <<live, runRow, coordinatorVars, pendingVars, tokenVars, agentVars, turnVars,
                 transcript, historyVars>>

(* OperationalStore.init: markInterruptedState. *)
Restart ==
  /\ ~up /\ up' = TRUE
  /\ FinishRows(Turn, "interrupted")
  /\ callRow' = [c \in Call |-> IF callRow[c] = "running" THEN "interrupted" ELSE callRow[c]]
  /\ ResolveRows(Call, "interrupted")
  /\ UNCHANGED <<live, coordinatorVars, pendingVars, tokenVars, agentVars, turnVars,
                 transcript, historyVars>>

-----------------------------------------------------------------------------
TurnStep(t) ==
  \/ ChatRequest(t) \/ AgentCreated(t) \/ PreparationFails(t) \/ StartRun(t) \/ SlashCommand(t)
  \/ ModelRetries(t) \/ ModelAsksForTools(t) \/ ModelEnds(t) \/ SeeAbort(t) \/ NextRound(t)
  \/ Register(t) \/ WakeRejected(t) \/ WakeAnswered(t) \/ WakeApproved(t)
  \/ ToolReturns(t) \/ TurnTimeout(t) \/ Finish(t) \/ Disconnect(t) \/ DisconnectRename(t)

CallStep(t, c) ==
  \/ ModelEmitsCall(t, c) \/ RunUnasked(t, c) \/ Offer(t, c)
  \/ WaitUnannounced(t, c) \/ OfferQuestion(t, c)

Next ==
  \/ \E t \in Turn : TurnStep(t)
  \/ \E t \in Turn, c \in Call : CallStep(t, c)
  \/ \E c \in Call : \/ Approve(c, TRUE) \/ Approve(c, FALSE) \/ ApprovalTimeout(c)
                     \/ Answer(c) \/ QuestionTimeout(c)
  \/ \E s \in Session : Stop(s) \/ Destroy(s)
  \/ StopAll \/ Flush \/ Crash \/ Restart

Spec == Init /\ [][Next]_vars
=============================================================================
