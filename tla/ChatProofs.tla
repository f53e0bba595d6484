----------------------------- MODULE ChatProofs -----------------------------
(***************************************************************************)
(* Theorems about ChatTurns, for any sets of sessions, turns and calls,    *)
(* whatever the policy makes of them.                                      *)
(***************************************************************************)
EXTENDS ChatProperties, TLAPS

USE ConstantsAssumption, PolicyAssumption
USE DEF coordinatorVars, pendingVars, tokenVars, agentVars, turnVars, rowVars, historyVars,
        Move, Phases, Running, RunStatus, ApprovalStatus, CallStatus

(* A turn collects, asks for, waits for and executes calls of its own. *)
HasCall ==
  /\ \A t \in Turn : \A c \in todo[t] : callTurn[c] = t
  /\ \A t \in Turn : pc[t] \in {"offered", "waiting", "executing"} =>
       cur[t] \in Call /\ callTurn[cur[t]] = t
  /\ \A c \in resolvers \union meta \union questions : callTurn[c] # None

(* No run is recorded before the turn has started it. *)
NotStarted == \A t \in Turn : pc[t] \in {"idle", "creating", "ready"} => runRow[t] = "none"

(* Nobody has been asked about a call the agent has not come to. *)
OpenCalls ==
  /\ \A t \in Turn : \A c \in todo[t] : approvalRow[c] = "none"
  /\ \A c \in Call : callTurn[c] = None => approvalRow[c] = "none"

(* A tool's promise is settled with yes by an operator only. *)
SaidYes == \A c \in Call \ Question : verdict[c] = "yes" => c \in userApproved

(* A dead process holds nothing. *)
DownIsEmpty ==
  ~up => /\ \A t \in Turn : pc[t] \in {"idle", "done"}
         /\ \A s \in Session : activeRun[s] = None
         /\ resolvers = {} /\ meta = {} /\ questions = {}

(* The promises in the two maps are those of the calls the turns wait for, *)
(* each unsettled; a call nobody waits for yet has no verdict.             *)
Waiters ==
  /\ \A c \in resolvers \union questions : pc[callTurn[c]] = "waiting" /\ cur[callTurn[c]] = c
  /\ \A t \in Turn : pc[t] = "waiting" =>
       (cur[t] \in resolvers \union questions <=> verdict[cur[t]] = "none")
  /\ resolvers \intersect Question = {}

Unsettled ==
  /\ \A c \in Call : callTurn[c] = None => verdict[c] = "none"
  /\ \A t \in Turn : \A c \in todo[t] : verdict[c] = "none"
  /\ \A t \in Turn : pc[t] = "offered" => verdict[cur[t]] = "none"
  /\ \A t \in Turn : pc[t] \in {"offered", "waiting"} => cur[t] \notin todo[t]

(* A yes is followed up before anything else is settled, and brings the    *)
(* token unless a stop has denied the row before.                          *)
OneYes ==
  \A t, u \in Turn :
    pc[t] = "waiting" /\ pc[u] = "waiting" /\ verdict[cur[t]] = "yes" /\ verdict[cur[u]] # "none"
      => t = u

Granted(c) == approvalRow[c] \in {"pending", "approve_once"}

DeniedWithoutMeta ==
  /\ \A c \in meta : approvalRow[c] = "pending"
  /\ \A c \in resolvers \ meta : ~Granted(c)
  /\ \A t \in Turn : pc[t] = "offered" /\ cur[t] \notin Question \union meta => ~Granted(cur[t])

TokenReady ==
  \A t \in Turn :
    LET c == cur[t] IN
    pc[t] = "waiting" /\ c \notin Question /\ verdict[c] = "yes" /\ NeedsIntent(c)
      /\ approvalRow[c] = "approve_once" => Token(t, c) \in capability

RefusedAfterYes == \A c \in refused : c \notin Question /\ verdict[c] = "yes"

TypeInv == TypeOK /\ HasCall

LedgerInv == NotStarted /\ OpenCalls

RunInv == DownIsEmpty /\ ActiveRunIsRunning /\ ChatRunsHaveTurns

WaiterInv == Waiters /\ Unsettled

GrantInv == OneYes /\ DeniedWithoutMeta /\ TokenReady /\ RefusedAfterYes /\ GrantedIsNotRefused

ApprovalInv == SaidYes /\ RunsOnlyApproved

Inv == TypeInv /\ LedgerInv /\ RunInv /\ ApprovalInv /\ WaiterInv /\ GrantInv

(* What a step may do to the rows of runs and approvals. *)
RowsMove ==
  /\ \A t \in Turn : Ledger!RunMoves(runRow[t], runRow'[t])
  /\ \A c \in Call : Ledger!ApprovalMoves(approvalRow[c], approvalRow'[c])

USE DEF TypeInv, TypeOK, HasCall

-----------------------------------------------------------------------------
(* What the helpers write                                                  *)
-----------------------------------------------------------------------------
(* A saved transcript is one of an agent's logs. *)
LEMMA PersistType ==
  ASSUME TypeOK, NEW sessions, Persist(sessions)
  PROVE  transcript' \in [Session -> SUBSET Turn]
  BY DEF TypeOK, Persist

(* A run gets a status runs have. *)
LEMMA FinishRowsType ==
  ASSUME TypeOK, NEW turns, NEW status \in RunStatus, FinishRows(turns, status)
  PROVE  runRow' \in [Turn -> RunStatus]
  BY DEF TypeOK, FinishRows

(* The end of a turn keeps the types. *)
LEMMA FinalizeType ==
  ASSUME TypeInv, NEW t \in Turn, NEW status \in {"completed", "failed"}, Finalize(t, status)
  PROVE  TypeInv'
<1>1. transcript' \in [Session -> SUBSET Turn]
  BY PersistType DEF Finalize, TypeInv, TypeOK
<1>2. runRow' \in [Turn -> RunStatus]
  BY FinishRowsType DEF Finalize, TypeInv
<1>3. /\ controller' \in [Turn -> Turn \union {None}]
      /\ activeRun' \in [Session -> Turn \union {None}]
  BY DEF Finalize, TypeInv, TypeOK
<1> QED BY <1>1, <1>2, <1>3 DEF Finalize, TypeInv, TypeOK, HasCall

-----------------------------------------------------------------------------
(* Type correctness                                                        *)
-----------------------------------------------------------------------------
(* The types are kept by what a turn does by itself. *)
LEMMA TypeTurn == ASSUME TypeInv, NEW t \in Turn, TurnStep(t) PROVE TypeInv'
<1>1. CASE ChatRequest(t)
  <2>1. agentOf' \in [Turn -> Turn \union {None}]
    BY <1>1 DEF ChatRequest
  <2>2. /\ pc' \in [Turn -> Phases]
        /\ \A x \in Turn : pc'[x] = pc[x] \/ pc'[x] \in {"ready", "creating"}
    BY <1>1 DEF ChatRequest
  <2> QED BY <1>1, <2>1, <2>2 DEF ChatRequest
<1>2. CASE AgentCreated(t)
  BY <1>2 DEF AgentCreated
<1>3. CASE PreparationFails(t)
  BY <1>3 DEF PreparationFails
<1>4. CASE StartRun(t)
  BY <1>4 DEF StartRun
<1>5. CASE SlashCommand(t)
  <2>1. transcript' \in [Session -> SUBSET Turn]
    BY <1>5, PersistType DEF SlashCommand
  <2> QED BY <1>5, <2>1 DEF SlashCommand
<1>6. CASE ModelRetries(t)
  BY <1>6 DEF ModelRetries, AgentStep
<1>7. CASE ModelAsksForTools(t)
  BY <1>7 DEF ModelAsksForTools, AgentStep
<1>8. CASE ModelEnds(t)
  BY <1>8 DEF ModelEnds, AgentStep, EndWith
<1>9. CASE SeeAbort(t)
  BY <1>9 DEF SeeAbort, AgentStep, EndWith
<1>10. CASE NextRound(t)
  BY <1>10 DEF NextRound, AgentStep
<1>11. CASE Register(t)
  BY <1>11 DEF Register, AgentStep
<1>12. CASE WakeRejected(t)
  BY <1>12 DEF WakeRejected, AgentStep, CloseFailed
<1>13. CASE WakeAnswered(t)
  BY <1>13 DEF WakeAnswered, AgentStep
<1>14. CASE WakeApproved(t)
  <2> DEFINE c == cur[t]
  <2>1. CASE CloseFailed(t, c)
    BY <1>14, <2>1 DEF WakeApproved, AgentStep, CloseFailed, LoopBlocks, Execute
  <2>2. CASE Execute(t, c)
    BY <1>14, <2>2 DEF WakeApproved, AgentStep, Execute
  <2> QED BY <1>14, <2>1, <2>2 DEF WakeApproved, LoopBlocks
<1>15. CASE ToolReturns(t)
  <2>1. \E status \in {"completed", "failed"} : callRow' = [callRow EXCEPT ![cur[t]] = status]
    BY <1>15 DEF ToolReturns
  <2>2. preapproved' \subseteq preapproved
    BY <1>15 DEF ToolReturns
  <2> QED BY <1>15, <2>1, <2>2 DEF ToolReturns, AgentStep
<1>16. CASE TurnTimeout(t)
  BY <1>16 DEF TurnTimeout
<1>17. CASE Finish(t)
  <2>1. outcome[t] \in {"completed", "failed"}
    OBVIOUS
  <2> QED BY <1>17, <2>1, FinalizeType DEF Finish
<1>18. CASE Disconnect(t)
  BY <1>18, FinalizeType DEF Disconnect
<1>19. CASE DisconnectRename(t)
  BY <1>19 DEF DisconnectRename
<1> QED BY <1>1, <1>2, <1>3, <1>4, <1>5, <1>6, <1>7, <1>8, <1>9, <1>10, <1>11, <1>12, <1>13,
     <1>14, <1>15, <1>16, <1>17, <1>18, <1>19 DEF TurnStep

(* The types are kept when a turn emits or takes a call. *)
LEMMA TypeCall == ASSUME TypeInv, NEW t \in Turn, NEW c \in Call, CallStep(t, c) PROVE TypeInv'
<1>1. CASE ModelEmitsCall(t, c)
  BY <1>1 DEF ModelEmitsCall, AgentStep
<1>2. CASE RunUnasked(t, c)
  <2>1. CASE CloseFailed(t, c)
    BY <1>2, <2>1 DEF RunUnasked, AgentStep, Take, CloseFailed, LoopBlocks, Execute
  <2>2. CASE Execute(t, c)
    BY <1>2, <2>2 DEF RunUnasked, AgentStep, Take, Execute
  <2> QED BY <1>2, <2>1, <2>2 DEF RunUnasked, LoopBlocks
<1>3. CASE Offer(t, c)
  BY <1>3 DEF Offer, AgentStep, Take
<1>4. CASE WaitUnannounced(t, c)
  BY <1>4 DEF WaitUnannounced, AgentStep, Take
<1>5. CASE OfferQuestion(t, c)
  BY <1>5 DEF OfferQuestion, AgentStep, Take
<1> QED BY <1>1, <1>2, <1>3, <1>4, <1>5 DEF CallStep

(* The types are kept by every step of the system. *)
LEMMA TypeNext == ASSUME TypeInv, [Next]_vars PROVE TypeInv'
<1>1. ASSUME NEW t \in Turn, TurnStep(t) PROVE TypeInv'
  BY <1>1, TypeTurn
<1>2. ASSUME NEW t \in Turn, NEW c \in Call, CallStep(t, c) PROVE TypeInv'
  BY <1>2, TypeCall
<1>3. ASSUME NEW c \in Call, Approve(c, TRUE) PROVE TypeInv'
  <2>1. Token(callTurn[c], c) \in Session \X {IntentKey[x] : x \in Call} \/ UNCHANGED tokenVars
    BY <1>3 DEF Approve, Token
  <2> QED BY <1>3, <2>1 DEF Approve, ElsewhereUnchanged, ResolveRows, Settle
<1>4. ASSUME NEW c \in Call, Approve(c, FALSE) PROVE TypeInv'
  BY <1>4 DEF Approve, ElsewhereUnchanged, ResolveRows, Settle
<1>5. ASSUME NEW c \in Call, ApprovalTimeout(c) PROVE TypeInv'
  BY <1>5 DEF ApprovalTimeout, ElsewhereUnchanged, ResolveRows, Settle
<1>6. ASSUME NEW c \in Call, Answer(c) PROVE TypeInv'
  BY <1>6 DEF Answer, ElsewhereUnchanged, ResolveRows, Settle
<1>7. ASSUME NEW c \in Call, QuestionTimeout(c) PROVE TypeInv'
  BY <1>7 DEF QuestionTimeout, ElsewhereUnchanged, ResolveRows, Settle
<1>8. ASSUME NEW s \in Session, Stop(s) PROVE TypeInv'
  BY <1>8 DEF Stop, StopUnchanged, CancelSessions, FinishRows, ResolveRows, Settle, Persist,
       Reached
<1>9. ASSUME NEW s \in Session, Destroy(s) PROVE TypeInv'
  BY <1>9 DEF Destroy, StopUnchanged, CancelSessions, FinishRows, ResolveRows, Settle, Persist,
       Reached
<1>10. CASE StopAll
  BY <1>10 DEF StopAll, StopUnchanged, CancelSessions, FinishRows, ResolveRows, Settle, Persist,
       Reached
<1>11. CASE Flush
  BY <1>11 DEF Flush, StopUnchanged, FinishRows, ResolveRows, Settle, Persist, Reached
<1>12. CASE Crash
  BY <1>12 DEF Crash
<1>13. CASE Restart
  BY <1>13 DEF Restart, FinishRows, ResolveRows
<1>14. CASE UNCHANGED vars
  BY <1>14 DEF vars
<1> QED BY <1>1, <1>2, <1>3, <1>4, <1>5, <1>6, <1>7, <1>8, <1>9, <1>10, <1>11, <1>12, <1>13,
     <1>14 DEF Next

-----------------------------------------------------------------------------
(* Rows that are not there yet                                             *)
-----------------------------------------------------------------------------
USE DEF LedgerInv, NotStarted, OpenCalls

(* Rows that are not there yet are still not there by what a turn does by itself. *)
LEMMA LedgerTurn == ASSUME TypeInv, LedgerInv, NEW t \in Turn, TurnStep(t) PROVE LedgerInv'
<1>1. CASE ChatRequest(t)
  BY <1>1 DEF ChatRequest
<1>2. CASE AgentCreated(t)
  BY <1>2 DEF AgentCreated
<1>3. CASE PreparationFails(t)
  BY <1>3 DEF PreparationFails
<1>4. CASE StartRun(t)
  BY <1>4 DEF StartRun
<1>5. CASE SlashCommand(t)
  BY <1>5 DEF SlashCommand, Persist
<1>6. CASE ModelRetries(t)
  BY <1>6 DEF ModelRetries, AgentStep
<1>7. CASE ModelAsksForTools(t)
  BY <1>7 DEF ModelAsksForTools, AgentStep
<1>8. CASE ModelEnds(t)
  BY <1>8 DEF ModelEnds, AgentStep, EndWith
<1>9. CASE SeeAbort(t)
  BY <1>9 DEF SeeAbort, AgentStep, EndWith
<1>10. CASE NextRound(t)
  BY <1>10 DEF NextRound, AgentStep
<1>11. CASE Register(t)
  BY <1>11 DEF Register, AgentStep
<1>12. CASE WakeRejected(t)
  BY <1>12 DEF WakeRejected, AgentStep, CloseFailed
<1>13. CASE WakeAnswered(t)
  BY <1>13 DEF WakeAnswered, AgentStep
<1>14. CASE WakeApproved(t)
  BY <1>14 DEF WakeApproved, AgentStep, CloseFailed, LoopBlocks, Execute
<1>15. CASE ToolReturns(t)
  BY <1>15 DEF ToolReturns, AgentStep
<1>16. CASE TurnTimeout(t)
  BY <1>16 DEF TurnTimeout
<1>17. CASE Finish(t)
  BY <1>17 DEF Finish, Finalize, Persist, FinishRows
<1>18. CASE Disconnect(t)
  BY <1>18 DEF Disconnect, Finalize, Persist, FinishRows
<1>19. CASE DisconnectRename(t)
  BY <1>19 DEF DisconnectRename
<1> QED BY <1>1, <1>2, <1>3, <1>4, <1>5, <1>6, <1>7, <1>8, <1>9, <1>10, <1>11, <1>12, <1>13,
     <1>14, <1>15, <1>16, <1>17, <1>18, <1>19 DEF TurnStep

(* Rows that are not there yet are still not there when a turn emits or takes a call. *)
LEMMA LedgerCall ==
  ASSUME TypeInv, LedgerInv, NEW t \in Turn, NEW c \in Call,
         CallStep(t, c)
  PROVE  LedgerInv'
<1>1. CASE ModelEmitsCall(t, c)
  BY <1>1 DEF ModelEmitsCall, AgentStep
<1>2. CASE RunUnasked(t, c)
  BY <1>2 DEF RunUnasked, AgentStep, Take, Execute, LoopBlocks, CloseFailed
<1>3. CASE Offer(t, c)
  BY <1>3 DEF Offer, AgentStep, Take
<1>4. CASE WaitUnannounced(t, c)
  BY <1>4 DEF WaitUnannounced, AgentStep, Take
<1>5. CASE OfferQuestion(t, c)
  BY <1>5 DEF OfferQuestion, AgentStep, Take
<1> QED BY <1>1, <1>2, <1>3, <1>4, <1>5 DEF CallStep

(* Rows that are not there yet are still not there by every step of the system. *)
LEMMA LedgerNext == ASSUME TypeInv, LedgerInv, [Next]_vars PROVE LedgerInv'
<1>1. ASSUME NEW t \in Turn, TurnStep(t) PROVE LedgerInv'
  BY <1>1, LedgerTurn
<1>2. ASSUME NEW t \in Turn, NEW c \in Call, CallStep(t, c) PROVE LedgerInv'
  BY <1>2, LedgerCall
<1>3. ASSUME NEW c \in Call, Approve(c, TRUE) PROVE LedgerInv'
  BY <1>3 DEF Approve, ElsewhereUnchanged, ResolveRows, Settle
<1>4. ASSUME NEW c \in Call, Approve(c, FALSE) PROVE LedgerInv'
  BY <1>4 DEF Approve, ElsewhereUnchanged, ResolveRows, Settle
<1>5. ASSUME NEW c \in Call, ApprovalTimeout(c) PROVE LedgerInv'
  BY <1>5 DEF ApprovalTimeout, ElsewhereUnchanged, ResolveRows, Settle
<1>6. ASSUME NEW c \in Call, Answer(c) PROVE LedgerInv'
  BY <1>6 DEF Answer, ElsewhereUnchanged, ResolveRows, Settle
<1>7. ASSUME NEW c \in Call, QuestionTimeout(c) PROVE LedgerInv'
  BY <1>7 DEF QuestionTimeout, ElsewhereUnchanged, ResolveRows, Settle
<1>8. ASSUME NEW s \in Session, Stop(s) PROVE LedgerInv'
  BY <1>8 DEF Stop, StopUnchanged, CancelSessions, FinishRows, ResolveRows, Settle, Persist,
       Reached
<1>9. ASSUME NEW s \in Session, Destroy(s) PROVE LedgerInv'
  BY <1>9 DEF Destroy, StopUnchanged, CancelSessions, FinishRows, ResolveRows, Settle, Persist,
       Reached
<1>10. CASE StopAll
  BY <1>10 DEF StopAll, StopUnchanged, CancelSessions, FinishRows, ResolveRows, Settle, Persist,
       Reached
<1>11. CASE Flush
  BY <1>11 DEF Flush, StopUnchanged, FinishRows, ResolveRows, Settle, Persist, Reached
<1>12. CASE Crash
  BY <1>12 DEF Crash
<1>13. CASE Restart
  BY <1>13 DEF Restart, FinishRows, ResolveRows
<1>14. CASE UNCHANGED vars
  BY <1>14 DEF vars
<1> QED BY <1>1, <1>2, <1>3, <1>4, <1>5, <1>6, <1>7, <1>8, <1>9, <1>10, <1>11, <1>12, <1>13,
     <1>14 DEF Next

HIDE DEF LedgerInv, NotStarted, OpenCalls

-----------------------------------------------------------------------------
(* What a step does to the rows                                            *)
-----------------------------------------------------------------------------
USE DEF RowsMove, Ledger!RunMoves, Ledger!ApprovalMoves, Ledger!RunOutcomes,
        Ledger!ApprovalOutcomes, NotStarted, OpenCalls, LedgerInv

(* Rows move as the ledger allows by what a turn does by itself. *)
LEMMA RowsTurn == ASSUME TypeInv, LedgerInv, NEW t \in Turn, TurnStep(t) PROVE RowsMove
<1>1. CASE ChatRequest(t)
  BY <1>1 DEF ChatRequest
<1>2. CASE AgentCreated(t)
  BY <1>2 DEF AgentCreated
<1>3. CASE PreparationFails(t)
  BY <1>3 DEF PreparationFails
<1>4. CASE StartRun(t)
  BY <1>4 DEF StartRun
<1>5. CASE SlashCommand(t)
  BY <1>5 DEF SlashCommand, Persist
<1>6. CASE ModelRetries(t)
  BY <1>6 DEF ModelRetries, AgentStep
<1>7. CASE ModelAsksForTools(t)
  BY <1>7 DEF ModelAsksForTools, AgentStep
<1>8. CASE ModelEnds(t)
  BY <1>8 DEF ModelEnds, AgentStep, EndWith
<1>9. CASE SeeAbort(t)
  BY <1>9 DEF SeeAbort, AgentStep, EndWith
<1>10. CASE NextRound(t)
  BY <1>10 DEF NextRound, AgentStep
<1>11. CASE Register(t)
  BY <1>11 DEF Register, AgentStep
<1>12. CASE WakeRejected(t)
  BY <1>12 DEF WakeRejected, AgentStep, CloseFailed
<1>13. CASE WakeAnswered(t)
  BY <1>13 DEF WakeAnswered, AgentStep
<1>14. CASE WakeApproved(t)
  BY <1>14 DEF WakeApproved, AgentStep, CloseFailed, LoopBlocks, Execute
<1>15. CASE ToolReturns(t)
  BY <1>15 DEF ToolReturns, AgentStep
<1>16. CASE TurnTimeout(t)
  BY <1>16 DEF TurnTimeout
<1>17. CASE Finish(t)
  BY <1>17 DEF Finish, Finalize, Persist, FinishRows
<1>18. CASE Disconnect(t)
  BY <1>18 DEF Disconnect, Finalize, Persist, FinishRows
<1>19. CASE DisconnectRename(t)
  BY <1>19 DEF DisconnectRename
<1> QED BY <1>1, <1>2, <1>3, <1>4, <1>5, <1>6, <1>7, <1>8, <1>9, <1>10, <1>11, <1>12, <1>13,
     <1>14, <1>15, <1>16, <1>17, <1>18, <1>19 DEF TurnStep

(* Rows move as the ledger allows when a turn emits or takes a call. *)
LEMMA RowsCall ==
  ASSUME TypeInv, LedgerInv, NEW t \in Turn, NEW c \in Call,
         CallStep(t, c)
  PROVE  RowsMove
<1>1. CASE ModelEmitsCall(t, c)
  BY <1>1 DEF ModelEmitsCall, AgentStep
<1>2. CASE RunUnasked(t, c)
  BY <1>2 DEF RunUnasked, AgentStep, Take, Execute, LoopBlocks, CloseFailed
<1>3. CASE Offer(t, c)
  BY <1>3 DEF Offer, AgentStep, Take
<1>4. CASE WaitUnannounced(t, c)
  BY <1>4 DEF WaitUnannounced, AgentStep, Take
<1>5. CASE OfferQuestion(t, c)
  BY <1>5 DEF OfferQuestion, AgentStep, Take
<1> QED BY <1>1, <1>2, <1>3, <1>4, <1>5 DEF CallStep

(* Rows move as the ledger allows by every step of the system. *)
LEMMA RowsNext == ASSUME TypeInv, LedgerInv, [Next]_vars PROVE RowsMove
<1>1. ASSUME NEW t \in Turn, TurnStep(t) PROVE RowsMove
  BY <1>1, RowsTurn
<1>2. ASSUME NEW t \in Turn, NEW c \in Call, CallStep(t, c) PROVE RowsMove
  BY <1>2, RowsCall
<1>3. ASSUME NEW c \in Call, Approve(c, TRUE) PROVE RowsMove
  BY <1>3 DEF Approve, ElsewhereUnchanged, ResolveRows, Settle
<1>4. ASSUME NEW c \in Call, Approve(c, FALSE) PROVE RowsMove
  BY <1>4 DEF Approve, ElsewhereUnchanged, ResolveRows, Settle
<1>5. ASSUME NEW c \in Call, ApprovalTimeout(c) PROVE RowsMove
  BY <1>5 DEF ApprovalTimeout, ElsewhereUnchanged, ResolveRows, Settle
<1>6. ASSUME NEW c \in Call, Answer(c) PROVE RowsMove
  BY <1>6 DEF Answer, ElsewhereUnchanged, ResolveRows, Settle
<1>7. ASSUME NEW c \in Call, QuestionTimeout(c) PROVE RowsMove
  BY <1>7 DEF QuestionTimeout, ElsewhereUnchanged, ResolveRows, Settle
<1>8. ASSUME NEW s \in Session, Stop(s) PROVE RowsMove
  BY <1>8 DEF Stop, StopUnchanged, CancelSessions, FinishRows, ResolveRows, Settle, Persist,
       Reached
<1>9. ASSUME NEW s \in Session, Destroy(s) PROVE RowsMove
  BY <1>9 DEF Destroy, StopUnchanged, CancelSessions, FinishRows, ResolveRows, Settle, Persist,
       Reached
<1>10. CASE StopAll
  BY <1>10 DEF StopAll, StopUnchanged, CancelSessions, FinishRows, ResolveRows, Settle, Persist,
       Reached
<1>11. CASE Flush
  BY <1>11 DEF Flush, StopUnchanged, FinishRows, ResolveRows, Settle, Persist, Reached
<1>12. CASE Crash
  BY <1>12 DEF Crash
<1>13. CASE Restart
  BY <1>13 DEF Restart, FinishRows, ResolveRows
<1>14. CASE UNCHANGED vars
  BY <1>14 DEF vars
<1> QED BY <1>1, <1>2, <1>3, <1>4, <1>5, <1>6, <1>7, <1>8, <1>9, <1>10, <1>11, <1>12, <1>13,
     <1>14 DEF Next

HIDE DEF RowsMove, Ledger!RunMoves, Ledger!ApprovalMoves, Ledger!RunOutcomes,
         Ledger!ApprovalOutcomes, NotStarted, OpenCalls, LedgerInv

-----------------------------------------------------------------------------
(* Running rows and active runs                                            *)
-----------------------------------------------------------------------------
USE DEF RunInv, NotStarted, DownIsEmpty, ActiveRunIsRunning,
        ChatRunsHaveTurns, Tick

(* RunInv is kept by what a turn does by itself. *)
LEMMA RunTurn == ASSUME TypeInv, NotStarted, RunInv, NEW t \in Turn, TurnStep(t) PROVE RunInv'
<1>1. CASE ChatRequest(t)
  <2>1. \E p \in {"ready", "creating"} : pc' = [pc EXCEPT ![t] = p]
    BY <1>1 DEF ChatRequest
  <2> QED BY <1>1, <2>1 DEF ChatRequest
<1>2. CASE AgentCreated(t)
  BY <1>2 DEF AgentCreated
<1>3. CASE PreparationFails(t)
  BY <1>3 DEF PreparationFails
<1>4. CASE StartRun(t)
  BY <1>4 DEF StartRun
<1>5. CASE SlashCommand(t)
  BY <1>5 DEF SlashCommand, Persist
<1>6. CASE ModelRetries(t)
  BY <1>6 DEF ModelRetries, AgentStep
<1>7. CASE ModelAsksForTools(t)
  BY <1>7 DEF ModelAsksForTools, AgentStep
<1>8. CASE ModelEnds(t)
  BY <1>8 DEF ModelEnds, AgentStep, EndWith
<1>9. CASE SeeAbort(t)
  BY <1>9 DEF SeeAbort, AgentStep, EndWith
<1>10. CASE NextRound(t)
  BY <1>10 DEF NextRound, AgentStep
<1>11. CASE Register(t)
  BY <1>11 DEF Register, AgentStep
<1>12. CASE WakeRejected(t)
  BY <1>12 DEF WakeRejected, AgentStep, CloseFailed
<1>13. CASE WakeAnswered(t)
  BY <1>13 DEF WakeAnswered, AgentStep
<1>14. CASE WakeApproved(t)
  <2>1. \E p \in {"tools", "executing"} : pc' = [pc EXCEPT ![t] = p]
    BY <1>14 DEF WakeApproved, LoopBlocks, CloseFailed, Execute
  <2> QED BY <1>14, <2>1 DEF WakeApproved, AgentStep
<1>15. CASE ToolReturns(t)
  BY <1>15 DEF ToolReturns, AgentStep
<1>16. CASE TurnTimeout(t)
  BY <1>16 DEF TurnTimeout
<1>17. CASE Finish(t)
  BY <1>17 DEF Finish, Finalize, Persist, FinishRows
<1>18. CASE Disconnect(t)
  BY <1>18 DEF Disconnect, Finalize, Persist, FinishRows
<1>19. CASE DisconnectRename(t)
  BY <1>19 DEF DisconnectRename
<1> QED BY <1>1, <1>2, <1>3, <1>4, <1>5, <1>6, <1>7, <1>8, <1>9, <1>10, <1>11, <1>12, <1>13,
     <1>14, <1>15, <1>16, <1>17, <1>18, <1>19 DEF TurnStep

(* RunInv is kept when a turn emits or takes a call. *)
LEMMA RunCall ==
  ASSUME TypeInv, NotStarted, RunInv, NEW t \in Turn, NEW c \in Call,
         CallStep(t, c)
  PROVE  RunInv'
<1>1. CASE ModelEmitsCall(t, c)
  BY <1>1 DEF ModelEmitsCall, AgentStep
<1>2. CASE RunUnasked(t, c)
  <2>1. \E p \in {"tools", "executing"} : pc' = [pc EXCEPT ![t] = p]
    BY <1>2 DEF RunUnasked, LoopBlocks, CloseFailed, Execute
  <2> QED BY <1>2, <2>1 DEF RunUnasked, Take, AgentStep
<1>3. CASE Offer(t, c)
  BY <1>3 DEF Offer, AgentStep, Take
<1>4. CASE WaitUnannounced(t, c)
  BY <1>4 DEF WaitUnannounced, AgentStep, Take
<1>5. CASE OfferQuestion(t, c)
  BY <1>5 DEF OfferQuestion, AgentStep, Take
<1> QED BY <1>1, <1>2, <1>3, <1>4, <1>5 DEF CallStep

(* RunInv is kept by every step of the system. *)
LEMMA RunNext == ASSUME TypeInv, NotStarted, RunInv, [Next]_vars PROVE RunInv'
<1>1. ASSUME NEW t \in Turn, TurnStep(t) PROVE RunInv'
  BY <1>1, RunTurn
<1>2. ASSUME NEW t \in Turn, NEW c \in Call, CallStep(t, c) PROVE RunInv'
  BY <1>2, RunCall
<1>3. ASSUME NEW c \in Call, Approve(c, TRUE) PROVE RunInv'
  BY <1>3 DEF Approve, ElsewhereUnchanged, ResolveRows, Settle
<1>4. ASSUME NEW c \in Call, Approve(c, FALSE) PROVE RunInv'
  BY <1>4 DEF Approve, ElsewhereUnchanged, ResolveRows, Settle
<1>5. ASSUME NEW c \in Call, ApprovalTimeout(c) PROVE RunInv'
  BY <1>5 DEF ApprovalTimeout, ElsewhereUnchanged, ResolveRows, Settle
<1>6. ASSUME NEW c \in Call, Answer(c) PROVE RunInv'
  BY <1>6 DEF Answer, ElsewhereUnchanged, ResolveRows, Settle
<1>7. ASSUME NEW c \in Call, QuestionTimeout(c) PROVE RunInv'
  BY <1>7 DEF QuestionTimeout, ElsewhereUnchanged, ResolveRows, Settle
<1>8. ASSUME NEW s \in Session, Stop(s) PROVE RunInv'
  BY <1>8 DEF Stop, StopUnchanged, CancelSessions, FinishRows, ResolveRows, Settle, Persist,
       Reached
<1>9. ASSUME NEW s \in Session, Destroy(s) PROVE RunInv'
  BY <1>9 DEF Destroy, StopUnchanged, CancelSessions, FinishRows, ResolveRows, Settle, Persist,
       Reached
<1>10. CASE StopAll
  BY <1>10 DEF StopAll, StopUnchanged, CancelSessions, FinishRows, ResolveRows, Settle, Persist,
       Reached
<1>11. CASE Flush
  BY <1>11 DEF Flush, StopUnchanged, FinishRows, ResolveRows, Settle, Persist, Reached
<1>12. CASE Crash
  BY <1>12 DEF Crash
<1>13. CASE Restart
  BY <1>13 DEF Restart, FinishRows, ResolveRows
<1>14. CASE UNCHANGED vars
  BY <1>14 DEF vars
<1> QED BY <1>1, <1>2, <1>3, <1>4, <1>5, <1>6, <1>7, <1>8, <1>9, <1>10, <1>11, <1>12, <1>13,
     <1>14 DEF Next

HIDE DEF RunInv, NotStarted, DownIsEmpty, ActiveRunIsRunning,
         ChatRunsHaveTurns, Tick

-----------------------------------------------------------------------------
(* Nothing runs without an operator                                        *)
-----------------------------------------------------------------------------
USE DEF ApprovalInv, SaidYes, RunsOnlyApproved

(* ApprovalInv is kept by what a turn does by itself. *)
LEMMA ApprovalTurn == ASSUME TypeInv, ApprovalInv, NEW t \in Turn, TurnStep(t) PROVE ApprovalInv'
<1>1. CASE ChatRequest(t)
  BY <1>1 DEF ChatRequest
<1>2. CASE AgentCreated(t)
  BY <1>2 DEF AgentCreated
<1>3. CASE PreparationFails(t)
  BY <1>3 DEF PreparationFails
<1>4. CASE StartRun(t)
  BY <1>4 DEF StartRun
<1>5. CASE SlashCommand(t)
  BY <1>5 DEF SlashCommand, Persist
<1>6. CASE ModelRetries(t)
  BY <1>6 DEF ModelRetries, AgentStep
<1>7. CASE ModelAsksForTools(t)
  BY <1>7 DEF ModelAsksForTools, AgentStep
<1>8. CASE ModelEnds(t)
  BY <1>8 DEF ModelEnds, AgentStep, EndWith
<1>9. CASE SeeAbort(t)
  BY <1>9 DEF SeeAbort, AgentStep, EndWith
<1>10. CASE NextRound(t)
  BY <1>10 DEF NextRound, AgentStep
<1>11. CASE Register(t)
  BY <1>11 DEF Register, AgentStep
<1>12. CASE WakeRejected(t)
  BY <1>12 DEF WakeRejected, AgentStep, CloseFailed
<1>13. CASE WakeAnswered(t)
  BY <1>13 DEF WakeAnswered, AgentStep
<1>14. CASE WakeApproved(t)
  BY <1>14 DEF WakeApproved, AgentStep, CloseFailed, LoopBlocks, Execute
<1>15. CASE ToolReturns(t)
  BY <1>15 DEF ToolReturns, AgentStep
<1>16. CASE TurnTimeout(t)
  BY <1>16 DEF TurnTimeout
<1>17. CASE Finish(t)
  BY <1>17 DEF Finish, Finalize, Persist, FinishRows
<1>18. CASE Disconnect(t)
  BY <1>18 DEF Disconnect, Finalize, Persist, FinishRows
<1>19. CASE DisconnectRename(t)
  BY <1>19 DEF DisconnectRename
<1> QED BY <1>1, <1>2, <1>3, <1>4, <1>5, <1>6, <1>7, <1>8, <1>9, <1>10, <1>11, <1>12, <1>13,
     <1>14, <1>15, <1>16, <1>17, <1>18, <1>19 DEF TurnStep

(* ApprovalInv is kept when a turn emits or takes a call. *)
LEMMA ApprovalCall ==
  ASSUME TypeInv, ApprovalInv, NEW t \in Turn, NEW c \in Call,
         CallStep(t, c)
  PROVE  ApprovalInv'
<1>1. CASE ModelEmitsCall(t, c)
  BY <1>1 DEF ModelEmitsCall, AgentStep
<1>2. CASE RunUnasked(t, c)
  BY <1>2 DEF RunUnasked, AgentStep, Take, Execute, LoopBlocks, CloseFailed
<1>3. CASE Offer(t, c)
  BY <1>3 DEF Offer, AgentStep, Take
<1>4. CASE WaitUnannounced(t, c)
  BY <1>4 DEF WaitUnannounced, AgentStep, Take
<1>5. CASE OfferQuestion(t, c)
  BY <1>5 DEF OfferQuestion, AgentStep, Take
<1> QED BY <1>1, <1>2, <1>3, <1>4, <1>5 DEF CallStep

(* ApprovalInv is kept by every step of the system. *)
LEMMA ApprovalNext == ASSUME TypeInv, ApprovalInv, [Next]_vars PROVE ApprovalInv'
<1>1. ASSUME NEW t \in Turn, TurnStep(t) PROVE ApprovalInv'
  BY <1>1, ApprovalTurn
<1>2. ASSUME NEW t \in Turn, NEW c \in Call, CallStep(t, c) PROVE ApprovalInv'
  BY <1>2, ApprovalCall
<1>3. ASSUME NEW c \in Call, Approve(c, TRUE) PROVE ApprovalInv'
  BY <1>3 DEF Approve, ElsewhereUnchanged, ResolveRows, Settle
<1>4. ASSUME NEW c \in Call, Approve(c, FALSE) PROVE ApprovalInv'
  BY <1>4 DEF Approve, ElsewhereUnchanged, ResolveRows, Settle
<1>5. ASSUME NEW c \in Call, ApprovalTimeout(c) PROVE ApprovalInv'
  BY <1>5 DEF ApprovalTimeout, ElsewhereUnchanged, ResolveRows, Settle
<1>6. ASSUME NEW c \in Call, Answer(c) PROVE ApprovalInv'
  BY <1>6 DEF Answer, ElsewhereUnchanged, ResolveRows, Settle
<1>7. ASSUME NEW c \in Call, QuestionTimeout(c) PROVE ApprovalInv'
  BY <1>7 DEF QuestionTimeout, ElsewhereUnchanged, ResolveRows, Settle
<1>8. ASSUME NEW s \in Session, Stop(s) PROVE ApprovalInv'
  BY <1>8 DEF Stop, StopUnchanged, CancelSessions, FinishRows, ResolveRows, Settle, Persist,
       Reached
<1>9. ASSUME NEW s \in Session, Destroy(s) PROVE ApprovalInv'
  BY <1>9 DEF Destroy, StopUnchanged, CancelSessions, FinishRows, ResolveRows, Settle, Persist,
       Reached
<1>10. CASE StopAll
  BY <1>10 DEF StopAll, StopUnchanged, CancelSessions, FinishRows, ResolveRows, Settle, Persist,
       Reached
<1>11. CASE Flush
  BY <1>11 DEF Flush, StopUnchanged, FinishRows, ResolveRows, Settle, Persist, Reached
<1>12. CASE Crash
  BY <1>12 DEF Crash
<1>13. CASE Restart
  BY <1>13 DEF Restart, FinishRows, ResolveRows
<1>14. CASE UNCHANGED vars
  BY <1>14 DEF vars
<1> QED BY <1>1, <1>2, <1>3, <1>4, <1>5, <1>6, <1>7, <1>8, <1>9, <1>10, <1>11, <1>12, <1>13,
     <1>14 DEF Next

HIDE DEF ApprovalInv, SaidYes, RunsOnlyApproved

-----------------------------------------------------------------------------
(* Pending promises                                                        *)
-----------------------------------------------------------------------------
USE DEF WaiterInv, Waiters, Unsettled

(* WaiterInv is kept by what a turn does by itself. *)
LEMMA WaiterTurn == ASSUME TypeInv, WaiterInv, NEW t \in Turn, TurnStep(t) PROVE WaiterInv'
<1>1. CASE ChatRequest(t)
  BY <1>1 DEF ChatRequest
<1>2. CASE AgentCreated(t)
  BY <1>2 DEF AgentCreated
<1>3. CASE PreparationFails(t)
  BY <1>3 DEF PreparationFails
<1>4. CASE StartRun(t)
  BY <1>4 DEF StartRun
<1>5. CASE SlashCommand(t)
  BY <1>5 DEF SlashCommand, Persist
<1>6. CASE ModelRetries(t)
  BY <1>6 DEF ModelRetries, AgentStep
<1>7. CASE ModelAsksForTools(t)
  BY <1>7 DEF ModelAsksForTools, AgentStep
<1>8. CASE ModelEnds(t)
  BY <1>8 DEF ModelEnds, AgentStep, EndWith
<1>9. CASE SeeAbort(t)
  BY <1>9 DEF SeeAbort, AgentStep, EndWith
<1>10. CASE NextRound(t)
  BY <1>10 DEF NextRound, AgentStep
<1>11. CASE Register(t)
  BY <1>11 DEF Register, AgentStep
<1>12. CASE WakeRejected(t)
  BY <1>12 DEF WakeRejected, AgentStep, CloseFailed
<1>13. CASE WakeAnswered(t)
  BY <1>13 DEF WakeAnswered, AgentStep
<1>14. CASE WakeApproved(t)
  <2> DEFINE c == cur[t]
  <2>1. \/ pc' = [pc EXCEPT ![t] = "tools"] /\ cur' = [cur EXCEPT ![t] = None]
        \/ pc' = [pc EXCEPT ![t] = "executing"] /\ cur' = [cur EXCEPT ![t] = c]
    BY <1>14 DEF WakeApproved, LoopBlocks, CloseFailed, Execute
  <2>2. \A x \in resolvers \union questions : callTurn[x] # t
    BY <1>14 DEF WakeApproved
  <2>3. Waiters'
    BY <1>14, <2>1, <2>2 DEF WakeApproved, AgentStep
  <2>4. \A u \in Turn : pc'[u] \in {"offered", "waiting"} => pc[u] = pc'[u] /\ cur'[u] = cur[u]
    BY <1>14, <2>1
  <2>5. Unsettled'
    BY <1>14, <2>4 DEF WakeApproved, AgentStep
  <2> QED BY <2>3, <2>5
<1>15. CASE ToolReturns(t)
  BY <1>15 DEF ToolReturns, AgentStep
<1>16. CASE TurnTimeout(t)
  BY <1>16 DEF TurnTimeout
<1>17. CASE Finish(t)
  BY <1>17 DEF Finish, Finalize, Persist, FinishRows
<1>18. CASE Disconnect(t)
  BY <1>18 DEF Disconnect, Finalize, Persist, FinishRows
<1>19. CASE DisconnectRename(t)
  BY <1>19 DEF DisconnectRename
<1> QED BY <1>1, <1>2, <1>3, <1>4, <1>5, <1>6, <1>7, <1>8, <1>9, <1>10, <1>11, <1>12, <1>13,
     <1>14, <1>15, <1>16, <1>17, <1>18, <1>19 DEF TurnStep

(* WaiterInv is kept when a turn emits or takes a call. *)
LEMMA WaiterCall ==
  ASSUME TypeInv, WaiterInv, NEW t \in Turn, NEW c \in Call,
         CallStep(t, c)
  PROVE  WaiterInv'
<1>1. CASE ModelEmitsCall(t, c)
  BY <1>1 DEF ModelEmitsCall, AgentStep
<1>2. CASE RunUnasked(t, c)
  <2>1. \/ pc' = [pc EXCEPT ![t] = "tools"] /\ cur' = [cur EXCEPT ![t] = None]
        \/ pc' = [pc EXCEPT ![t] = "executing"] /\ cur' = [cur EXCEPT ![t] = c]
    BY <1>2 DEF RunUnasked, LoopBlocks, CloseFailed, Execute
  <2>2. \A x \in resolvers \union questions : callTurn[x] # t
    BY <1>2 DEF RunUnasked, Take
  <2>3. Waiters'
    BY <1>2, <2>1, <2>2 DEF RunUnasked, Take, AgentStep
  <2>4. \A u \in Turn : /\ pc'[u] \in {"offered", "waiting"} => pc[u] = pc'[u] /\ cur'[u] = cur[u]
                        /\ todo'[u] \subseteq todo[u]
    BY <1>2, <2>1 DEF RunUnasked, Take
  <2>5. Unsettled'
    BY <1>2, <2>4 DEF RunUnasked, AgentStep
  <2> QED BY <2>3, <2>5
<1>3. CASE Offer(t, c)
  BY <1>3 DEF Offer, AgentStep, Take
<1>4. CASE WaitUnannounced(t, c)
  BY <1>4 DEF WaitUnannounced, AgentStep, Take
<1>5. CASE OfferQuestion(t, c)
  BY <1>5 DEF OfferQuestion, AgentStep, Take
<1> QED BY <1>1, <1>2, <1>3, <1>4, <1>5 DEF CallStep

(* WaiterInv is kept by every step of the system. *)
LEMMA WaiterNext == ASSUME TypeInv, WaiterInv, [Next]_vars PROVE WaiterInv'
<1>1. ASSUME NEW t \in Turn, TurnStep(t) PROVE WaiterInv'
  BY <1>1, WaiterTurn
<1>2. ASSUME NEW t \in Turn, NEW c \in Call, CallStep(t, c) PROVE WaiterInv'
  BY <1>2, WaiterCall
<1>3. ASSUME NEW c \in Call, Approve(c, TRUE) PROVE WaiterInv'
  BY <1>3 DEF Approve, ElsewhereUnchanged, ResolveRows, Settle
<1>4. ASSUME NEW c \in Call, Approve(c, FALSE) PROVE WaiterInv'
  BY <1>4 DEF Approve, ElsewhereUnchanged, ResolveRows, Settle
<1>5. ASSUME NEW c \in Call, ApprovalTimeout(c) PROVE WaiterInv'
  BY <1>5 DEF ApprovalTimeout, ElsewhereUnchanged, ResolveRows, Settle
<1>6. ASSUME NEW c \in Call, Answer(c) PROVE WaiterInv'
  BY <1>6 DEF Answer, ElsewhereUnchanged, ResolveRows, Settle
<1>7. ASSUME NEW c \in Call, QuestionTimeout(c) PROVE WaiterInv'
  BY <1>7 DEF QuestionTimeout, ElsewhereUnchanged, ResolveRows, Settle
<1>8. ASSUME NEW s \in Session, Stop(s) PROVE WaiterInv'
  BY <1>8 DEF Stop, StopUnchanged, CancelSessions, FinishRows, ResolveRows, Settle, Persist,
       Reached
<1>9. ASSUME NEW s \in Session, Destroy(s) PROVE WaiterInv'
  BY <1>9 DEF Destroy, StopUnchanged, CancelSessions, FinishRows, ResolveRows, Settle, Persist,
       Reached
<1>10. CASE StopAll
  BY <1>10 DEF StopAll, StopUnchanged, CancelSessions, FinishRows, ResolveRows, Settle, Persist,
       Reached
<1>11. CASE Flush
  BY <1>11 DEF Flush, StopUnchanged, FinishRows, ResolveRows, Settle, Persist, Reached
<1>12. CASE Crash
  BY <1>12 DEF Crash
<1>13. CASE Restart
  BY <1>13 DEF Restart, FinishRows, ResolveRows
<1>14. CASE UNCHANGED vars
  BY <1>14 DEF vars
<1> QED BY <1>1, <1>2, <1>3, <1>4, <1>5, <1>6, <1>7, <1>8, <1>9, <1>10, <1>11, <1>12, <1>13,
     <1>14 DEF Next

HIDE DEF WaiterInv, Waiters, Unsettled

-----------------------------------------------------------------------------
(* Granted calls have their tokens                                         *)
-----------------------------------------------------------------------------
USE DEF WaiterInv, Waiters, Unsettled, GrantInv, OneYes, DeniedWithoutMeta,
        TokenReady, RefusedAfterYes, GrantedIsNotRefused, Granted, OpenCalls,
        DownIsEmpty, Tick, Quiet, Token

(* Stopping any sessions denies what it takes from the maps. *)
LEMMA CancelGrant ==
  ASSUME TypeInv, WaiterInv, OpenCalls, GrantInv, Quiet, NEW sessions, CancelSessions(sessions),
         UNCHANGED <<capability, pc, cur, callTurn, todo, refused>>
  PROVE  GrantInv'
<1>1. \A c \in meta' : c \in meta /\ approvalRow'[c] = approvalRow[c]
  BY DEF CancelSessions, ResolveRows
<1>2. /\ resolvers' \subseteq resolvers
      /\ \A c \in resolvers' \ meta' : c \notin meta /\ approvalRow'[c] = approvalRow[c]
  BY DEF CancelSessions, ResolveRows
<1>3. \A c \in Call : Granted(c)' => Granted(c) /\ (c \in meta <=> c \in meta')
  BY DEF CancelSessions, ResolveRows
<1>4. \A c \in Call : approvalRow'[c] = "approve_once" => approvalRow[c] = "approve_once"
  BY DEF CancelSessions, ResolveRows
<1>5. \A c \in Call : verdict'[c] = "yes" => verdict[c] = "yes"
  BY DEF CancelSessions, Settle
<1>6. \A c \in Call : verdict[c] = "yes" => verdict'[c] = "yes"
  BY DEF CancelSessions, Settle
<1>7. OneYes' /\ TokenReady'
  BY <1>5
<1>8. DeniedWithoutMeta'
  BY <1>1, <1>2, <1>3
<1>9. RefusedAfterYes' /\ GrantedIsNotRefused'
  BY <1>4, <1>6
<1> QED BY <1>7, <1>8, <1>9

(* GrantInv is kept by what a turn does by itself. *)
LEMMA GrantTurn ==
  ASSUME TypeInv, WaiterInv, OpenCalls, DownIsEmpty, GrantInv, NEW t \in Turn, TurnStep(t)
  PROVE  GrantInv'
<1>1. CASE ChatRequest(t)
  BY <1>1 DEF ChatRequest
<1>2. CASE AgentCreated(t)
  BY <1>2 DEF AgentCreated
<1>3. CASE PreparationFails(t)
  BY <1>3 DEF PreparationFails
<1>4. CASE StartRun(t)
  BY <1>4 DEF StartRun
<1>5. CASE SlashCommand(t)
  BY <1>5 DEF SlashCommand, Persist
<1>6. CASE ModelRetries(t)
  BY <1>6 DEF ModelRetries, AgentStep
<1>7. CASE ModelAsksForTools(t)
  BY <1>7 DEF ModelAsksForTools, AgentStep
<1>8. CASE ModelEnds(t)
  BY <1>8 DEF ModelEnds, AgentStep, EndWith
<1>9. CASE SeeAbort(t)
  BY <1>9 DEF SeeAbort, AgentStep, EndWith
<1>10. CASE NextRound(t)
  BY <1>10 DEF NextRound, AgentStep
<1>11. CASE Register(t)
  BY <1>11 DEF Register, AgentStep
<1>12. CASE WakeRejected(t)
  BY <1>12 DEF WakeRejected, AgentStep, CloseFailed
<1>13. CASE WakeAnswered(t)
  BY <1>13 DEF WakeAnswered, AgentStep
<1>14. CASE WakeApproved(t)
  <2> DEFINE c == cur[t]
  <2>1. \/ pc' = [pc EXCEPT ![t] = "tools"] /\ cur' = [cur EXCEPT ![t] = None]
        \/ pc' = [pc EXCEPT ![t] = "executing"] /\ cur' = [cur EXCEPT ![t] = c]
    BY <1>14 DEF WakeApproved, LoopBlocks, CloseFailed, Execute
  <2>2. refused' = refused \/ (refused' = refused \union {c} /\ Token(t, c) \notin capability)
    BY <1>14 DEF WakeApproved, LoopBlocks, Execute
  <2>3. capability' \subseteq capability
    BY <1>14 DEF WakeApproved, LoopBlocks, CloseFailed, Execute
  <2>4. \A u \in Turn : pc'[u] \in {"offered", "waiting"} =>
          u # t /\ pc[u] = pc'[u] /\ cur'[u] = cur[u]
    BY <1>14, <2>1
  <2>5. OneYes'
    BY <1>14, <2>4 DEF WakeApproved
  <2>6. DeniedWithoutMeta'
    BY <1>14, <2>4 DEF WakeApproved, AgentStep
  <2>7. TokenReady'
    BY <1>14, <2>1 DEF WakeApproved, AgentStep
  <2>8. RefusedAfterYes' /\ GrantedIsNotRefused'
    BY <1>14, <2>2 DEF WakeApproved, AgentStep
  <2> QED BY <2>5, <2>6, <2>7, <2>8
<1>15. CASE ToolReturns(t)
  BY <1>15 DEF ToolReturns, AgentStep
<1>16. CASE TurnTimeout(t)
  BY <1>16 DEF TurnTimeout
<1>17. CASE Finish(t)
  BY <1>17 DEF Finish, Finalize, Persist, FinishRows
<1>18. CASE Disconnect(t)
  BY <1>18 DEF Disconnect, Finalize, Persist, FinishRows
<1>19. CASE DisconnectRename(t)
  BY <1>19 DEF DisconnectRename
<1> QED BY <1>1, <1>2, <1>3, <1>4, <1>5, <1>6, <1>7, <1>8, <1>9, <1>10, <1>11, <1>12, <1>13,
     <1>14, <1>15, <1>16, <1>17, <1>18, <1>19 DEF TurnStep

(* GrantInv is kept when a turn emits or takes a call. *)
LEMMA GrantCall ==
  ASSUME TypeInv, WaiterInv, OpenCalls, DownIsEmpty, GrantInv, NEW t \in Turn, NEW c \in Call,
         CallStep(t, c)
  PROVE  GrantInv'
<1>1. CASE ModelEmitsCall(t, c)
  BY <1>1 DEF ModelEmitsCall, AgentStep
<1>2. CASE RunUnasked(t, c)
  <2>1. \/ pc' = [pc EXCEPT ![t] = "tools"] /\ cur' = [cur EXCEPT ![t] = None]
        \/ pc' = [pc EXCEPT ![t] = "executing"] /\ cur' = [cur EXCEPT ![t] = c]
    BY <1>2 DEF RunUnasked, LoopBlocks, CloseFailed, Execute
  <2>2. refused' = refused
    BY <1>2 DEF RunUnasked, LoopBlocks, Execute
  <2>3. \A u \in Turn : pc'[u] = "waiting" => verdict'[cur'[u]] = "none"
    BY <1>2, <2>1 DEF RunUnasked, Take
  <2>4. OneYes' /\ TokenReady'
    BY <2>3
  <2>5. c \notin resolvers \union meta /\ c \notin refused
    BY <1>2 DEF RunUnasked, Take
  <2>6. \A u \in Turn : pc'[u] = "offered" => pc[u] = "offered" /\ cur'[u] = cur[u] /\ cur[u] # c
    BY <1>2, <2>1 DEF RunUnasked, Take
  <2>7. DeniedWithoutMeta'
    BY <1>2, <2>5, <2>6 DEF RunUnasked, AgentStep
  <2>8. RefusedAfterYes' /\ GrantedIsNotRefused'
    BY <1>2, <2>2, <2>5 DEF RunUnasked
  <2> QED BY <2>4, <2>7, <2>8
<1>3. CASE Offer(t, c)
  BY <1>3 DEF Offer, AgentStep, Take
<1>4. CASE WaitUnannounced(t, c)
  BY <1>4 DEF WaitUnannounced, AgentStep, Take
<1>5. CASE OfferQuestion(t, c)
  BY <1>5 DEF OfferQuestion, AgentStep, Take
<1> QED BY <1>1, <1>2, <1>3, <1>4, <1>5 DEF CallStep

(* GrantInv is kept by every step of the system. *)
LEMMA GrantNext ==
  ASSUME TypeInv, WaiterInv, OpenCalls, DownIsEmpty, GrantInv, [Next]_vars
  PROVE  GrantInv'
<1>1. ASSUME NEW t \in Turn, TurnStep(t) PROVE GrantInv'
  BY <1>1, GrantTurn
<1>2. ASSUME NEW t \in Turn, NEW c \in Call, CallStep(t, c) PROVE GrantInv'
  BY <1>2, GrantCall
<1>3. ASSUME NEW c \in Call, Approve(c, TRUE) PROVE GrantInv'
  BY <1>3 DEF Approve, ElsewhereUnchanged, ResolveRows, Settle
<1>4. ASSUME NEW c \in Call, Approve(c, FALSE) PROVE GrantInv'
  BY <1>4 DEF Approve, ElsewhereUnchanged, ResolveRows, Settle
<1>5. ASSUME NEW c \in Call, ApprovalTimeout(c) PROVE GrantInv'
  BY <1>5 DEF ApprovalTimeout, ElsewhereUnchanged, ResolveRows, Settle
<1>6. ASSUME NEW c \in Call, Answer(c) PROVE GrantInv'
  BY <1>6 DEF Answer, ElsewhereUnchanged, ResolveRows, Settle
<1>7. ASSUME NEW c \in Call, QuestionTimeout(c) PROVE GrantInv'
  BY <1>7 DEF QuestionTimeout, ElsewhereUnchanged, ResolveRows, Settle
<1>8. ASSUME NEW s \in Session, Stop(s) PROVE GrantInv'
  BY <1>8, CancelGrant DEF Stop, StopUnchanged
<1>9. ASSUME NEW s \in Session, Destroy(s) PROVE GrantInv'
  BY <1>9, CancelGrant DEF Destroy, StopUnchanged
<1>10. CASE StopAll
  BY <1>10, CancelGrant DEF StopAll, StopUnchanged
<1>11. CASE Flush
  BY <1>11 DEF Flush, StopUnchanged, FinishRows, ResolveRows, Settle, Persist, Reached
<1>12. CASE Crash
  BY <1>12 DEF Crash
<1>13. CASE Restart
  BY <1>13 DEF Restart, FinishRows, ResolveRows
<1>14. CASE UNCHANGED vars
  BY <1>14 DEF vars
<1> QED BY <1>1, <1>2, <1>3, <1>4, <1>5, <1>6, <1>7, <1>8, <1>9, <1>10, <1>11, <1>12, <1>13,
     <1>14 DEF Next

HIDE DEF WaiterInv, Waiters, Unsettled, GrantInv, OneYes, DeniedWithoutMeta,
         TokenReady, RefusedAfterYes, GrantedIsNotRefused, Granted, OpenCalls,
         DownIsEmpty, Tick, Quiet, Token

-----------------------------------------------------------------------------
(* The theorems                                                            *)
-----------------------------------------------------------------------------
(* The invariant holds at the start. *)
LEMMA InitInv == Init => Inv
<1> SUFFICES ASSUME Init PROVE Inv
  OBVIOUS
<1>1. TypeInv
  BY DEF Init
<1>2. LedgerInv /\ RunInv /\ ApprovalInv
  BY DEF Init, LedgerInv, NotStarted, OpenCalls, RunInv, DownIsEmpty, ActiveRunIsRunning,
         ChatRunsHaveTurns, ApprovalInv, SaidYes, RunsOnlyApproved
<1>3. WaiterInv /\ GrantInv
  BY DEF Init, WaiterInv, Waiters, Unsettled, GrantInv, OneYes, DeniedWithoutMeta, TokenReady,
         RefusedAfterYes, GrantedIsNotRefused
<1> QED BY <1>1, <1>2, <1>3 DEF Inv

HIDE DEF TypeInv, TypeOK, HasCall

(* The invariant is inductive. *)
LEMMA Invariance == Spec => []Inv
<1>1. Inv /\ [Next]_vars => Inv'
  BY TypeNext, LedgerNext, RunNext, ApprovalNext, WaiterNext, GrantNext
  DEF Inv, LedgerInv, RunInv
<1> QED BY InitInv, <1>1, PTL DEF Spec

(* Every variable keeps its type. *)
THEOREM TypeCorrect == Spec => []TypeOK
<1>1. Inv => TypeOK
  BY DEF Inv, TypeInv
<1> QED BY Invariance, <1>1, PTL

(* coordinator.activeRunsBySession never names a run that is over.         *)
THEOREM ActiveRunsAreRunning == Spec => []ActiveRunIsRunning
<1>1. Inv => ActiveRunIsRunning
  BY DEF Inv, RunInv
<1> QED BY Invariance, <1>1, PTL

(* A running row of a chat turn has a turn that will finish it.            *)
THEOREM RunsHaveTurns == Spec => []ChatRunsHaveTurns
<1>1. Inv => ChatRunsHaveTurns
  BY DEF Inv, RunInv
<1> QED BY Invariance, <1>1, PTL

(* No tool that needs an approval runs without an operator's yes for it.   *)
THEOREM NothingRunsUnapproved == Spec => []RunsOnlyApproved
<1>1. Inv => RunsOnlyApproved
  BY DEF Inv, ApprovalInv
<1> QED BY Invariance, <1>1, PTL

(* The pending maps hold exactly the promises the turns wait on.           *)
THEOREM WaitersResolvable == Spec => []WaitersAreResolvable
<1>1. Inv => WaitersAreResolvable
  BY DEF Inv, WaiterInv, Waiters, TypeInv, TypeOK, HasCall, WaitersAreResolvable
<1> QED BY Invariance, <1>1, PTL

(* A granted call on the host is not refused by the broker.                *)
THEOREM GrantsAreHonoured == Spec => []GrantedIsNotRefused
<1>1. Inv => GrantedIsNotRefused
  BY DEF Inv, GrantInv
<1> QED BY Invariance, <1>1, PTL

(* The store implements the abstract ledger of runs and approvals.         *)
THEOREM LedgerImplemented == Spec => LedgerIsMonotone
<1>1. Init => Ledger!Init
  BY DEF Init, Ledger!Init
<1>2. Inv /\ Inv' /\ [Next]_vars => [Ledger!Next]_(Ledger!ledger)
  <2> SUFFICES ASSUME Inv, Inv', [Next]_vars PROVE Ledger!Next
    BY DEF Ledger!ledger
  <2>1. RowsMove
    BY RowsNext DEF Inv
  <2>2. /\ runRow' \in [Turn -> RunStatus]
        /\ approvalRow' \in [Call -> ApprovalStatus]
    BY DEF Inv, TypeInv, TypeOK
  <2> QED BY <2>1, <2>2
          DEF RowsMove, Ledger!Next, Ledger!RunOutcomes, Ledger!ApprovalOutcomes
<1> QED BY Invariance, <1>1, <1>2, PTL DEF Spec, LedgerIsMonotone, Ledger!SafeSpec
=============================================================================
