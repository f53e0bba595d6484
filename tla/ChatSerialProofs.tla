-------------------------- MODULE ChatSerialProofs --------------------------
(***************************************************************************)
(* What is kept of a turn, however turns overlap; and two theorems about   *)
(* ChatTurns that need what the clients of the gateway do: no two calls of *)
(* a session ask for the same (NoTwins), and, for stops, a turn is sent    *)
(* when the one before has ended (~Overlap).  README.md says what goes     *)
(* wrong without.                                                          *)
(***************************************************************************)
EXTENDS ChatProofs

USE ConstantsAssumption
USE DEF coordinatorVars, pendingVars, tokenVars, agentVars, turnVars, rowVars, historyVars,
        Move, Phases, Running

(* No two calls of a session have one intent, and so one capability token. *)
NoTwins ==
  \A c, d \in Call :
    /\ callTurn[c] # None /\ callTurn[d] # None
    /\ Token(callTurn[c], c) = Token(callTurn[d], d)
    => c = d

Active(t) == pc[t] \notin {"idle", "done"}

OneAtATime ==
  \A t, u \in Turn : TurnSession[t] = TurnSession[u] /\ Active(t) /\ Active(u) => t = u

(* A session uses agents of its own; a rename none. *)
OwnAgents ==
  /\ \A s \in Session : sessionAgent[s] # None => TurnSession[sessionAgent[s]] = s
  /\ \A t \in Turn : agentOf[t] # None => TurnSession[agentOf[t]] = TurnSession[t]
  /\ \A t \in Rename : agentOf[t] = None /\ pc[t] \in {"idle", "ending", "done"}
  /\ \A t \in Turn : pc[t] \in {"idle", "creating"} => agentOf[t] = None

(* The agent of a turn is the session's until the session is destroyed,    *)
(* and holds the turn's controller.                                        *)
CurrentAgent ==
  \A t \in Turn \ Rename : pc[t] \in Running \union {"ready"} =>
    /\ agentOf[t] # None
    /\ TurnSession[t] \in live => sessionAgent[TurnSession[t]] = agentOf[t]

AbortReaches == \A t \in Turn \ Rename : pc[t] \in Running => controller[agentOf[t]] = t

(* An agent is used when the turn it is named by has created it. *)
AgentsExist ==
  /\ \A s \in Session : sessionAgent[s] # None => pc[sessionAgent[s]] \notin {"idle", "creating"}
  /\ \A t \in Turn : agentOf[t] # None => pc[agentOf[t]] \notin {"idle", "creating"}
  /\ \A t \in Turn \ Rename : pc[t] \in Running \union {"ready"} => agentOf[t] # None

(* An agent remembers the turns it is at, and the agent of a session all   *)
(* that was saved before.                                                  *)
LogsGrow ==
  /\ \A t \in Turn \ Rename : pc[t] \in Running => t \in agentLog[agentOf[t]]
  /\ \A s \in Session : sessionAgent[s] # None => transcript[s] \subseteq agentLog[sessionAgent[s]]

(* A stopped turn has been aborted, and waits for no approval that could   *)
(* still be granted.                                                       *)
StoppedIsAborted ==
  \A t \in stopped :
    /\ runRow[t] # "none"
    /\ pc[t] \in Running \ {"ending"} => t \in aborted
    /\ pc[t] \in {"offered", "waiting"} /\ cur[t] \notin Question => ~Granted(cur[t])

(* Every capability token comes from a call an operator has approved.      *)
TokensAreGranted ==
  \A k \in capability : \E d \in Call :
    /\ callTurn[d] # None /\ k = Token(callTurn[d], d)
    /\ approvalRow[d] = "approve_once"

OwnInv    == OneAtATime /\ OwnAgents /\ CurrentAgent
SavedInv  == OwnAgents /\ AgentsExist /\ LogsGrow
ReachInv  == AbortReaches /\ StoppedIsAborted
TokenInv  == TokensAreGranted /\ RowOfExecutedIsApproved

-----------------------------------------------------------------------------
(* Groups of steps                                                         *)
-----------------------------------------------------------------------------
(* The steps of the agent loop. *)
LoopStep(t) ==
  \/ ModelRetries(t) \/ ModelAsksForTools(t) \/ ModelEnds(t) \/ SeeAbort(t) \/ NextRound(t)
  \/ Register(t) \/ WakeRejected(t) \/ WakeAnswered(t) \/ WakeApproved(t) \/ ToolReturns(t)
  \/ \E c \in Call : CallStep(t, c)

(* What operators and timers settle. *)
SettlingStep(c) ==
  \/ Approve(c, TRUE) \/ Approve(c, FALSE) \/ ApprovalTimeout(c)
  \/ Answer(c) \/ QuestionTimeout(c)

(* A step of the loop moves the turn from a running phase to a running     *)
(* phase and leaves what is not the turn's own.                            *)
LEMMA LoopMoves ==
  ASSUME TypeInv, NEW t \in Turn, LoopStep(t)
  PROVE  /\ AgentStep(t)
         /\ pc[t] \in Running \ {"ending"}
         /\ \E p \in Running : pc' = [pc EXCEPT ![t] = p]
<1>1. CASE ModelRetries(t)
  BY <1>1 DEF ModelRetries, TypeInv, TypeOK
<1>2. CASE ModelAsksForTools(t)
  BY <1>2 DEF ModelAsksForTools
<1>3. CASE ModelEnds(t)
  BY <1>3 DEF ModelEnds, EndWith
<1>4. CASE SeeAbort(t)
  BY <1>4 DEF SeeAbort, EndWith
<1>5. CASE NextRound(t)
  BY <1>5 DEF NextRound
<1>6. CASE Register(t)
  BY <1>6 DEF Register
<1>7. CASE WakeRejected(t)
  BY <1>7 DEF WakeRejected, CloseFailed
<1>8. CASE WakeAnswered(t)
  BY <1>8 DEF WakeAnswered
<1>9. CASE WakeApproved(t)
  BY <1>9 DEF WakeApproved, LoopBlocks, CloseFailed, Execute
<1>10. CASE ToolReturns(t)
  BY <1>10 DEF ToolReturns
<1>11. ASSUME NEW c \in Call, CallStep(t, c)
       PROVE  /\ AgentStep(t)
              /\ pc[t] \in Running \ {"ending"}
              /\ \E p \in Running : pc' = [pc EXCEPT ![t] = p]
  <2>1. CASE ModelEmitsCall(t, c)
    BY <2>1 DEF ModelEmitsCall, TypeInv, TypeOK
  <2>2. CASE RunUnasked(t, c)
    BY <2>2 DEF RunUnasked, Take, LoopBlocks, CloseFailed, Execute
  <2>3. CASE Offer(t, c)
    BY <2>3 DEF Offer, Take
  <2>4. CASE WaitUnannounced(t, c)
    BY <2>4 DEF WaitUnannounced, Take
  <2>5. CASE OfferQuestion(t, c)
    BY <2>5 DEF OfferQuestion, Take
  <2> QED BY <1>11, <2>1, <2>2, <2>3, <2>4, <2>5 DEF CallStep
<1> QED BY <1>1, <1>2, <1>3, <1>4, <1>5, <1>6, <1>7, <1>8, <1>9, <1>10, <1>11 DEF LoopStep

(* An answer or a timer changes the maps and the approval rows only. *)
LEMMA SettlingKeeps ==
  ASSUME NEW c \in Call, SettlingStep(c)
  PROVE  ElsewhereUnchanged
  BY DEF SettlingStep, Approve, ApprovalTimeout, Answer, QuestionTimeout

(* Every step is one of these. *)
LEMMA StepCases ==
  ASSUME [Next]_vars
  PROVE  \/ \E t \in Turn :
              \/ ChatRequest(t) \/ AgentCreated(t) \/ PreparationFails(t) \/ StartRun(t)
              \/ SlashCommand(t) \/ LoopStep(t) \/ TurnTimeout(t) \/ Finish(t) \/ Disconnect(t)
              \/ DisconnectRename(t)
         \/ \E c \in Call : SettlingStep(c)
         \/ \E s \in Session : Stop(s) \/ Destroy(s)
         \/ StopAll \/ Flush \/ Crash \/ Restart \/ UNCHANGED vars
<1>1. ASSUME NEW t \in Turn, TurnStep(t)
      PROVE  \/ ChatRequest(t) \/ AgentCreated(t) \/ PreparationFails(t) \/ StartRun(t)
             \/ SlashCommand(t) \/ LoopStep(t) \/ TurnTimeout(t) \/ Finish(t) \/ Disconnect(t)
             \/ DisconnectRename(t)
  BY <1>1 DEF TurnStep, LoopStep
<1>2. ASSUME NEW t \in Turn, NEW c \in Call, CallStep(t, c)
      PROVE  LoopStep(t)
  BY <1>2 DEF LoopStep
<1> QED BY <1>1, <1>2 DEF Next, SettlingStep
-----------------------------------------------------------------------------
(* A session's turns and agents                                            *)
-----------------------------------------------------------------------------
USE DEF TypeInv, TypeOK

(* Turns of a session that come one after the other use the session's      *)
(* agent, which only a destroy takes away from them.                       *)
LEMMA OwnNext == ASSUME ~Overlap, TypeInv, OwnInv, [Next]_vars PROVE OwnInv'
<1> USE DEF OwnInv, OneAtATime, OwnAgents, CurrentAgent, Active, Busy
<1>1. ASSUME NEW t \in Turn, ChatRequest(t) PROVE OwnInv'
  <2>1. \A u \in Turn : TurnSession[u] = TurnSession[t] => ~Active(u)
    BY <1>1 DEF ChatRequest
  <2>2. CASE sessionAgent[TurnSession[t]] # None
    <3>1. /\ pc' = [pc EXCEPT ![t] = "ready"]
          /\ agentOf' = [agentOf EXCEPT ![t] = sessionAgent[TurnSession[t]]]
          /\ UNCHANGED <<live, sessionAgent>>
      BY <1>1, <2>2 DEF ChatRequest
    <3>2. t \notin Rename
      BY <1>1 DEF ChatRequest
    <3> QED BY <2>1, <2>2, <3>1, <3>2
  <2>3. CASE sessionAgent[TurnSession[t]] = None
    <3>1. /\ pc' = [pc EXCEPT ![t] = "creating"]
          /\ UNCHANGED <<live, sessionAgent, agentOf>>
      BY <1>1, <2>3 DEF ChatRequest
    <3>2. t \notin Rename /\ pc[t] = "idle"
      BY <1>1 DEF ChatRequest
    <3> QED BY <2>1, <3>1, <3>2
  <2> QED BY <2>2, <2>3
<1>2. ASSUME NEW t \in Turn, AgentCreated(t) PROVE OwnInv'
  BY <1>2 DEF AgentCreated
<1>3. ASSUME NEW t \in Turn, PreparationFails(t) PROVE OwnInv'
  BY <1>3 DEF PreparationFails
<1>4. ASSUME NEW t \in Turn, StartRun(t) PROVE OwnInv'
  BY <1>4 DEF StartRun
<1>5. ASSUME NEW t \in Turn, SlashCommand(t) PROVE OwnInv'
  BY <1>5 DEF SlashCommand
<1>6. ASSUME NEW t \in Turn, LoopStep(t) PROVE OwnInv'
  <2>1. /\ pc[t] \in Running \ {"ending"}
        /\ UNCHANGED <<live, sessionAgent, agentOf>>
    BY <1>6, LoopMoves DEF AgentStep
  <2>2. PICK p \in Running : pc' = [pc EXCEPT ![t] = p]
    BY <1>6, LoopMoves
  <2>3. t \notin Rename
    BY <2>1
  <2> QED BY <2>1, <2>2, <2>3
<1>7. ASSUME NEW t \in Turn, TurnTimeout(t) PROVE OwnInv'
  BY <1>7 DEF TurnTimeout
<1>8. ASSUME NEW t \in Turn, Finish(t) \/ Disconnect(t) \/ DisconnectRename(t) PROVE OwnInv'
  <2>1. /\ pc' = [pc EXCEPT ![t] = "done"]
        /\ UNCHANGED <<live, sessionAgent, agentOf>>
    BY <1>8 DEF Finish, Disconnect, DisconnectRename, Finalize
  <2> QED BY <2>1
<1>9. ASSUME NEW c \in Call, SettlingStep(c) PROVE OwnInv'
  BY <1>9, SettlingKeeps DEF ElsewhereUnchanged
<1>10. ASSUME NEW s \in Session, Stop(s) PROVE OwnInv'
  BY <1>10 DEF Stop, StopUnchanged
<1>11. ASSUME NEW s \in Session, Destroy(s) PROVE OwnInv'
  BY <1>11 DEF Destroy, StopUnchanged
<1>12. CASE StopAll \/ Flush
  BY <1>12 DEF StopAll, Flush, StopUnchanged
<1>13. CASE Crash
  BY <1>13 DEF Crash
<1>14. CASE Restart
  BY <1>14 DEF Restart
<1>15. CASE UNCHANGED vars
  BY <1>15 DEF vars
<1> QED BY <1>1, <1>2, <1>3, <1>4, <1>5, <1>6, <1>7, <1>8, <1>9, <1>10, <1>11, <1>12, <1>13,
           <1>14, <1>15, StepCases

-----------------------------------------------------------------------------
(* Transcripts                                                             *)
-----------------------------------------------------------------------------
(* What is saved is what the session's agent remembers. *)
LEMMA PersistSaves ==
  ASSUME TypeInv, SavedInv, NEW sessions, Persist(sessions)
  PROVE  /\ \A s \in Session : transcript[s] \subseteq transcript'[s]
         /\ \A s \in Session : sessionAgent[s] # None =>
              transcript'[s] \subseteq agentLog[sessionAgent[s]]
  BY DEF Persist, SavedInv, LogsGrow

(* Every save comes from an agent that has read what was saved before, and *)
(* the save of a turn that ends under its own agent contains the turn.     *)
LEMMA SavedNext ==
  ASSUME TypeInv, NotStarted, SavedInv, [Next]_vars
  PROVE  /\ SavedInv'
         /\ \A s \in Session : transcript[s] \subseteq transcript'[s]
         /\ \A t \in Turn \ Rename :
              /\ pc[t] # "done" /\ pc'[t] = "done" /\ runRow[t] # "none" /\ up'
              /\ TurnSession[t] \in live /\ agentOf[t] = sessionAgent[TurnSession[t]]
              => t \in transcript'[TurnSession[t]]
<1> DEFINE Kept == /\ \A s \in Session : transcript[s] \subseteq transcript'[s]
                   /\ \A t \in Turn \ Rename :
                        /\ pc[t] # "done" /\ pc'[t] = "done" /\ runRow[t] # "none" /\ up'
                        /\ TurnSession[t] \in live
                        /\ agentOf[t] = sessionAgent[TurnSession[t]]
                        => t \in transcript'[TurnSession[t]]
<1> SUFFICES SavedInv' /\ Kept
  OBVIOUS
<1> USE DEF SavedInv, LogsGrow, OwnAgents, AgentsExist
<1>1. ASSUME NEW t \in Turn, ChatRequest(t) PROVE SavedInv' /\ Kept
  <2>1. CASE sessionAgent[TurnSession[t]] # None
    <3>1. /\ pc' = [pc EXCEPT ![t] = "ready"]
          /\ agentOf' = [agentOf EXCEPT ![t] = sessionAgent[TurnSession[t]]]
          /\ pc[t] = "idle" /\ t \notin Rename
          /\ UNCHANGED <<sessionAgent, agentLog, transcript>>
      BY <1>1, <2>1 DEF ChatRequest
    <3>2. OwnAgents' /\ AgentsExist'
      BY <2>1, <3>1
    <3>3. LogsGrow' /\ Kept
      BY <3>1
    <3> QED BY <3>2, <3>3
  <2>2. CASE sessionAgent[TurnSession[t]] = None
    BY <1>1, <2>2 DEF ChatRequest
  <2> QED BY <2>1, <2>2
<1>2. ASSUME NEW t \in Turn, AgentCreated(t) PROVE SavedInv' /\ Kept
  <2>1. \A u \in Turn : agentOf[u] # t
    BY <1>2 DEF AgentCreated
  <2>2. \A s \in Session : sessionAgent[s] # t
    BY <1>2 DEF AgentCreated
  <2>3. (OwnAgents /\ AgentsExist)'
    BY <1>2 DEF AgentCreated
  <2>4. LogsGrow' /\ Kept
    BY <1>2, <2>1, <2>2 DEF AgentCreated
  <2> QED BY <2>3, <2>4
<1>3. ASSUME NEW t \in Turn, PreparationFails(t) PROVE SavedInv' /\ Kept
  BY <1>3 DEF PreparationFails, NotStarted
<1>4. ASSUME NEW t \in Turn, StartRun(t) PROVE SavedInv' /\ Kept
  BY <1>4 DEF StartRun
<1>5. ASSUME NEW t \in Turn, SlashCommand(t) PROVE SavedInv' /\ Kept
  <2>1. UNCHANGED transcript \/ Persist({TurnSession[t]})
    BY <1>5 DEF SlashCommand
  <2>2. /\ \A s \in Session : transcript[s] \subseteq transcript'[s]
        /\ \A s \in Session : sessionAgent[s] # None =>
             transcript'[s] \subseteq agentLog[sessionAgent[s]]
    BY <2>1, PersistSaves
  <2> QED BY <1>5, <2>2 DEF SlashCommand
<1>6. ASSUME NEW t \in Turn, LoopStep(t) PROVE SavedInv' /\ Kept
  <2>1. /\ pc[t] \in Running \ {"ending"}
        /\ UNCHANGED <<sessionAgent, agentOf, agentLog, transcript>>
    BY <1>6, LoopMoves DEF AgentStep
  <2>2. PICK p \in Running : pc' = [pc EXCEPT ![t] = p]
    BY <1>6, LoopMoves
  <2>3. OwnAgents' /\ AgentsExist'
    BY <2>1, <2>2
  <2>4. LogsGrow' /\ Kept
    BY <2>1, <2>2
  <2> QED BY <2>3, <2>4
<1>7. ASSUME NEW t \in Turn, TurnTimeout(t) PROVE SavedInv' /\ Kept
  BY <1>7 DEF TurnTimeout
<1>8. ASSUME NEW t \in Turn, NEW status, Finalize(t, status), pc[t] \in Running
      PROVE  SavedInv' /\ Kept
  <2>1. UNCHANGED transcript \/ Persist({TurnSession[t]})
    BY <1>8 DEF Finalize
  <2>2. /\ \A s \in Session : transcript[s] \subseteq transcript'[s]
        /\ \A s \in Session : sessionAgent[s] # None =>
             transcript'[s] \subseteq agentLog[sessionAgent[s]]
    BY <2>1, PersistSaves
  <2>3. ASSUME t \notin Rename, TurnSession[t] \in live,
               agentOf[t] = sessionAgent[TurnSession[t]]
        PROVE  t \in transcript'[TurnSession[t]]
    BY <1>8, <2>3 DEF Finalize, Persist
  <2> QED BY <1>8, <2>2, <2>3 DEF Finalize
<1>9. ASSUME NEW t \in Turn, Finish(t) \/ Disconnect(t) PROVE SavedInv' /\ Kept
  BY <1>8, <1>9 DEF Finish, Disconnect
<1>10. ASSUME NEW t \in Turn, DisconnectRename(t) PROVE SavedInv' /\ Kept
  BY <1>10 DEF DisconnectRename
<1>11. ASSUME NEW c \in Call, SettlingStep(c) PROVE SavedInv' /\ Kept
  BY <1>11, SettlingKeeps DEF ElsewhereUnchanged
<1>12. ASSUME NEW sessions, Persist(sessions), UNCHANGED <<agentLog, pc, agentOf>>,
              \/ UNCHANGED sessionAgent
              \/ \E s \in Session : sessionAgent' = [sessionAgent EXCEPT ![s] = None]
       PROVE SavedInv' /\ Kept
  <2>1. /\ \A s \in Session : transcript[s] \subseteq transcript'[s]
        /\ \A s \in Session : sessionAgent[s] # None =>
             transcript'[s] \subseteq agentLog[sessionAgent[s]]
    BY <1>12, PersistSaves
  <2>2. \A s \in Session : sessionAgent'[s] \in {sessionAgent[s], None}
    BY <1>12
  <2>3. OwnAgents' /\ AgentsExist'
    BY <1>12, <2>2
  <2>4. LogsGrow' /\ Kept
    BY <1>12, <2>1, <2>2
  <2> QED BY <2>3, <2>4
<1>13. ASSUME NEW s \in Session, Stop(s) PROVE SavedInv' /\ Kept
  BY <1>12, <1>13 DEF Stop, StopUnchanged
<1>14. ASSUME NEW s \in Session, Destroy(s) PROVE SavedInv' /\ Kept
  BY <1>12, <1>14 DEF Destroy, StopUnchanged
<1>15. CASE StopAll
  BY <1>12, <1>15 DEF StopAll, StopUnchanged
<1>16. CASE Flush
  BY <1>12, <1>16 DEF Flush, StopUnchanged
<1>17. CASE Crash
  BY <1>17 DEF Crash
<1>18. CASE Restart
  BY <1>18 DEF Restart
<1>19. CASE UNCHANGED vars
  BY <1>19 DEF vars
<1> QED BY <1>1, <1>2, <1>3, <1>4, <1>5, <1>6, <1>7, <1>9, <1>10, <1>11, <1>13, <1>14, <1>15,
           <1>16, <1>17, <1>18, <1>19, StepCases

-----------------------------------------------------------------------------
(* Stopped turns                                                           *)
-----------------------------------------------------------------------------
(* The loop asks about a call only when the turn has not been aborted.     *)
LEMMA LoopAsks ==
  ASSUME TypeInv, NEW t \in Turn, LoopStep(t)
  PROVE  /\ \A u \in Turn \ {t} : cur'[u] = cur[u]
         /\ \A c \in Call : approvalRow'[c] # approvalRow[c] => c \in todo[t]
         /\ pc'[t] \in {"offered", "waiting"} =>
              \/ t \notin aborted
              \/ pc[t] = "offered" /\ cur'[t] = cur[t] /\ UNCHANGED approvalRow
<1> DEFINE P == /\ \A u \in Turn \ {t} : cur'[u] = cur[u]
                /\ \A c \in Call : approvalRow'[c] # approvalRow[c] => c \in todo[t]
                /\ pc'[t] \in {"offered", "waiting"} =>
                     \/ t \notin aborted
                     \/ pc[t] = "offered" /\ cur'[t] = cur[t] /\ UNCHANGED approvalRow
<1>1. CASE ModelRetries(t)
  BY <1>1 DEF ModelRetries
<1>2. CASE ModelAsksForTools(t)
  BY <1>2 DEF ModelAsksForTools
<1>3. CASE ModelEnds(t)
  BY <1>3 DEF ModelEnds, EndWith
<1>4. CASE SeeAbort(t)
  BY <1>4 DEF SeeAbort, EndWith
<1>5. CASE NextRound(t)
  BY <1>5 DEF NextRound
<1>6. CASE Register(t)
  BY <1>6 DEF Register
<1>7. CASE WakeRejected(t)
  BY <1>7 DEF WakeRejected, CloseFailed
<1>8. CASE WakeAnswered(t)
  BY <1>8 DEF WakeAnswered
<1>9. CASE WakeApproved(t)
  BY <1>9 DEF WakeApproved, LoopBlocks, CloseFailed, Execute
<1>10. CASE ToolReturns(t)
  BY <1>10 DEF ToolReturns
<1>11. ASSUME NEW c \in Call, CallStep(t, c) PROVE P
  <2>1. CASE ModelEmitsCall(t, c)
    BY <2>1 DEF ModelEmitsCall
  <2>2. CASE RunUnasked(t, c)
    BY <2>2 DEF RunUnasked, Take, LoopBlocks, CloseFailed, Execute
  <2>3. CASE Offer(t, c)
    BY <2>3 DEF Offer, Take
  <2>4. CASE WaitUnannounced(t, c)
    BY <2>4 DEF WaitUnannounced, Take
  <2>5. CASE OfferQuestion(t, c)
    BY <2>5 DEF OfferQuestion, Take
  <2> QED BY <1>11, <2>1, <2>2, <2>3, <2>4, <2>5 DEF CallStep
<1> QED BY <1>1, <1>2, <1>3, <1>4, <1>5, <1>6, <1>7, <1>8, <1>9, <1>10, <1>11 DEF LoopStep

(* A stop aborts the turn it cancels, and denies the call the turn waits   *)
(* for or is about to wait for.                                            *)
LEMMA StopReaches ==
  ASSUME Inv, OwnInv, ReachInv, Quiet, NEW sessions \in SUBSET Session, CancelSessions(sessions),
         aborted' = aborted \union Reached(sessions), UNCHANGED <<pc, cur>>
  PROVE  StoppedIsAborted'
<1>1. TypeOK /\ HasCall /\ ActiveRunIsRunning /\ Waiters /\ DeniedWithoutMeta
  BY DEF Inv, TypeInv, RunInv, WaiterInv, GrantInv
<1>2. /\ \A t \in Turn : runRow[t] # "none" => runRow'[t] # "none"
      /\ \A c \in Call : approvalRow'[c] \in {"pending", "approve_once"} =>
           Granted(c) /\ c \notin meta \ meta'
  <2>1. \A t \in Turn : runRow[t] # "none" => runRow'[t] # "none"
    BY DEF CancelSessions, FinishRows
  <2>2. \A c \in Call : approvalRow'[c] \in {approvalRow[c], "denied"}
    BY DEF CancelSessions, ResolveRows
  <2>3. \A c \in meta \ meta' : c \in Call /\ approvalRow[c] = "pending"
    BY <1>1 DEF DeniedWithoutMeta
  <2>4. \A c \in meta \ meta' : approvalRow'[c] = "denied"
    BY <2>3 DEF CancelSessions, ResolveRows
  <2> QED BY <2>1, <2>2, <2>4 DEF Granted
<1>3. ASSUME NEW t \in stopped
      PROVE  /\ runRow'[t] # "none"
             /\ pc'[t] \in Running \ {"ending"} => t \in aborted'
             /\ pc'[t] \in {"offered", "waiting"} /\ cur[t] \notin Question =>
                  approvalRow'[cur[t]] \notin {"pending", "approve_once"}
  BY <1>1, <1>2, <1>3 DEF ReachInv, StoppedIsAborted, HasCall, Granted
<1>4. ASSUME NEW s \in sessions \intersect live, activeRun[s] # None
      PROVE  LET t == activeRun[s] IN
             /\ runRow'[t] # "none"
             /\ pc'[t] \in Running \ {"ending"} => t \in aborted'
             /\ pc'[t] \in {"offered", "waiting"} /\ cur[t] \notin Question =>
                  approvalRow'[cur[t]] \notin {"pending", "approve_once"}
  <2> DEFINE t == activeRun[s]
  <2>0. t \in Turn /\ s \in Session
    BY <1>1, <1>4
  <2>1. TurnSession[t] = s /\ runRow[t] = "running" /\ (pc[t] \in Running \/ t \in Rename)
    BY <1>1, <1>4, <2>0 DEF ActiveRunIsRunning
  <2>2. ASSUME pc[t] \in Running \ {"ending"}
        PROVE  t \in aborted'
    <3>1. t \in Turn \ Rename
      BY <2>0, <2>2 DEF OwnInv, OwnAgents
    <3>2. sessionAgent[s] # None /\ controller[sessionAgent[s]] = t
      BY <1>4, <2>1, <2>2, <3>1 DEF OwnInv, CurrentAgent, ReachInv, AbortReaches
    <3>3. t \in Reached(sessions)
      BY <1>4, <3>2 DEF Reached
    <3> QED BY <3>3
  <2>3. ASSUME pc[t] \in {"offered", "waiting"}, cur[t] \notin Question
        PROVE  approvalRow'[cur[t]] \notin {"pending", "approve_once"}
    <3>1. cur[t] \in Call /\ callTurn[cur[t]] = t
      BY <1>1, <2>0, <2>3 DEF HasCall
    <3>2. CASE cur[t] \in meta
      <4>1. cur[t] \notin meta'
        BY <1>4, <2>1, <3>1, <3>2 DEF CancelSessions, SessionOf
      <4> QED BY <1>2, <3>1, <3>2, <4>1
    <3>3. CASE cur[t] \notin meta
      <4>1. pc[t] = "waiting" => cur[t] \in resolvers
        BY <1>1, <2>0, <2>3 DEF Waiters, Quiet
      <4>2. ~Granted(cur[t])
        BY <1>1, <2>0, <2>3, <3>3, <4>1 DEF DeniedWithoutMeta
      <4> QED BY <1>2, <3>1, <4>2
    <3> QED BY <3>2, <3>3
  <2> QED BY <2>1, <2>2, <2>3, <1>2, <2>0
<1>5. \A t \in stopped' : t \in stopped \/ \E s \in sessions \intersect live : activeRun[s] # None /\ t = activeRun[s]
  <2>1. stopped' \subseteq stopped \union {t \in {activeRun[s] : s \in sessions} \ {None} : TurnSession[t] \in live}
    BY DEF CancelSessions
  <2>2. \A s \in sessions : activeRun[s] # None => TurnSession[activeRun[s]] = s
    BY <1>1 DEF ActiveRunIsRunning
  <2> QED BY <2>1, <2>2
<1> QED BY <1>3, <1>4, <1>5 DEF StoppedIsAborted, Granted

(* A stopped turn stays aborted and is granted nothing any more. *)
LEMMA ReachNext ==
  ASSUME Inv, OwnInv, ReachInv, [Next]_vars
  PROVE  ReachInv'
<1> USE DEF ReachInv, AbortReaches, StoppedIsAborted, Granted
<1>0. TypeInv /\ TypeOK /\ HasCall /\ NotStarted
  BY DEF Inv, TypeInv, LedgerInv
<1>1. ASSUME NEW t \in Turn, ChatRequest(t) PROVE ReachInv'
  <2>1. /\ \E p \in {"ready", "creating"} : pc' = [pc EXCEPT ![t] = p]
        /\ \A u \in Turn \ {t} : agentOf'[u] = agentOf[u]
        /\ UNCHANGED <<controller, stopped, runRow, aborted, cur, approvalRow>>
    BY <1>0, <1>1 DEF ChatRequest
  <2> QED BY <1>0, <2>1
<1>2. ASSUME NEW t \in Turn, AgentCreated(t) PROVE ReachInv'
  BY <1>0, <1>2 DEF AgentCreated
<1>3. ASSUME NEW t \in Turn, PreparationFails(t) PROVE ReachInv'
  BY <1>0, <1>3 DEF PreparationFails
<1>4. ASSUME NEW t \in Turn, StartRun(t) PROVE ReachInv'
  <2>1. t \notin stopped /\ t \notin Rename
    BY <1>0, <1>4 DEF StartRun, NotStarted, OwnInv, OwnAgents
  <2>2. ASSUME NEW u \in Turn \ Rename, u # t, pc[u] \in Running
        PROVE  agentOf[u] # agentOf[t]
    <3>1. Active(u) /\ Active(t)
      BY <1>4, <2>2 DEF StartRun, Active
    <3>2. agentOf[u] # None
      BY <2>2 DEF OwnInv, CurrentAgent
    <3> QED BY <2>2, <3>1, <3>2 DEF OwnInv, OneAtATime, OwnAgents
  <2>3. agentOf[t] \in Turn
    BY <1>0, <1>4, <2>1 DEF StartRun, OwnInv, CurrentAgent
  <2>4. AbortReaches'
    BY <1>0, <1>4, <2>1, <2>2, <2>3 DEF StartRun
  <2>5. StoppedIsAborted'
    BY <1>0, <1>4, <2>1 DEF StartRun
  <2> QED BY <2>4, <2>5
<1>5. ASSUME NEW t \in Turn, SlashCommand(t) PROVE ReachInv'
  BY <1>0, <1>5 DEF SlashCommand
<1>6. ASSUME NEW t \in Turn, LoopStep(t) PROVE ReachInv'
  <2>1. /\ pc[t] \in Running \ {"ending"}
        /\ UNCHANGED <<controller, agentOf, stopped, runRow, aborted>>
    BY <1>0, <1>6, LoopMoves DEF AgentStep
  <2>2. PICK p \in Running : pc' = [pc EXCEPT ![t] = p]
    BY <1>0, <1>6, LoopMoves
  <2>3. AbortReaches'
    BY <1>0, <2>1, <2>2
  <2>4. \A u \in Turn \ {t} : cur'[u] = cur[u] /\ pc'[u] = pc[u]
    BY <1>0, <1>6, <2>2, LoopAsks
  <2>5. \A u \in Turn \ {t} : pc[u] \in {"offered", "waiting"} =>
          approvalRow'[cur[u]] = approvalRow[cur[u]]
    BY <1>0, <1>6, LoopAsks DEF HasCall
  <2>6. t \in stopped /\ pc'[t] \in {"offered", "waiting"} =>
          pc[t] = "offered" /\ cur'[t] = cur[t] /\ UNCHANGED approvalRow
    BY <1>0, <1>6, <2>1, LoopAsks
  <2>7. StoppedIsAborted'
    BY <1>0, <2>1, <2>4, <2>5, <2>6
  <2> QED BY <2>3, <2>7
<1>7. ASSUME NEW t \in Turn, TurnTimeout(t) PROVE ReachInv'
  BY <1>0, <1>7 DEF TurnTimeout
<1>8. ASSUME NEW t \in Turn, NEW status \in {"completed", "failed"}, Finalize(t, status),
             pc[t] \in Running
      PROVE ReachInv'
  <2>1. ASSUME NEW u \in Turn \ Rename, u # t, pc[u] \in Running
        PROVE  controller'[agentOf[u]] = controller[agentOf[u]]
    <3>1. Active(u) /\ Active(t)
      BY <1>8, <2>1 DEF Active
    <3>2. agentOf[u] # agentOf[t]
      BY <2>1, <3>1 DEF OwnInv, OneAtATime, OwnAgents, CurrentAgent
    <3>3. agentOf[t] = None \/ controller' = [controller EXCEPT ![agentOf[t]] = None]
      BY <1>8 DEF Finalize
    <3>4. agentOf[t] = None => UNCHANGED controller
      BY <1>8 DEF Finalize
    <3>5. agentOf[u] \in Turn
      BY <1>0, <2>1 DEF OwnInv, CurrentAgent
    <3> QED BY <1>0, <3>2, <3>3, <3>4, <3>5
  <2>2. AbortReaches'
    BY <1>0, <1>8, <2>1 DEF Finalize
  <2>3. StoppedIsAborted'
    BY <1>0, <1>8 DEF Finalize, FinishRows
  <2> QED BY <2>2, <2>3
<1>9. ASSUME NEW t \in Turn, Finish(t) \/ Disconnect(t) PROVE ReachInv'
  BY <1>0, <1>8, <1>9 DEF Finish, Disconnect
<1>10. ASSUME NEW t \in Turn, DisconnectRename(t) PROVE ReachInv'
  BY <1>0, <1>10 DEF DisconnectRename
<1>11. ASSUME NEW c \in Call, SettlingStep(c) PROVE ReachInv'
  <2>1. ElsewhereUnchanged
    BY <1>11, SettlingKeeps
  <2>2. \A d \in Call : approvalRow'[d] = approvalRow[d] \/ approvalRow[d] = "pending"
    BY <1>0, <1>11 DEF SettlingStep, Approve, ApprovalTimeout, Answer, QuestionTimeout, ResolveRows
  <2> QED BY <1>0, <2>1, <2>2 DEF ElsewhereUnchanged, HasCall
<1>12. ASSUME NEW sessions \in SUBSET Session, Quiet, CancelSessions(sessions),
              aborted' = aborted \union Reached(sessions), UNCHANGED <<agentVars, pc, agentOf, cur>>
       PROVE ReachInv'
  BY <1>12, StopReaches
<1>13. ASSUME NEW s \in Session, Stop(s) PROVE ReachInv'
  BY <1>12, <1>13 DEF Stop, StopUnchanged, Tick
<1>14. ASSUME NEW s \in Session, Destroy(s) PROVE ReachInv'
  BY <1>12, <1>14 DEF Destroy, StopUnchanged, Tick
<1>15. CASE StopAll
  BY <1>12, <1>15 DEF StopAll, StopUnchanged, Tick
<1>16. CASE Flush
  BY <1>0, <1>16 DEF Flush, StopUnchanged, FinishRows, ResolveRows, HasCall
<1>17. CASE Crash
  BY <1>0, <1>17 DEF Crash
<1>18. CASE Restart
  BY <1>0, <1>18 DEF Restart, FinishRows, ResolveRows, HasCall
<1>19. CASE UNCHANGED vars
  BY <1>0, <1>19 DEF vars
<1> QED BY <1>1, <1>2, <1>3, <1>4, <1>5, <1>6, <1>7, <1>9, <1>10, <1>11, <1>13, <1>14, <1>15,
           <1>16, <1>17, <1>18, <1>19, StepCases

-----------------------------------------------------------------------------
(* Tokens                                                                  *)
-----------------------------------------------------------------------------
(* A step issues no token but that of a call an operator has just          *)
(* approved, and runs no tool whose row is not approved.                   *)
LEMMA TokensOfStep ==
  ASSUME Inv, NoTwins, TokenInv, [Next]_vars
  PROVE  /\ \A k \in capability' \ capability : \E d \in Call :
              /\ callTurn'[d] # None /\ k = Token(callTurn'[d], d)
              /\ approvalRow'[d] = "approve_once"
         /\ \A c \in executed' \ executed : approvalRow'[c] = "approve_once"
<1> DEFINE P == /\ \A k \in capability' \ capability : \E d \in Call :
                     /\ callTurn'[d] # None /\ k = Token(callTurn'[d], d)
                     /\ approvalRow'[d] = "approve_once"
                /\ \A c \in executed' \ executed : approvalRow'[c] = "approve_once"
<1>0. TypeOK /\ HasCall /\ DeniedWithoutMeta
  BY DEF Inv, TypeInv, GrantInv
<1>1. ASSUME NEW c \in Call, Approve(c, TRUE) PROVE P
  <2>1. UNCHANGED <<callTurn, executed>>
    BY <1>1 DEF Approve, ElsewhereUnchanged
  <2>2. ASSUME NEW k \in capability' \ capability
        PROVE  /\ callTurn[c] # None /\ k = Token(callTurn[c], c)
               /\ approvalRow'[c] = "approve_once"
    <3>1. c \in meta /\ k = Token(callTurn[c], c)
      BY <1>1, <2>2 DEF Approve
    <3>2. approvalRow[c] = "pending"
      BY <1>0, <3>1 DEF DeniedWithoutMeta
    <3> QED BY <1>0, <1>1, <3>1, <3>2 DEF HasCall, Approve, ResolveRows
  <2> QED BY <2>1, <2>2
<1>2. ASSUME NEW t \in Turn, WakeApproved(t) PROVE P
  <2>1. capability' \subseteq capability /\ UNCHANGED <<approvalRow, callTurn>>
    BY <1>2 DEF WakeApproved, LoopBlocks, CloseFailed, Execute, AgentStep
  <2>2. ASSUME NEW c \in executed' \ executed
        PROVE  approvalRow[c] = "approve_once"
    <3>1. c = cur[t] /\ Token(t, c) \in capability /\ pc[t] = "waiting"
      BY <1>2, <2>2 DEF WakeApproved, LoopBlocks, CloseFailed, Execute
    <3>2. c \in Call /\ callTurn[c] = t
      BY <1>0, <3>1 DEF HasCall
    <3>3. PICK d \in Call : /\ callTurn[d] # None /\ Token(t, c) = Token(callTurn[d], d)
                            /\ approvalRow[d] = "approve_once"
      BY <3>1 DEF TokenInv, TokensAreGranted
    <3>4. c = d
      BY <3>2, <3>3 DEF NoTwins
    <3> QED BY <3>3, <3>4
  <2> QED BY <2>1, <2>2
<1>3. ASSUME NEW t \in Turn, NEW c \in Call, CallStep(t, c) PROVE P
  <2>1. CASE RunUnasked(t, c)
    BY <1>0, <2>1 DEF RunUnasked, Take, LoopBlocks, CloseFailed, Execute, AgentStep
  <2>2. CASE ~RunUnasked(t, c)
    <3>1. UNCHANGED <<capability, executed>>
      BY <1>3, <2>2 DEF CallStep, ModelEmitsCall, Offer, WaitUnannounced, OfferQuestion, AgentStep
    <3> QED BY <3>1
  <2> QED BY <2>1, <2>2
<1>4. ASSUME NEW t \in Turn, TurnStep(t), ~WakeApproved(t) PROVE P
  <2>1. capability' \subseteq capability /\ UNCHANGED executed
    BY <1>4 DEF TurnStep, ChatRequest, AgentCreated, PreparationFails, StartRun, SlashCommand,
         ModelRetries, ModelAsksForTools, ModelEnds, SeeAbort, NextRound, Register, WakeRejected,
         WakeAnswered, ToolReturns, TurnTimeout, Finish, Disconnect, DisconnectRename, Finalize,
         CloseFailed, AgentStep
  <2> QED BY <2>1
<1>5. CASE /\ ~\E t \in Turn : TurnStep(t)
           /\ ~\E t \in Turn, c \in Call : CallStep(t, c)
           /\ ~\E c \in Call : Approve(c, TRUE)
  <2>1. capability' \subseteq capability /\ UNCHANGED executed
    BY <1>5 DEF Next, Approve, ApprovalTimeout, Answer, QuestionTimeout, Stop, Destroy, StopAll,
         Flush, Crash, Restart, ElsewhereUnchanged, StopUnchanged, vars
  <2> QED BY <2>1
<1> QED BY <1>1, <1>2, <1>3, <1>4, <1>5

(* No row that says approve_once is written again, and no call changes     *)
(* hands.                                                                  *)
LEMMA ApprovalIsFinal ==
  ASSUME Inv, [Next]_vars, NEW c \in Call
  PROVE  /\ approvalRow[c] = "approve_once" => approvalRow'[c] = "approve_once"
         /\ callTurn[c] # None => callTurn'[c] = callTurn[c]
<1>1. RowsMove
  BY RowsNext DEF Inv
<1>2. approvalRow[c] = "approve_once" => approvalRow'[c] = "approve_once"
  BY <1>1 DEF RowsMove, Ledger!ApprovalMoves, Ledger!ApprovalOutcomes
<1>3. TypeOK
  BY DEF Inv, TypeInv
<1>4. ASSUME NEW t \in Turn, NEW d \in Call, CallStep(t, d)
      PROVE  callTurn[c] # None => callTurn'[c] = callTurn[c]
  BY <1>3, <1>4 DEF CallStep, ModelEmitsCall, RunUnasked, Offer, WaitUnannounced, OfferQuestion
<1>5. ASSUME NEW t \in Turn, TurnStep(t)
      PROVE  UNCHANGED callTurn
  BY <1>5 DEF TurnStep, ChatRequest, AgentCreated, PreparationFails, StartRun, SlashCommand,
         ModelRetries, ModelAsksForTools, ModelEnds, SeeAbort, NextRound, Register, WakeRejected,
         WakeAnswered, WakeApproved, ToolReturns, TurnTimeout, Finish, Disconnect,
         DisconnectRename, Finalize
<1>6. CASE /\ ~\E t \in Turn : TurnStep(t)
           /\ ~\E t \in Turn, d \in Call : CallStep(t, d)
  BY <1>6, <1>2 DEF Next, Approve, ApprovalTimeout, Answer, QuestionTimeout, Stop, Destroy, StopAll,
         Flush, Crash, Restart, ElsewhereUnchanged, StopUnchanged, vars
<1> QED BY <1>2, <1>4, <1>5, <1>6

(* A token stands for an approved call for good, and so does a tool run.   *)
LEMMA TokenNext ==
  ASSUME Inv, NoTwins, TokenInv, [Next]_vars
  PROVE  TokenInv'
<1>1. TypeOK /\ TypeOK'
  BY TypeNext DEF Inv, TypeInv
<1>2. RowOfExecutedIsApproved'
  BY <1>1, TokensOfStep, ApprovalIsFinal DEF TokenInv, RowOfExecutedIsApproved
<1>3. ASSUME NEW k \in capability'
      PROVE  \E d \in Call : /\ callTurn'[d] # None /\ k = Token(callTurn'[d], d)
                             /\ approvalRow'[d] = "approve_once"
  <2>1. CASE k \in capability
    <3>1. PICK d \in Call : /\ callTurn[d] # None /\ k = Token(callTurn[d], d)
                            /\ approvalRow[d] = "approve_once"
      BY <2>1 DEF TokenInv, TokensAreGranted
    <3>2. callTurn'[d] = callTurn[d] /\ approvalRow'[d] = "approve_once"
      BY <3>1, ApprovalIsFinal
    <3> QED BY <3>1, <3>2
  <2>2. CASE k \notin capability
    BY <2>2, TokensOfStep
  <2> QED BY <2>1, <2>2
<1> QED BY <1>2, <1>3 DEF TokenInv, TokensAreGranted, Token

(* A tool starts when the loop takes a call nobody has to approve, or when *)
(* it goes on after a yes.                                                 *)
LEMMA ToolStarts ==
  ASSUME TypeInv, [Next]_vars, NEW t \in Turn, pc'[t] = "executing", pc[t] # "executing"
  PROVE  WakeApproved(t) \/ \E c \in Call : RunUnasked(t, c)
<1>1. ASSUME NEW u \in Turn, LoopStep(u)
      PROVE  WakeApproved(t) \/ \E c \in Call : RunUnasked(t, c)
  <2>1. u = t
    BY <1>1, LoopMoves
  <2>2. ~\E c \in Call : ModelEmitsCall(t, c) \/ Offer(t, c) \/ WaitUnannounced(t, c)
                            \/ OfferQuestion(t, c)
    BY DEF ModelEmitsCall, Offer, WaitUnannounced, OfferQuestion
  <2>3. /\ ~ModelRetries(t) /\ ~ModelAsksForTools(t) /\ ~ModelEnds(t) /\ ~SeeAbort(t)
        /\ ~NextRound(t) /\ ~Register(t) /\ ~WakeRejected(t) /\ ~WakeAnswered(t)
        /\ ~ToolReturns(t)
    BY DEF ModelRetries, ModelAsksForTools, ModelEnds, SeeAbort, NextRound, Register, WakeRejected,
         WakeAnswered, ToolReturns, EndWith, CloseFailed
  <2> QED BY <1>1, <2>1, <2>2, <2>3 DEF LoopStep, CallStep
<1>2. ASSUME NEW u \in Turn,
             \/ ChatRequest(u) \/ AgentCreated(u) \/ PreparationFails(u) \/ StartRun(u)
             \/ SlashCommand(u) \/ TurnTimeout(u) \/ Finish(u) \/ Disconnect(u)
             \/ DisconnectRename(u)
      PROVE  FALSE
  BY <1>2 DEF ChatRequest, AgentCreated, PreparationFails, StartRun, SlashCommand, TurnTimeout,
       Finish, Disconnect, DisconnectRename, Finalize
<1>3. ASSUME NEW c \in Call, SettlingStep(c) PROVE FALSE
  BY <1>3, SettlingKeeps DEF ElsewhereUnchanged
<1>4. CASE \/ \E s \in Session : Stop(s) \/ Destroy(s)
           \/ StopAll \/ Flush \/ Crash \/ Restart \/ UNCHANGED vars
  BY <1>4 DEF Stop, Destroy, StopAll, Flush, Crash, Restart, StopUnchanged, vars
<1> QED BY <1>1, <1>2, <1>3, <1>4, StepCases

-----------------------------------------------------------------------------
(* The theorems                                                            *)
-----------------------------------------------------------------------------
HIDE DEF TypeInv, TypeOK

(* No save drops a turn that was stored, and a turn that ends under the    *)
(* agent it began with is stored, however turns, stops and crashes overlap.*)
THEOREM FinishedTurnsKept == Spec => FinishedTurnsAreKept
<1>1. Init => SavedInv
  BY DEF Init, SavedInv, OwnAgents, AgentsExist, LogsGrow
<1>2. Inv /\ SavedInv /\ [Next]_vars => SavedInv'
  BY SavedNext DEF Inv, LedgerInv
<1>3. Inv /\ SavedInv /\ [Next]_vars
      => [/\ \A s \in Session : transcript[s] \subseteq transcript'[s]
          /\ \A t \in Turn \ Rename :
               /\ pc[t] # "done" /\ pc'[t] = "done" /\ runRow[t] # "none" /\ up'
               /\ TurnSession[t] \in live /\ agentOf[t] = sessionAgent[TurnSession[t]]
               => t \in transcript'[TurnSession[t]]]_vars
  BY SavedNext DEF Inv, LedgerInv
<1> QED BY <1>1, <1>2, <1>3, Invariance, PTL DEF Spec, FinishedTurnsAreKept

(* The approval row of a tool that ran says approve_once, however turns    *)
(* overlap, as long as no two calls of a session ask for the same.         *)
THEOREM ExecutedRowsAreApproved == Spec /\ []NoTwins => []RowOfExecutedIsApproved
<1>1. Init => TokenInv
  BY DEF Init, TokenInv, TokensAreGranted, RowOfExecutedIsApproved
<1>2. Inv /\ NoTwins /\ TokenInv /\ [Next]_vars => TokenInv'
  BY TokenNext
<1>3. TokenInv => RowOfExecutedIsApproved
  BY DEF TokenInv
<1> QED BY <1>1, <1>2, <1>3, Invariance, PTL DEF Spec

(* A stopped turn starts no further tool, if clients send one turn at a    *)
(* time and no two calls of a session ask for the same.                    *)
THEOREM StopsAreFinal == ~Overlap => (Spec /\ []NoTwins => StopIsFinal)
<1> SUFFICES ASSUME ~Overlap PROVE Spec /\ []NoTwins => StopIsFinal
  OBVIOUS
<1>1. Init => OwnInv /\ ReachInv /\ TokenInv
  BY DEF Init, OwnInv, OneAtATime, OwnAgents, CurrentAgent, Active, ReachInv, AbortReaches,
         StoppedIsAborted, TokenInv, TokensAreGranted, RowOfExecutedIsApproved
<1>2. /\ Inv /\ OwnInv /\ ReachInv /\ TokenInv /\ NoTwins /\ [Next]_vars
      => (OwnInv /\ ReachInv /\ TokenInv)'
  BY OwnNext, ReachNext, TokenNext DEF Inv
<1>3. /\ Inv /\ ReachInv /\ TokenInv /\ NoTwins /\ [Next]_vars
      => [\A t \in stopped : pc'[t] = "executing" => pc[t] = "executing"]_vars
  <2> SUFFICES ASSUME Inv, ReachInv, TokenInv, NoTwins, [Next]_vars,
                      NEW t \in stopped, pc'[t] = "executing", pc[t] # "executing"
               PROVE  FALSE
    OBVIOUS
  <2>0. TypeInv /\ TypeOK /\ HasCall
    BY DEF Inv, TypeInv
  <2>1. t \in Turn
    BY <2>0 DEF TypeOK
  <2>2. CASE \E c \in Call : RunUnasked(t, c)
    BY <2>2 DEF RunUnasked, Take, ReachInv, StoppedIsAborted
  <2>3. CASE WakeApproved(t)
    <3>1. cur[t] \notin Question /\ Token(t, cur[t]) \in capability /\ pc[t] = "waiting"
      BY <2>0, <2>1, <2>3 DEF WakeApproved, LoopBlocks, CloseFailed, Execute, TypeOK
    <3>2. cur[t] \in Call /\ callTurn[cur[t]] = t
      BY <2>0, <2>1, <3>1 DEF HasCall
    <3>3. approvalRow[cur[t]] = "approve_once"
      BY <2>1, <3>1, <3>2 DEF TokenInv, TokensAreGranted, NoTwins
    <3> QED BY <3>1, <3>3 DEF ReachInv, StoppedIsAborted, Granted
  <2> QED BY <2>0, <2>1, <2>2, <2>3, ToolStarts
<1> QED BY <1>1, <1>2, <1>3, Invariance, PTL DEF Spec, StopIsFinal
=============================================================================
