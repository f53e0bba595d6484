--------------------------- MODULE ChatProperties ---------------------------
(***************************************************************************)
(* What the chat turns of the gateway have to guarantee, and what its      *)
(* clients may count on in the operational store.                          *)
(***************************************************************************)
EXTENDS ChatTurns

(* The store as the abstract ledger of runs and approvals. *)
Ledger == INSTANCE RunLedger WITH run <- runRow, approval <- approvalRow

(* Run and approval rows move only forward: a stop racing the turn's own   *)
(* end, a timer racing an operator's answer, a shutdown and the sweep of   *)
(* the next start never rewrite a row another one has settled.             *)
LedgerIsMonotone == Ledger!SafeSpec

(* coordinator.activeRunsBySession never names a run that is over: what    *)
(* stop and shutdown read there is a running row, of a turn still alive    *)
(* unless it is a /rename.                                                 *)
ActiveRunIsRunning ==
  \A s \in Session : activeRun[s] # None =>
    /\ TurnSession[activeRun[s]] = s
    /\ runRow[activeRun[s]] = "running"
    /\ pc[activeRun[s]] \in Running \/ activeRun[s] \in Rename

(* While the engine is up every running row of a chat belongs to a turn    *)
(* that will still finish it: no path out of chat.stream, no shutdown and  *)
(* no restart leaves a run listed as running for ever, whoever has taken   *)
(* the session's active run over.  (The /rename branch has no finally.)    *)
ChatRunsHaveTurns ==
  up => \A t \in Turn \ Rename : runRow[t] = "running" => pc[t] \in Running

(* pendingApprovals and pendingQuestions hold exactly the promises the     *)
(* turns wait on: nobody waits on a promise that can no longer be settled, *)
(* and no settled or abandoned promise can be settled again.               *)
WaitersAreResolvable ==
  resolvers \union questions =
    {cur[t] : t \in {x \in Turn : pc[x] = "waiting" /\ verdict[cur[x]] = "none"}}

(* No tool that needs an approval runs without an operator's yes for that  *)
(* very call, although the broker only looks for a token of the intent,    *)
(* which another call with the same intent may have left behind.           *)
RunsOnlyApproved ==
  \A c \in executed : Required(c) => c \in userApproved

(* A call on the host whose approval was granted gets its token: the       *)
(* broker does not refuse it because another call, turn or session with    *)
(* the same intent took the token, or because the token never came.        *)
GrantedIsNotRefused ==
  \A c \in refused : NeedsIntent(c) => approvalRow[c] # "approve_once"

(* The approval row of a tool that ran says approve_once: a stop, a timer  *)
(* or a shutdown that denied the row has also kept the tool from running.  *)
RowOfExecutedIsApproved ==
  \A c \in executed : approvalRow[c] = "approve_once"

(* A turn that was the session's active run when the session was stopped   *)
(* or destroyed starts no further tool; the one it is running may end.     *)
(* (chat.stopAll does not reach the turn of a session destroyed while the  *)
(* run was being prepared: that run counts as cancelled, not as stopped.)  *)
StopIsFinal ==
  [][\A t \in stopped : pc'[t] = "executing" => pc[t] = "executing"]_vars

(* What a turn said is kept, however turns, stops, shutdowns and crashes   *)
(* overlap: a save never drops a turn an earlier save has stored, although *)
(* it writes the messages of whatever agent the session has by then, and a *)
(* turn that ends under the agent it began with is stored when it ends.    *)
(* (Two first turns of a session may each create an agent: the turn whose  *)
(* agent was replaced meanwhile is the one that is not stored.)            *)
FinishedTurnsAreKept ==
  [][/\ \A s \in Session : transcript[s] \subseteq transcript'[s]
     /\ \A t \in Turn \ Rename :
          /\ pc[t] # "done" /\ pc'[t] = "done" /\ runRow[t] # "none" /\ up'
          /\ TurnSession[t] \in live /\ agentOf[t] = sessionAgent[TurnSession[t]]
          => t \in transcript'[TurnSession[t]]]_vars

-----------------------------------------------------------------------------
(* What the event loop, the provider, the tools and the timers owe a turn. *)
(* A client owes it nothing but to pull, which the WebSocket server does   *)
(* on its behalf.                                                          *)
Fairness ==
  /\ \A t \in Turn :
       /\ WF_vars(AgentCreated(t) \/ PreparationFails(t))
       /\ WF_vars(StartRun(t))
       /\ WF_vars(ModelAsksForTools(t) \/ ModelEnds(t))
       /\ WF_vars(SeeAbort(t) \/ NextRound(t) \/ \E c \in Call : CallStep(t, c) /\ pc[t] = "tools")
       /\ WF_vars(Register(t))
       /\ WF_vars(WakeRejected(t) \/ WakeAnswered(t) \/ WakeApproved(t))
       /\ WF_vars(ToolReturns(t))
       /\ WF_vars(Finish(t))
  /\ \A c \in Call : WF_vars(ApprovalTimeout(c)) /\ WF_vars(QuestionTimeout(c))
  /\ WF_vars(Restart)

FairSpec == Spec /\ Fairness

(* Every run is settled in the end, whatever the clients do and however    *)
(* often the process dies, provided it is started again.                   *)
EveryRunSettles == Ledger!EveryRunSettles

(* No turn waits for ever on an answer that does not come. *)
EveryWaitEnds == \A t \in Turn : (pc[t] = "waiting") ~> (pc[t] # "waiting")
=============================================================================
