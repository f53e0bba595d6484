------------------------ MODULE EngineHomeProperties ------------------------
(* What the files of a home say of its engine, and what a restart promises. *)
EXTENDS EngineHome

Without(lapses) == lapse \intersect lapses = {}

\* An engine at work has its run marked running: no other process opens the
\* store under it and marks it interrupted, unless a command is given while
\* another is under way or an engine is coming or going, or opens a runtime of
\* its own beside the engine.
WorkIsNotSwept ==
  Without({"overlap", "cli"}) => busy \subseteq recorded

\* A running engine can be found, by stop and by everything that wants a
\* client: its pid and its url are in their files, whatever has crashed or been
\* broken off before.
EngineIsFound ==
  Without({"overlap"}) =>
    \A e \in Engine : life[e] = "running" => pidFile = e /\ urlFile

\* The token in the home is the one the engine accepts, if no other process
\* lives any more when it looks whether it is there, and none comes: looking
\* once is enough against a cleanup or a token that comes earlier.
TokenIsAccepted ==
  \A e \in Engine \ disturbed : life[e] = "running" => tokenFile = e

\* An engine that shuts down starts another one only if it was asked to
\* restart, or if one that was has died before its signal came and has left its
\* marker.
RestartIsAsked ==
  Without({"overlap"}) =>
    \A e \in again : e \in asked \/ \E x \in asked \ again : life[x] = "dead"

-----------------------------------------------------------------------------
\* Engines come up and shut down.
Fairness ==
  /\ \A p \in Proc : WF_vars(Boot(p))
  /\ \A e \in Engine : WF_vars(End(e))

FairSpec == Spec /\ Fairness

\* An engine that is asked to restart is followed by one that runs, if nobody
\* interferes and it shuts down in its five seconds.
RestartComesBack ==
  \A e \in Engine :
    e \in due ~> lapse # {} \/ \E x \in Engine \ {e} : life[x] = "running"
=============================================================================
