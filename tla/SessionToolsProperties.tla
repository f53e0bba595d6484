----------------------- MODULE SessionToolsProperties -----------------------
(* What checkpoints and sub-agents promise to the user of a session.        *)
EXTENDS SessionTools

\* A tool that names its directory to the checkpoints and makes the first change
\* of its agent's turn there can be undone, if no other agent used the directory
\* meanwhile: what it changes is in a snapshot (or the directory is empty, or git
\* has failed).  Marks are shared by all agents and survive the turn that made
\* them, so this rests on everybody's newTurn, and on that of a sub-agent
\* clearing those of its parent.  Nothing is said of bare calls: a first change
\* by bash, by a write or edit of a `path`, by most commands, or with checkpoints
\* disabled is in no snapshot of its turn.
UndoIsPossible ==
  [][\A a \in Agent, d \in Dir :
       /\ d \in touched'[a] \ touched[a] /\ call[a].pc # "bare"
       /\ d \in alone[a]
       => tree[d] \in snaps[d] \union {Nothing}]_vars

\* Files that are to be excluded (.env, node_modules) get into a snapshot only
\* of a repository that a crash has left half made, or that another agent has
\* found half made after the marks of its maker had been cleared.
ExcludesAreRespected ==
  [][\A d \in Dir : snaps'[d] # snaps[d] /\ repo'[d] # "ready" => d \in torn']_vars

\* The sub-agents at work in the background are those an orchestrator counts,
\* never more than it may run, and those it was told to cancel.
SlotsAreRespected ==
  \A s \in Session :
    /\ Cardinality(running[s]) <= MaxConcurrent
    /\ {b \in Sub \ sync : phase[b] = "working" /\ owner[b] = s}
         = running[s] \union cancelled[s]
    /\ running[s] \intersect cancelled[s] = {}

-----------------------------------------------------------------------------
\* A sub-agent comes to its end (its timer, looked at between its tools), and
\* so do git and the tools.
Fairness ==
  /\ \A b \in Sub : SF_vars(Finish(b))
  /\ \A a \in Agent : WF_vars(ToolStep(a))

FairSpec == Spec /\ Fairness

\* A queued sub-agent gets its turn, unless a cancellation frees the last slot of
\* its session: then nobody looks at the queue.
QueuedStarts ==
  \A b \in Sub :
    phase[b] = "queued" ~> phase[b] # "queued" \/ owner[b] \in idled
=============================================================================
