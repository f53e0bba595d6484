------------------------- MODULE DispatchProperties -------------------------
(* What the rows of project work promise, and while operators avoid what.  *)
EXTENDS Dispatches

Without(lapses) == lapse \cap lapses = {}
Status(d) == IF dispatch[d] = None THEN None ELSE dispatch[d].status

\* A dispatch that is accepted, running or waiting has an execution that is
\* still going to settle it.  Only the death of a process breaks this: events
\* are written over any status, but an execution's last one is a settled one.
StartedIsUnderWay ==
  Without({"crash"}) =>
    \A d \in Dispatch : Status(d) \in Started => UnderWay(dispatch[d].exec)

\* The planner never has two dispatches open on one thread and task, whatever
\* operators do to the thread's status and task while it plans or its work is
\* done, whatever process does it and whatever crashes: only a plan made while
\* another is being written, a cancellation between an execution's check and its
\* write, and a settled dispatch run or queued again get it there.
PlannedAlone ==
  Without({"again", "overlap"}) =>
    \A d, c \in planned :
      /\ Status(d) \in Active /\ Status(c) \in Active
      /\ dispatch[d].thread = dispatch[c].thread
      /\ dispatch[d].task = dispatch[c].task
      => d = c

\* Materializing a handoff queues its dispatch once: when work on it has begun
\* it is not put back in the queue, however plans, runs and cancellations come
\* in between.  It is when the process dies, or another one serves the same
\* handoff, between queueing the dispatch and attaching it.
NotQueuedTwice ==
  [][\A h \in Handoff :
       LET d == DispatchOf(h)
       IN Status(d) \notin {None, "queued"} /\ Status(d)' = "queued"
            => lapse' \cap {"crash", "overlap", "again"} # {}]_vars

\* A cancelled dispatch is cancelled for good: whatever its execution still
\* does, in the engine or in another process, it leaves neither a status nor
\* results, unless the cancellation comes between a check and its write.
CancelIsFinal ==
  [][\A d \in Dispatch :
       Status(d) = "cancelled" =>
         \/ Status(d)' \in {"cancelled", "queued"} /\ artifact'[d] = artifact[d]
         \/ lapse' \cap {"again", "overlap"} # {}]_vars

-----------------------------------------------------------------------------
(* The event loop goes on, a turn of the agent comes to its end (its timer  *)
(* of ten minutes), and a process that is alive makes its statements.       *)
Fairness == /\ \A e \in Exec : WF_vars(Runner(e))
            /\ \A p \in Process : WF_vars(Write(p))
FairSpec == Spec /\ Fairness

\* A dispatch on which work has begun is settled in the end, however its
\* execution ends, whatever is cancelled and however often it is run: unless a
\* process dies, whose dispatches nobody settles.
StartedSettles ==
  \A d \in Dispatch :
    Status(d) \in Started ~> Status(d) \in Settled \/ "crash" \in lapse
=============================================================================
