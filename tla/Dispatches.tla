----------------------------- MODULE Dispatches -----------------------------
(***************************************************************************)
(* Project work: tasks, threads, handoffs and the dispatches that run the  *)
(* work.  All of it is rows of aria.db, which the engine's gateway and the *)
(* commands of the CLI write, each in a process of its own.                *)
(*                                                                         *)
(* Grain.  A statement of SQLite is atomic, and so is a read with the      *)
(* write that follows it directly.  An operation that goes on writing what *)
(* it read or decided before leaves the statements it has still to make in *)
(* todo of its process, and other processes come in between.  Within the   *)
(* engine nothing comes between the statements of one synchronous section. *)
(***************************************************************************)
EXTENDS Naturals, Sequences, FiniteSets, Functions

CONSTANTS
  Dispatch, Thread, Task, Handoff,
  Exec,            \* executions; their number is a bound
  Cli,             \* processes of the CLI
  Engine,          \* the process of the engine
  DispatchOf(_),   \* the id a handoff's dispatch is given: dispatch:<handoffId>
  SetStatus,       \* the statuses operators give to threads
  MaxLapses,       \* bound: kinds of lapse in one behaviour
  None

ASSUME DispatchAssumption ==
  /\ \A h \in Handoff : DispatchOf(h) \in Dispatch
  /\ \A h, i \in Handoff : DispatchOf(h) = DispatchOf(i) => h = i
  /\ Engine \notin Cli
  /\ None \notin Dispatch \union Thread \union Task \union Exec \union Cli \union {Engine}

VARIABLES
  task,      \* projects_tasks: may the task be run?
  thread,    \* projects_threads
  dispatch,  \* projects_dispatches
  handoff,   \* projects_handoffs, by idempotency key
  artifact,  \* projects_artifacts: the executions whose results a dispatch has
  todo,      \* the statements each process has still to make
  exec,      \* the executions
  planned,   \* history: dispatches made by the planner
  lapse      \* history: crashes, races, and dispatches run or queued again

rows  == <<task, thread, dispatch, handoff, artifact>>
vars  == <<rows, todo, exec, planned, lapse>>

Process == Cli \union {Engine}

ThreadStatus   == {"idle", "dirty", "queued", "running", "blocked", "done", "failed",
                   "cancelled"}
Settled        == {"completed", "failed", "cancelled"}
Started        == {"accepted", "running", "waiting_approval"}
Active         == {"queued"} \union Started
DispatchStatus == Active \union Settled

ASSUME StatusAssumption == SetStatus \subseteq ThreadStatus /\ MaxLapses \in Nat

ThreadRow   == [status: ThreadStatus, task: Task \union {None}]
DispatchRow == [status: DispatchStatus, thread: Thread, task: Task \union {None},
                exec: Exec \union {None}]
HandoffRow  == [thread: Thread, task: Task \union {None}, dispatch: Dispatch \union {None}]
ASSUME NoRowAssumption ==
  /\ None \notin ThreadRow \union DispatchRow \union HandoffRow
  /\ None \notin DispatchStatus
Lapses      == {"crash", "overlap", "again"}

ExecPhases == {"free", "accepting", "chatting", "ended", "reporting", "done", "dead"}
Outcomes   == {"completed", "failed"}
Execution  == [pc: ExecPhases, dispatch: Dispatch \union {None},
               by: Process \union {None}, outcome: Outcomes, asked: BOOLEAN]
NoExec     == [pc |-> "free", dispatch |-> None, by |-> None, outcome |-> "completed",
               asked |-> FALSE]

\* The statements operations leave for later.
Queue(d, x, k, who)   == [do |-> "queue", d |-> d, thread |-> x, task |-> k, who |-> who]
PutThread(x, row)     == [do |-> "thread", thread |-> x, row |-> row]
Requeue(x)            == [do |-> "requeue", thread |-> x]
Attach(h, d)          == [do |-> "attach", h |-> h, d |-> d]
PutHandoff(h, row)    == [do |-> "handoff", h |-> h, row |-> row]
Accept(d, e)          == [do |-> "accept", d |-> d, e |-> e]
Event(d, e, status)   == [do |-> "event", d |-> d, e |-> e, status |-> status]
Results(d, e)         == [do |-> "results", d |-> d, e |-> e]

Statement ==
       {Queue(d, x, k, w) : d \in Dispatch, x \in Thread, k \in Task \union {None},
                            w \in {"planner", "handoff"}}
  \union {PutThread(x, r) : x \in Thread, r \in ThreadRow}
  \union {Requeue(x) : x \in Thread}
  \union {Attach(h, d) : h \in Handoff, d \in Dispatch}
  \union {PutHandoff(h, r) : h \in Handoff, r \in HandoffRow}
  \union {Accept(d, e) : d \in Dispatch, e \in Exec}
  \union {Event(d, e, s) : d \in Dispatch, e \in Exec, s \in DispatchStatus}
  \union {Results(d, e) : d \in Dispatch, e \in Exec}

TypeOK ==
  /\ task \in [Task -> BOOLEAN]
  /\ thread \in [Thread -> ThreadRow \union {None}]
  /\ dispatch \in [Dispatch -> DispatchRow \union {None}]
  /\ handoff \in [Handoff -> HandoffRow \union {None}]
  /\ artifact \in [Dispatch -> SUBSET Exec]
  /\ todo \in [Process -> Seq(Statement)]
  /\ exec \in [Exec -> Execution]
  /\ planned \subseteq Dispatch /\ lapse \subseteq Lapses

Init ==
  /\ task = [k \in Task |-> TRUE]
  /\ thread = [x \in Thread |-> None]
  /\ dispatch = [d \in Dispatch |-> None]
  /\ handoff = [h \in Handoff |-> None]
  /\ artifact = [d \in Dispatch |-> {}]
  /\ todo = [p \in Process |-> <<>>]
  /\ exec = [e \in Exec |-> NoExec]
  /\ planned = {} /\ lapse = {}

-----------------------------------------------------------------------------
UnderWay(e) == exec[e].pc \notin {"free", "done", "dead"}

\* May the process take up an operation?  A command of the CLI is one
\* operation; the engine takes up others while an execution awaits.
Free(p) ==
  /\ todo[p] = <<>>
  /\ \A e \in Exec : (exec[e].by = p /\ UnderWay(e)) =>
        p = Engine /\ exec[e].pc \in {"chatting", "ended"}

\* The start of an operation, and the lapses it is.
Begins(p, lapses) ==
  /\ Free(p)
  /\ lapse' = lapse \union lapses
  /\ Cardinality(lapse') <= MaxLapses

\* What a process is in the middle of: writing a plan, submitting or
\* materializing a handoff, writing what an execution has to say of a dispatch.
Planning(p)     == \E i \in 1..Len(todo[p]) : todo[p][i].do = "queue" /\ todo[p][i].who = "planner"
Serving(p, h)   == \E i \in 1..Len(todo[p]) : todo[p][i].do \in {"attach", "handoff"}
                                              /\ todo[p][i].h = h
Reporting(p, d) == \E i \in 1..Len(todo[p]) : todo[p][i].do \in {"accept", "event", "results"}
                                              /\ todo[p][i].d = d

\* The races of operations: two plans, two submissions or materializations of
\* one handoff, a cancellation between a check and its write.
Overlap(race) == IF race THEN {"overlap"} ELSE {}

IsCancelled(d) == dispatch[d].status = "cancelled"
RunnableTask(k) == k = None \/ task[k]
Runnable(x) == thread[x] # None /\ thread[x].status \in {"idle", "dirty"}

\* listDispatches(thread, task): with a task, only its dispatches on the thread
Siblings(x, k) ==
  {d \in Dispatch : dispatch[d] # None /\ dispatch[d].thread = x
                    /\ (k = None \/ dispatch[d].task = k)}

\* Mutant: the plan does not look at other dispatches.
PlannableAnyhow(x) == Runnable(x) /\ RunnableTask(thread[x].task)

\* getThreadPlan finds no blocker
Plannable(x) ==
  /\ Runnable(x)
  /\ RunnableTask(thread[x].task)
  /\ \A d \in Siblings(x, thread[x].task) : dispatch[d].status \notin Active

-----------------------------------------------------------------------------
(* Tasks, threads and explicit dispatches. *)

TaskStatus(p, k) ==
  /\ Begins(p, {})
  /\ task' = [task EXCEPT ![k] = ~@]
  /\ UNCHANGED <<thread, dispatch, handoff, artifact, todo, exec, planned>>

\* thread-create, which also updates: what is not given stays
ThreadCreate(p, x, status, k) ==
  /\ Begins(p, {})
  /\ \/ status \in SetStatus
     \/ status = IF thread[x] = None THEN "idle" ELSE thread[x].status
  /\ thread' = [thread EXCEPT ![x] =
       [status |-> status, task |-> IF k = None /\ @ # None THEN @.task ELSE k]]
  /\ UNCHANGED <<task, dispatch, handoff, artifact, todo, exec, planned>>

NewRow(x, k) == [status |-> "queued", thread |-> x, task |-> k, exec |-> None]

\* dispatch.queue, dispatch-create and the projects_control tool, whose caller
\* may give the id of a dispatch that is there already
QueueDispatch(p, d, x, k) ==
  /\ thread[x] # None /\ (p \in Cli => k = None)
  /\ dispatch[d] = None => \A h \in Handoff : d # DispatchOf(h)
  /\ Begins(p, IF dispatch[d] = None THEN {} ELSE {"again"})
  /\ dispatch' = [dispatch EXCEPT ![d] = NewRow(x, IF k = None THEN thread[x].task ELSE k)]
  /\ UNCHANGED <<task, thread, handoff, artifact, todo, exec, planned>>

\* dispatch.cancel, the engine's: over whatever status the row has.  The
\* execution's turn is aborted if the engine makes it; it ends as turns end.
CancelDispatch(d) ==
  /\ dispatch[d] # None
  /\ Begins(Engine, Overlap(\E q \in Process : Reporting(q, d)))
  /\ dispatch' = [dispatch EXCEPT ![d].status = "cancelled"]
  /\ UNCHANGED <<task, thread, handoff, artifact, todo, exec, planned>>

-----------------------------------------------------------------------------
(* The planner: projects queue. *)

\* The threads a plan takes, up to the limit given; dirty ones come first.
Plans ==
  LET able == {x \in Thread : Plannable(x)}
  IN {s \in UNION {[1..n -> able] : n \in 1..Cardinality(able)} :
        /\ IsInjective(s)
        /\ \A x \in able \ Range(s), i \in DOMAIN s :
             thread[x].status = "dirty" => thread[s[i]].status = "dirty"}

\* The rows it writes are made of the rows it has read.
PlanQueue(p) ==
  /\ Begins(p, Overlap(\E q \in Process : Planning(q)))
  /\ \E s \in Plans :
       \E id \in [DOMAIN s -> {d \in Dispatch : /\ dispatch[d] = None
                                                /\ \A h \in Handoff : d # DispatchOf(h)}] :
         /\ IsInjective(id)
         /\ todo' = [todo EXCEPT ![p] = [n \in 1..2 * Len(s) |->
              LET i == (n + 1) \div 2
              IN IF n % 2 = 1
                 THEN Queue(id[i], s[i], thread[s[i]].task, "planner")
                 ELSE PutThread(s[i], [thread[s[i]] EXCEPT !.status = "queued"])]]
  /\ UNCHANGED <<rows, exec, planned>>

-----------------------------------------------------------------------------
(* Handoffs. *)

\* submit: the record of a key that is known is returned as it is
Submit(p, h, x, k) ==
  /\ handoff[h] = None
  /\ Begins(p, Overlap(\E q \in Process : Serving(q, h)))
  /\ todo' = [todo EXCEPT ![p] =
       <<PutHandoff(h, [thread |-> x, task |-> k, dispatch |-> None])>>]
  /\ UNCHANGED <<rows, exec, planned>>

\* Mutant: a dispatch that has left the queue does not count.
StillQueued(h) ==
  LET d == handoff[h].dispatch IN d # None /\ dispatch[d] # None /\ dispatch[d].status = "queued"

Materialized(h) ==
  LET d == handoff[h].dispatch IN d # None /\ dispatch[d] # None

\* materialize: a handoff with a dispatch keeps it
Materialize(p, h) ==
  /\ handoff[h] # None /\ ~Materialized(h)
  /\ Begins(p, Overlap(\E q \in Process : Serving(q, h)))
  /\ LET x == handoff[h].thread
         k == handoff[h].task
         d == DispatchOf(h)
     IN todo' = [todo EXCEPT ![p] =
          (IF thread[x] = None THEN <<PutThread(x, [status |-> "queued", task |-> k])>>
                               ELSE <<>>)
          \o <<Queue(d, x, k, "handoff"), Requeue(x), Attach(h, d)>>]
  /\ UNCHANGED <<rows, exec, planned>>

-----------------------------------------------------------------------------
(* Executions: runDispatchExecution over the aria backend. *)

\* dispatch.run, run-dispatch and queue_and_run: whatever status the row has
RunDispatch(p, d, e) ==
  /\ dispatch[d] # None /\ exec[e].pc = "free"
  /\ Begins(p, IF \/ dispatch[d].status # "queued"
                  \/ \E f \in Exec : exec[f].dispatch = d /\ UnderWay(f)
               THEN {"again"} ELSE {})
  /\ exec' = [exec EXCEPT ![e].pc = "accepting", ![e].dispatch = d, ![e].by = p]
  /\ todo' = [todo EXCEPT ![p] = <<Accept(d, e)>>]
  /\ UNCHANGED <<rows, planned>>

\* Mutant: no look at the dispatch before the event.
ReportsAnyhow(e, statements) ==
  /\ todo[exec[e].by] = <<>>
  /\ todo' = [todo EXCEPT ![exec[e].by] = statements]

\* An event of the execution: dropped if the dispatch is seen cancelled.
Reports(e, statements) ==
  /\ todo[exec[e].by] = <<>>
  /\ todo' = [todo EXCEPT ![exec[e].by] =
                IF IsCancelled(exec[e].dispatch) THEN <<>> ELSE statements]

\* execution.started, in the section that accepted the dispatch
Announce(e) ==
  /\ exec[e].pc = "accepting"
  /\ Reports(e, <<Event(exec[e].dispatch, e, "running")>>)
  /\ exec' = [exec EXCEPT ![e].pc = "chatting"]
  /\ UNCHANGED <<rows, planned, lapse>>

\* Has the process come to its event loop again?
Awaits(e) == /\ todo[exec[e].by] = <<>>
             /\ \A f \in Exec : exec[f].by = exec[e].by =>
                                  exec[f].pc \notin {"accepting", "reporting"}

\* tool_approval_request; one for each execution, which is a bound
AskApproval(e) ==
  /\ exec[e].pc = "chatting" /\ ~exec[e].asked /\ Awaits(e)
  /\ Reports(e, <<Event(exec[e].dispatch, e, "waiting_approval")>>)
  /\ exec' = [exec EXCEPT ![e].asked = TRUE]
  /\ UNCHANGED <<rows, planned, lapse>>

\* execution.completed: the stream is at its end, with an error event or not
ChatEnds(e, outcome) ==
  /\ exec[e].pc = "chatting" /\ Awaits(e)
  /\ Reports(e, <<Event(exec[e].dispatch, e, outcome)>>)
  /\ exec' = [exec EXCEPT ![e].pc = "ended", ![e].outcome = outcome]
  /\ UNCHANGED <<rows, planned, lapse>>

\* Mutant: the catch branch forgets the event.
ThrowsSilently(e) ==
  /\ exec[e].pc = "chatting" /\ Awaits(e)
  /\ exec' = [exec EXCEPT ![e].pc = "reporting", ![e].outcome = "failed"]
  /\ UNCHANGED <<rows, todo, planned, lapse>>

\* chat.stream throws: the catch branch, which stores no results
ChatThrows(e) ==
  /\ exec[e].pc = "chatting" /\ Awaits(e)
  /\ Reports(e, <<Event(exec[e].dispatch, e, "failed")>>)
  /\ exec' = [exec EXCEPT ![e].pc = "reporting", ![e].outcome = "failed"]
  /\ UNCHANGED <<rows, planned, lapse>>

\* git has listed the changed files: results and outcome
Conclude(e) ==
  /\ exec[e].pc = "ended" /\ Awaits(e)
  /\ Reports(e, <<Results(exec[e].dispatch, e),
                  Event(exec[e].dispatch, e, exec[e].outcome)>>)
  /\ exec' = [exec EXCEPT ![e].pc = "reporting"]
  /\ UNCHANGED <<rows, planned, lapse>>

Return(e) ==
  /\ exec[e].pc = "reporting" /\ todo[exec[e].by] = <<>>
  /\ exec' = [exec EXCEPT ![e].pc = "done"]
  /\ UNCHANGED <<rows, todo, planned, lapse>>

-----------------------------------------------------------------------------
(* The statements. *)

WriteQueue(s) ==
  /\ s.do = "queue"
  /\ dispatch' = [dispatch EXCEPT ![s.d] = NewRow(s.thread, s.task)]
  /\ planned' = IF s.who = "planner" THEN planned \union {s.d} ELSE planned
  /\ UNCHANGED <<task, thread, handoff, artifact>>

WriteThread(s) ==
  /\ s.do = "thread"
  /\ thread' = [thread EXCEPT ![s.thread] = s.row]
  /\ UNCHANGED <<task, dispatch, handoff, artifact, planned>>

WriteRequeue(s) ==
  /\ s.do = "requeue"
  /\ thread' = [thread EXCEPT ![s.thread].status = "queued"]
  /\ UNCHANGED <<task, dispatch, handoff, artifact, planned>>

WriteAttach(s) ==
  /\ s.do = "attach"
  /\ handoff' = [handoff EXCEPT ![s.h].dispatch = s.d]
  /\ UNCHANGED <<task, thread, dispatch, artifact, planned>>

\* Another submission may have come first.  The same handoff id replaces its
\* record; another id violates the uniqueness of the key.
WriteHandoff(s) ==
  /\ s.do = "handoff"
  /\ \/ handoff' = [handoff EXCEPT ![s.h] = s.row]
     \/ handoff[s.h] # None /\ UNCHANGED handoff
  /\ UNCHANGED <<task, thread, dispatch, artifact, planned>>

WriteAccept(s) ==
  /\ s.do = "accept"
  /\ dispatch' = [dispatch EXCEPT ![s.d].status = "accepted", ![s.d].exec = s.e]
  /\ UNCHANGED <<task, thread, handoff, artifact, planned>>

\* Mutant: an event does not end the wait for an approval.
WriteEventUnlessWaiting(s) ==
  /\ s.do = "event"
  /\ dispatch' = IF dispatch[s.d].status = "waiting_approval" THEN dispatch
                 ELSE [dispatch EXCEPT ![s.d].status = s.status, ![s.d].exec = s.e]
  /\ UNCHANGED <<task, thread, handoff, artifact, planned>>

\* applyExecutionEvent: over whatever status the row has by now
WriteEvent(s) ==
  /\ s.do = "event"
  /\ dispatch' = [dispatch EXCEPT ![s.d].status = s.status, ![s.d].exec = s.e]
  /\ UNCHANGED <<task, thread, handoff, artifact, planned>>

WriteResults(s) ==
  /\ s.do = "results"
  /\ artifact' = [artifact EXCEPT ![s.d] = @ \union {s.e}]
  /\ UNCHANGED <<task, thread, dispatch, handoff, planned>>

Write(p) ==
  /\ todo[p] # <<>>
  /\ todo' = [todo EXCEPT ![p] = Tail(@)]
  /\ LET s == Head(todo[p])
     IN \/ WriteQueue(s)   \/ WriteThread(s)  \/ WriteRequeue(s) \/ WriteAttach(s)
        \/ WriteHandoff(s) \/ WriteAccept(s)  \/ WriteEvent(s)   \/ WriteResults(s)
  /\ UNCHANGED <<exec, lapse>>

\* A process dies in the middle of what it does.  No start of the engine
\* looks at the dispatches.
Crash(p) ==
  /\ ~Free(p) \/ \E e \in Exec : exec[e].by = p /\ UnderWay(e)
  /\ todo' = [todo EXCEPT ![p] = <<>>]
  /\ exec' = [e \in Exec |-> IF exec[e].by = p /\ UnderWay(e)
                             THEN [exec[e] EXCEPT !.pc = "dead"] ELSE exec[e]]
  /\ lapse' = lapse \union {"crash"}
  /\ Cardinality(lapse') <= MaxLapses
  /\ UNCHANGED <<rows, planned>>

-----------------------------------------------------------------------------
Runner(e) == \/ Announce(e) \/ AskApproval(e)
             \/ \E o \in Outcomes : ChatEnds(e, o)
             \/ ChatThrows(e) \/ Conclude(e) \/ Return(e)

Next ==
  \/ \E p \in Cli, k \in Task : TaskStatus(p, k)
  \/ \E p \in Cli, x \in Thread, s \in ThreadStatus, k \in Task \union {None} :
       ThreadCreate(p, x, s, k)
  \/ \E p \in Process, d \in Dispatch, x \in Thread, k \in Task \union {None} :
       QueueDispatch(p, d, x, k)
  \/ \E d \in Dispatch : CancelDispatch(d)
  \/ \E p \in Cli : PlanQueue(p)
  \/ \E p \in Process, h \in Handoff, x \in Thread, k \in Task \union {None} :
       Submit(p, h, x, k)
  \/ \E p \in Process, h \in Handoff : Materialize(p, h)
  \/ \E p \in Process, d \in Dispatch, e \in Exec : RunDispatch(p, d, e)
  \/ \E e \in Exec : Runner(e)
  \/ \E p \in Process : Write(p) \/ Crash(p)

Spec == Init /\ [][Next]_vars
=============================================================================
